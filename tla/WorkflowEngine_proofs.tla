------------------------ MODULE WorkflowEngine_proofs ------------------------
(* Proofs about WorkflowEngine, for any set of definitions: any graph, with   *)
(* lists of any length, under any number of crashes and unloads.  First what  *)
(* every walker is (IInv) and what it has visited (AllTraced); then the four  *)
(* invariants that relate walkers to each other: Families (whose children are *)
(* whose), Chained and AllReported (how a failure reaches the run), Unstopped *)
(* (what became of the parts of each fork) and Items (whose item the run      *)
(* holds).                                                                    *)
EXTENDS WorkflowEngine, FiniteSetTheorems, TLAPS

(* A walker at path p: its types; the forks around it are different steps, it *)
(* has visited them all, and is not at one of them once it is past the cycle  *)
(* check.                                                                     *)
AtStep == {"dispatch", "render", "calling", "join"}

Sound(p, w) ==
    /\ p \in Path /\ w \in Walker
    /\ w.pc \in AtStep => w.at \in Steps \cap w.seen /\ \A k \in 1..Len(p) : p[k][1] # w.at
    /\ w.pc = "queued" => p # Main /\ Leaf(p)[2] \in 0..MaxItems
    /\ \A k \in 1..Len(p) : p[k][1] \in w.seen
    /\ \A j, k \in 1..Len(p) : p[j][1] = p[k][1] => j = k

AllSound == \A p \in DOMAIN walkers : Sound(p, walkers[p])

(* The types of what does not belong to the walkers.                         *)
SharedType ==
    /\ wf \in Workflows
    /\ run \in Run /\ saved \in Run
    /\ resumed \subseteq Steps /\ entered \subseteq Steps
    /\ resolved \in BOOLEAN
    /\ \A t \in tried : t[1] \in Steps /\ t[3] \in Steps
    /\ stops \in 0..MaxStops

IInv == SharedType /\ AllSound

-----------------------------------------------------------------------------
(* The steps of a definition. *)
LEMMA StepType ==
    ASSUME wf \in Workflows, NEW s \in Steps
    PROVE  Step(s) \in StepDef
BY WorkflowsAssumption DEF Step

(* Walkers that move or die keep the rest sound.                             *)
LEMMA MoveSound ==
    ASSUME AllSound, NEW p \in DOMAIN walkers, NEW w, Sound(p, w), Move(p, w)
    PROVE  AllSound'
BY DEF AllSound, Move, Sound

(* Walkers that fork, or come back from a fork, keep the rest sound. *)
LEMMA ForkedSound ==
    ASSUME AllSound, NEW p \in DOMAIN walkers, NEW w, Sound(p, w), NEW ws, NEW gone,
           \A q \in DOMAIN ws : Sound(q, ws[q]), Forked(p, w, ws, gone)
    PROVE  AllSound'
BY DEF AllSound, Forked, Sound

(* A walker that goes on to another step, or is over.                        *)
LEMMA HeadSound ==
    ASSUME NEW p, NEW w, Sound(p, w)
    PROVE  /\ \A s \in Target : Sound(p, [w EXCEPT !.pc = "head", !.at = s])
           /\ \A pc \in {"over", "raised", "head"} : Sound(p, [w EXCEPT !.pc = pc])
           /\ w.pc \in AtStep =>
                 /\ Sound(p, [w EXCEPT !.pc = "join"])
                 /\ Sound(p, [w EXCEPT !.pc = "render"])
                 /\ \A i \in 0..MaxItems : Sound(p, [w EXCEPT !.pc = "calling", !.item = i])
BY DEF Sound, Walker, AtStep

(* The children of a fork: their path is a step longer than their parent's   *)
(* and no step is in it twice.                                               *)
LEMMA ChildPath ==
    ASSUME NEW p, NEW w, Sound(p, w), w.pc \in AtStep, NEW i \in Nat \ {0}
    PROVE  LET q == Child(p, w.at, i) IN
           /\ q \in Path /\ q # Main /\ Leaf(q) = <<w.at, i>> /\ Parent(q) = p
           /\ \A k \in 1..Len(q) : q[k][1] \in w.seen
           /\ \A j, k \in 1..Len(q) : q[j][1] = q[k][1] => j = k
<1> DEFINE q == Child(p, w.at, i)
<1>1. /\ p \in Path /\ w.at \in Steps /\ w.at \in w.seen
      /\ \A k \in 1..Len(p) : p[k][1] # w.at
      /\ \A k \in 1..Len(p) : p[k][1] \in w.seen
      /\ \A j, k \in 1..Len(p) : p[j][1] = p[k][1] => j = k
  BY DEF Sound
<1>2. /\ q \in Path /\ Len(q) = Len(p) + 1 /\ Len(p) \in Nat
      /\ \A k \in 1..Len(p) : q[k] = p[k]
      /\ q[Len(p) + 1] = <<w.at, i>>
  BY <1>1 DEF Child, Path
<1>3. q # Main /\ Leaf(q) = <<w.at, i>>
  BY <1>2 DEF Main, Leaf
<1>4. Parent(q) = p
  BY <1>1, <1>2 DEF Parent, Path
<1>5. \A k \in 1..Len(q) : q[k][1] \in w.seen
  BY <1>1, <1>2
<1>6. \A j, k \in 1..Len(q) : q[j][1] = q[k][1] => j = k
  BY <1>1, <1>2
<1> QED BY <1>2, <1>3, <1>4, <1>5, <1>6

(* The first step of a part of a fork is a target. *)
LEMMA PartsType ==
    ASSUME wf \in Workflows, NEW f \in Steps, NEW i \in Parts(f)
    PROVE  /\ i \in Nat \ {0} /\ List(f, i)[1] \in Target
           /\ Step(f).kind = "foreach" => i \in 0..MaxItems
<1>1. Step(f) \in StepDef
  BY StepType
<1>2. Step(f).lists \in Seq(Seq(Target)) /\ Step(f).items \in 0..MaxItems
  BY <1>1 DEF StepDef
<1>3. CASE Step(f).kind = "parallel"
  <2>1. i \in 1..Len(Step(f).lists) /\ Step(f).lists[i] # <<>>
    BY <1>3 DEF Parts
  <2>2. Step(f).lists[i] \in Seq(Target)
    BY <1>2, <2>1
  <2> QED BY <1>2, <1>3, <2>1, <2>2 DEF List
<1>4. CASE Step(f).kind # "parallel"
  <2>1. Step(f).lists # <<>> /\ Head(Step(f).lists) # <<>> /\ i \in 1..Step(f).items
    BY <1>4 DEF Parts
  <2>2. Step(f).lists[1] \in Seq(Target) /\ Step(f).lists[1] # <<>>
    BY <1>2, <2>1
  <2> QED BY <1>2, <1>4, <2>1, <2>2, BoundsAssumption DEF List
<1> QED BY <1>3, <1>4

(* The children of a sound walker are sound. *)
LEMMA ChildrenSound ==
    ASSUME wf \in Workflows, NEW p \in DOMAIN walkers, Sound(p, walkers[p]), walkers[p].pc \in AtStep,
           NEW ids \in SUBSET Parts(walkers[p].at), NEW pc \in {"head", "queued"}, NEW bg \in BOOLEAN,
           pc = "queued" => Step(walkers[p].at).kind = "foreach",
           NEW q \in DOMAIN NewChildren(p, ids, pc, bg)
    PROVE  Sound(q, NewChildren(p, ids, pc, bg)[q])
<1> DEFINE w == walkers[p]
           c == NewChildren(p, ids, pc, bg)[q]
<1>1. w.at \in Steps /\ w \in Walker
  BY DEF Sound
<1>2. PICK i \in ids : q = Child(p, w.at, i)
  BY DEF NewChildren
<1>3. /\ i \in Nat \ {0} /\ List(w.at, i)[1] \in Target
      /\ Step(w.at).kind = "foreach" => i \in 0..MaxItems
  BY <1>1, PartsType
<1>4. /\ q \in Path /\ q # Main /\ Leaf(q) = <<w.at, i>>
      /\ \A k \in 1..Len(q) : q[k][1] \in w.seen
      /\ \A j, k \in 1..Len(q) : q[j][1] = q[k][1] => j = k
  BY <1>2, <1>3, ChildPath
<1>5. c = [pc |-> pc, at |-> List(w.at, i)[1], seen |-> ChildSeen(w), trail |-> w.trail,
           item |-> 0, bg |-> bg]
  BY <1>4 DEF NewChildren
<1>6. w.seen \subseteq ChildSeen(w) /\ ChildSeen(w) \subseteq Target
  <2>1. Step(w.at).next \in Target
    BY <1>1, StepType DEF StepDef
  <2> QED BY <1>1, <2>1 DEF ChildSeen, Walker
<1>7. c \in Walker
  BY <1>1, <1>3, <1>5, <1>6, BoundsAssumption DEF Walker
<1> QED BY <1>3, <1>4, <1>5, <1>6, <1>7 DEF Sound, AtStep

(* Every step of a walker keeps types and paths: one step per action.         *)
LEMMA WalkStep ==
    ASSUME IInv, NEW p \in DOMAIN walkers, Walk(p)
    PROVE  IInv'
<1> DEFINE w == walkers[p]
<1>0. /\ SharedType /\ AllSound /\ Sound(p, w) /\ w \in Walker /\ p \in Path
      /\ w.pc \in AtStep => w.at \in Steps /\ Step(w.at) \in StepDef
      /\ run.item \in 0..MaxItems
  BY StepType DEF IInv, AllSound, Sound, SharedType, Run
<1>1. /\ \A s \in Steps, st \in StepStatus : [run EXCEPT !.steps[s] = st] \in Run
      /\ \A cur \in Steps : [run EXCEPT !.cur = cur] \in Run
      /\ \A i \in 0..MaxItems : [run EXCEPT !.item = i] \in Run
  BY <1>0 DEF SharedType, Run, Target
<1>2. ASSUME w.pc \in AtStep PROVE p # Main => Leaf(p)[1] \in Steps
  BY <1>0 DEF Path, Main, Leaf
<1>3. /\ \A s \in Target : Goto(p, s) => AllSound'
      /\ Throw(p) => AllSound'
  BY <1>0, HeadSound, MoveSound DEF Goto, Throw
<1>4. ASSUME w.pc \in AtStep PROVE FailTo(p) => AllSound'
  BY <1>0, <1>3, <1>4 DEF FailTo, StepDef
<1>5. ASSUME w.pc \in AtStep, Tried(p) PROVE \A t \in tried' : t[1] \in Steps /\ t[3] \in Steps
  BY <1>0, <1>2, <1>5 DEF Tried, SharedType
<1>6. \A kinds : Dispatching(p, kinds) => w.pc \in AtStep
  BY DEF Dispatching, AtStep
<1> USE DEF IInv
<1>7. CASE Enter(p)
  <2> DEFINE v == [w EXCEPT !.pc = "dispatch", !.seen = @ \cup {w.at}, !.trail = @ \cup {w.at}]
  <2>1. w.at \in Steps /\ w.at \notin w.seen
    BY <1>7 DEF Enter, Cycle
  <2>2. v \in Walker
    BY <1>0, <2>1 DEF Walker, Target
  <2>3. Sound(p, v)
    BY <1>0, <2>1, <2>2 DEF Sound, Walker
  <2>4. AllSound'
    BY <1>0, <1>7, <2>3, MoveSound DEF Enter
  <2> QED BY <1>0, <1>1, <1>7, <2>1, <2>4 DEF Enter, Save, SharedType, stepFrame
<1>8. CASE Leave(p)
  <2>1. AllSound'
    BY <1>0, <1>8, HeadSound, MoveSound DEF Leave
  <2> QED BY <1>0, <1>8, <2>1 DEF Leave, SharedType, stepFrame
<1>9. CASE Break(p)
  BY <1>0, <1>3, <1>9 DEF Break, SharedType, stepFrame
<1>10. CASE SkipResumed(p)
  <2>1. w.pc \in AtStep
    BY <1>10 DEF SkipResumed, AtStep
  <2>2. AllSound'
    BY <1>0, <1>3, <1>10, <2>1 DEF SkipResumed, StepDef
  <2> QED BY <1>0, <1>10, <2>2 DEF SkipResumed, SharedType, stepFrame
<1>11. CASE StartAction(p)
  <2>1. w.pc \in AtStep
    BY <1>6, <1>11 DEF StartAction
  <2>2. AllSound'
    BY <1>0, <1>11, <2>1, HeadSound, MoveSound DEF StartAction
  <2>3. run' \in Run /\ saved' \in Run
    BY <1>0, <1>1, <1>11, <2>1 DEF StartAction, Save, StepStatus
  <2> QED BY <1>0, <1>5, <1>11, <2>1, <2>2, <2>3 DEF StartAction, SharedType, stepFrame
<1>12. CASE CallAction(p)
  <2>1. AllSound'
    BY <1>0, <1>12, HeadSound, MoveSound DEF CallAction, AtStep
  <2> QED BY <1>0, <1>12, <2>1 DEF CallAction, SharedType, stepFrame
<1>13. CASE CallAI(p)
  <2>1. w.pc \in AtStep
    BY <1>6, <1>13 DEF CallAI
  <2>2. AllSound'
    BY <1>0, <1>13, <2>1, HeadSound, MoveSound DEF CallAI
  <2> QED BY <1>0, <1>5, <1>13, <2>1, <2>2 DEF CallAI, SharedType, stepFrame
<1>14. CASE CallSucceeds(p)
  <2>1. w.pc \in AtStep
    BY <1>14 DEF CallSucceeds, AtStep
  <2>2. AllSound'
    BY <1>0, <1>3, <1>14, <2>1 DEF CallSucceeds, StepDef
  <2>3. run' \in Run /\ saved' \in Run
    BY <1>0, <1>1, <1>14, <2>1 DEF CallSucceeds, Save, Recorded, StepStatus, SharedType
  <2> QED BY <1>0, <1>14, <2>2, <2>3 DEF CallSucceeds, SharedType, stepFrame
<1>15. CASE CallFails(p)
  <2>1. w.pc \in AtStep
    BY <1>15 DEF CallFails, AtStep
  <2>2. AllSound'
    BY <1>4, <1>15, <2>1 DEF CallFails
  <2>3. run' \in Run /\ saved' \in Run
    BY <1>0, <1>1, <1>15, <2>1 DEF CallFails, Save, Recorded, StepStatus, SharedType
  <2> QED BY <1>0, <1>15, <2>2, <2>3 DEF CallFails, SharedType, stepFrame
<1>16. CASE Choose(p)
  <2>1. w.pc \in AtStep
    BY <1>6, <1>16 DEF Choose
  <2>2. AllSound'
    BY <1>0, <1>3, <1>16, <2>1 DEF Choose, StepDef
  <2> QED BY <1>0, <1>5, <1>16, <2>1, <2>2 DEF Choose, Save, SharedType, stepFrame
<1>17. CASE Compute(p)
  <2>1. w.pc \in AtStep
    BY <1>6, <1>17 DEF Compute
  <2>2. AllSound'
    BY <1>0, <1>3, <1>17, <2>1 DEF Compute, StepDef
  <2> QED BY <1>0, <1>5, <1>17, <2>1, <2>2 DEF Compute, Save, SharedType, stepFrame
<1>18. CASE ComputeRaises(p)
  <2>1. w.pc \in AtStep
    BY <1>6, <1>18 DEF ComputeRaises
  <2> QED BY <1>0, <1>3, <1>5, <1>18, <2>1 DEF ComputeRaises, SharedType, stepFrame
<1>19. CASE Wait(p)
  <2>1. w.pc \in AtStep
    BY <1>6, <1>19 DEF Wait
  <2>2. AllSound'
    BY <1>0, <1>3, <1>19, <2>1 DEF Wait, StepDef
  <2> QED BY <1>0, <1>5, <1>19, <2>1, <2>2 DEF Wait, SharedType, stepFrame
<1>20. CASE Fork(p)
  <2> DEFINE d == Step(w.at)
             first == IF Parts(w.at) = {} THEN {} ELSE {1}
  <2>1. w.pc \in AtStep /\ d \in StepDef
    BY <1>0, <1>6, <1>20 DEF Fork
  <2>2. d.kind = "foreach" => first \subseteq Parts(w.at)
    BY <2>1 DEF Parts, StepDef
  <2>3. w.bg \in BOOLEAN /\ d.next \in Target
    BY <1>0, <2>1 DEF Walker, StepDef
  <2>4. AllSound' /\ run' \in Run
    <3>1. CASE d.kind = "parallel" /\ d.together
               /\ Forked(p, [w EXCEPT !.pc = "join"], NewChildren(p, Parts(w.at), "head", w.bg), {}) /\ UNCHANGED run
      BY <1>0, <2>1, <2>3, <3>1, ChildrenSound, HeadSound, ForkedSound DEF SharedType
    <3>2. CASE d.kind = "parallel" /\ ~d.together
               /\ Forked(p, [w EXCEPT !.pc = "head", !.at = d.next], NewChildren(p, Parts(w.at), "head", TRUE), {})
               /\ UNCHANGED run
      BY <1>0, <2>1, <2>3, <3>2, ChildrenSound, HeadSound, ForkedSound DEF SharedType
    <3>3. CASE d.kind = "foreach" /\ d.together
               /\ Forked(p, [w EXCEPT !.pc = "join"], NewChildren(p, Parts(w.at), "queued", w.bg), {}) /\ UNCHANGED run
      BY <1>0, <2>1, <2>3, <3>3, ChildrenSound, HeadSound, ForkedSound DEF SharedType
    <3>4. CASE d.kind = "foreach" /\ ~d.together
               /\ Forked(p, [w EXCEPT !.pc = "join"], NewChildren(p, first, "head", w.bg), {})
               /\ run' = IF first = {} THEN run ELSE [run EXCEPT !.item = LoopItem(1)]
      <4>1. AllSound'
        BY <1>0, <2>1, <2>2, <2>3, <3>4, ChildrenSound, HeadSound, ForkedSound DEF SharedType
      <4>2. first # {} => 1 \in 0..MaxItems
        BY <1>0, <2>1, <2>2, <3>4, PartsType DEF SharedType
      <4> QED BY <1>0, <1>1, <3>4, <4>1, <4>2 DEF LoopItem, SharedType
    <3> QED BY <1>20, <3>1, <3>2, <3>3, <3>4 DEF Fork
  <2> QED BY <1>0, <1>5, <1>20, <2>1, <2>4 DEF Fork, SharedType, stepFrame
<1>21. CASE StartItem(p)
  <2>1. Leaf(p)[2] \in 0..MaxItems
    BY <1>0, <1>21 DEF StartItem, Sound
  <2>2. AllSound'
    BY <1>0, <1>21, HeadSound, MoveSound DEF StartItem
  <2> QED BY <1>0, <1>1, <1>21, <2>1, <2>2 DEF StartItem, LoopItem, SharedType, stepFrame
<1>22. CASE NextItem(p)
  <2>1. w.pc \in AtStep
    BY <1>22 DEF NextItem, AtStep
  <2>2. PICK q \in Children(p) :
           LET i == Leaf(q)[2] + 1 IN
           /\ i \in Parts(w.at) /\ run' = [run EXCEPT !.item = LoopItem(i)]
           /\ Forked(p, w, NewChildren(p, {i}, "head", w.bg), {q})
    BY <1>22 DEF NextItem
  <2>3. Step(w.at).kind = "foreach" /\ w.bg \in BOOLEAN
    BY <1>0, <1>22 DEF NextItem, Sequential, Walker
  <2>4. AllSound'
    BY <1>0, <2>1, <2>2, <2>3, ChildrenSound, ForkedSound DEF SharedType
  <2>5. run' \in Run
    BY <1>0, <1>1, <2>1, <2>2, <2>3, PartsType DEF LoopItem, SharedType
  <2> QED BY <1>0, <1>22, <2>4, <2>5 DEF NextItem, SharedType, stepFrame
<1>23. CASE Join(p)
  <2>1. w.pc \in AtStep
    BY <1>23 DEF Join, AtStep
  <2>2. 0 \in 0..MaxItems
    BY BoundsAssumption
  <2>3. run' \in Run
    BY <1>0, <1>1, <1>23, <2>2 DEF Join, SharedType
  <2>4. PICK v, gone : Sound(p, v) /\ Forked(p, v, NoWalkers, gone)
    <3>1. Step(w.at).next \in Target /\ Step(w.at).fail \in Target \cup {None}
      BY <1>0, <2>1 DEF StepDef
    <3> QED BY <1>0, <1>23, <2>1, <3>1, HeadSound DEF Join
  <2>5. AllSound'
    BY <1>0, <2>4, ForkedSound DEF NoWalkers
  <2> QED BY <1>0, <1>23, <2>3, <2>5 DEF Join, SharedType, stepFrame
<1> QED BY <1>7, <1>8, <1>9, <1>10, <1>11, <1>12, <1>13, <1>14, <1>15, <1>16, <1>17, <1>18, <1>19,
           <1>20, <1>21, <1>22, <1>23 DEF Walk

(* The end of an execution leaves some of the walkers as they are.            *)
LEMMA EndSound ==
    ASSUME IInv, NEW status \in Terminal, EndAs(status)
    PROVE  AllSound' /\ run' \in Run /\ saved' \in Run /\ resolved' = FALSE
           /\ UNCHANGED <<wf, resumed, entered, tried, failures>>
<1>1. AllSound'
  BY DEF IInv, AllSound, EndAs, Survivors
<1>2. run' \in Run /\ saved' \in Run
  BY DEF IInv, SharedType, EndAs, Save, Run, Terminal, Status
<1> QED BY <1>1, <1>2 DEF EndAs

(* Every action keeps the invariant: one step per action. *)
LEMMA NextStep == IInv /\ [Next]_vars => IInv'
<1> SUFFICES ASSUME IInv, [Next]_vars PROVE IInv'
  OBVIOUS
<1>0. SharedType /\ AllSound
  BY DEF IInv
<1>1. CASE Begin
  <2> DEFINE w == [pc |-> "head", at |-> IF run.cur = None THEN wf.start ELSE run.cur,
                   seen |-> {}, trail |-> {}, item |-> 0, bg |-> FALSE]
  <2>1. wf.start \in Steps /\ run.cur \in Target \cup {None}
    BY <1>0, WorkflowsAssumption DEF SharedType, Run
  <2>2. w \in Walker
    BY <2>1, BoundsAssumption DEF Walker, Target
  <2>3. Sound(Main, w)
    BY <2>2 DEF Sound, Main, Path, AtStep
  <2>4. walkers' = [p \in {Main} |-> w]
    BY <1>1 DEF Begin
  <2>5. AllSound'
    <3> HIDE DEF w
    <3> QED BY <2>3, <2>4 DEF AllSound
  <2>6. run' \in Run /\ saved' \in Run
    BY <1>0, <1>1 DEF Begin, SharedType, Run, Status
  <2> QED BY <1>0, <1>1, <2>5, <2>6 DEF Begin, IInv, SharedType
<1>2. ASSUME NEW p \in DOMAIN walkers, Walk(p) PROVE IInv'
  BY <1>2, WalkStep
<1>3. CASE Finish
  BY <1>0, <1>3, EndSound DEF Finish, IInv, SharedType, Terminal
<1>4. CASE Timeout
  BY <1>0, <1>4, EndSound DEF Timeout, IInv, SharedType, Terminal
<1>5. CASE Unload
  <2>1. stops' \in 0..MaxStops
    BY <1>0, <1>5, BoundsAssumption DEF Unload, SharedType
  <2> QED BY <1>0, <1>5, <2>1, EndSound DEF Unload, IInv, SharedType, Terminal
<1>6. CASE Crash
  <2>1. stops' \in 0..MaxStops
    BY <1>0, <1>6, BoundsAssumption DEF Crash, SharedType
  <2>2. run' \in Run /\ saved' \in Run
    BY <1>0, <1>6 DEF Crash, SharedType, Run
  <2> QED BY <1>0, <1>6, <2>1, <2>2 DEF Crash, NoWalkers, IInv, AllSound, SharedType
<1>7. CASE Quiet \/ UNCHANGED vars
  BY <1>0, <1>7 DEF Quiet, vars, IInv, AllSound, SharedType
<1> QED BY <1>1, <1>2, <1>3, <1>4, <1>5, <1>6, <1>7 DEF Next, Progress

(* The invariant holds at first. *)
LEMMA InitSound == Init => IInv
<1>1. NewRun \in Run
  <2>1. 0 \in 0..MaxItems /\ [s \in Steps |-> "none"] \in [Steps -> StepStatus]
    BY BoundsAssumption DEF StepStatus
  <2> QED BY <2>1 DEF NewRun, Run, Status
<1>2. Init => SharedType
  <2>1. 0 \in 0..MaxStops
    BY BoundsAssumption
  <2>2. Init => resolved \in BOOLEAN
    BY DEF Init
  <2> QED BY <1>1, <2>1, <2>2 DEF Init, SharedType
<1>3. Init => AllSound
  BY DEF Init, AllSound, NoWalkers
<1> QED BY <1>2, <1>3 DEF IInv

(* All variables keep their types, on every graph.                            *)
THEOREM TypeCorrect == Spec => []TypeOK
<1>1. IInv => TypeOK
  BY DEF IInv, SharedType, AllSound, Sound, TypeOK
<1> QED BY <1>1, InitSound, NextStep, PTL DEF Spec

(* No fork is ever entered inside itself, on any graph: a run has no more     *)
(* nested forks than its graph has steps.                                     *)
THEOREM ForksNeverReenter == Spec => []NoReentry
<1>1. IInv => NoReentry
  BY DEF IInv, AllSound, Sound, NoReentry
<1> QED BY <1>1, InitSound, NextStep, PTL DEF Spec

-----------------------------------------------------------------------------
(* Cycles: where what a walker has visited comes from.                        *)

(* A parallel step that does not wait for its branches. *)
Detaches(s) == Step(s).kind = "parallel" /\ ~Step(s).together

(* A walker at path q has visited what its path went through, and the next    *)
(* steps of the forks that left a branch of its path behind.                  *)
Inherits(q, s) == \E k \in 1..Len(q) : Detaches(q[k][1]) /\ s = Step(q[k][1]).next
Traced(q, w) == \A s \in w.seen : s \in w.trail \/ Inherits(q, s)

AllTraced == \A q \in DOMAIN walkers : Traced(q, walkers[q])

(* The children of a walker take its trace, and perhaps its next step. *)
LEMMA ChildrenTraced ==
    ASSUME IInv, AllTraced, NEW p \in DOMAIN walkers, walkers[p].at \in Steps,
           NEW ids \in SUBSET Parts(walkers[p].at), NEW pc, NEW bg,
           NEW q \in DOMAIN NewChildren(p, ids, pc, bg)
    PROVE  Traced(q, NewChildren(p, ids, pc, bg)[q])
<1> DEFINE w == walkers[p]
           c == NewChildren(p, ids, pc, bg)[q]
<1>1. PICK i \in ids : q = Child(p, w.at, i)
  BY DEF NewChildren
<1>2. i \in Nat \ {0} /\ p \in Path
  BY PartsType DEF IInv, SharedType, AllSound, Sound
<1>3. /\ Len(q) = Len(p) + 1 /\ Len(p) \in Nat /\ q[Len(p) + 1] = <<w.at, i>>
      /\ \A k \in 1..Len(p) : q[k] = p[k]
  BY <1>1, <1>2 DEF Child, Path
<1>4. c.seen = ChildSeen(w) /\ c.trail = w.trail
  BY DEF NewChildren
<1>5. ASSUME NEW s \in w.seen PROVE s \in w.trail \/ Inherits(q, s)
  <2>1. s \in w.trail \/ Inherits(p, s)
    BY DEF AllTraced, Traced
  <2>2. ASSUME Inherits(p, s) PROVE Inherits(q, s)
    <3>1. PICK k \in 1..Len(p) : Detaches(p[k][1]) /\ s = Step(p[k][1]).next
      BY <2>2 DEF Inherits
    <3>2. k \in 1..Len(q) /\ q[k] = p[k]
      BY <1>3
    <3> QED BY <3>1, <3>2 DEF Inherits
  <2> QED BY <2>1, <2>2
<1>6. ASSUME NEW s, s = Step(w.at).next, Detaches(w.at) PROVE Inherits(q, s)
  <2>1. Len(p) + 1 \in 1..Len(q) /\ q[Len(p) + 1][1] = w.at
    BY <1>3
  <2> QED BY <1>6, <2>1 DEF Inherits
<1>7. \A s \in ChildSeen(w) : s \in w.seen \/ (s = Step(w.at).next /\ Detaches(w.at))
  BY DEF ChildSeen, Detaches
<1> HIDE DEF w, c
<1> QED BY <1>4, <1>5, <1>6, <1>7 DEF Traced, w, c

(* A walker that moves on keeps what it has seen, except at the head of the   *)
(* loop, and children take it from their parent.                              *)
LEMMA WalkTraced ==
    ASSUME IInv, AllTraced, NEW p \in DOMAIN walkers, Walk(p), wf' = wf
    PROVE  AllTraced'
<1> DEFINE w == walkers[p]
<1>0. w \in Walker /\ Traced(p, w)
  BY DEF IInv, AllSound, Sound, AllTraced
<1>1. \A q, v : Traced(q, v) => Traced(q, v)'
  BY DEF Traced, Inherits, Detaches, Step
<1> DEFINE Same(v) == v.seen = w.seen /\ v.trail = w.trail
<1>2. ASSUME NEW v, Traced(p, v), Move(p, v) PROVE AllTraced'
  BY <1>1, <1>2 DEF Move, AllTraced, Traced, Inherits, Detaches, Step
<1>3. ASSUME NEW v, Same(v), NEW ws, NEW gone, Forked(p, v, ws, gone), \A q \in DOMAIN ws : Traced(q, ws[q])
      PROVE  AllTraced'
  BY <1>0, <1>3 DEF Forked, AllTraced, Traced, Inherits, Detaches, Step
<1>4. \A v : Same(v) => Traced(p, v)
  BY <1>0 DEF Traced
<1>5. w.pc \in AtStep => w.at \in Steps
  BY DEF IInv, AllSound, Sound
<1>6. /\ \A s : Same([w EXCEPT !.pc = "head", !.at = s])
      /\ \A pc, i : Same([w EXCEPT !.pc = pc]) /\ Same([w EXCEPT !.pc = pc, !.item = i])
  BY <1>0 DEF Walker
<1>7. /\ \A s : Goto(p, s) => AllTraced'
      /\ Throw(p) => AllTraced'
      /\ FailTo(p) => AllTraced'
  <2> HIDE DEF Same
  <2> QED BY <1>2, <1>4, <1>6 DEF Goto, Throw, FailTo
<1>8. CASE Enter(p)
  <2> DEFINE v == [w EXCEPT !.pc = "dispatch", !.seen = @ \cup {w.at}, !.trail = @ \cup {w.at}]
  <2>1. v.seen = w.seen \cup {w.at} /\ v.trail = w.trail \cup {w.at} /\ Move(p, v)
    BY <1>0, <1>8 DEF Enter, Walker
  <2> HIDE DEF v
  <2>2. Traced(p, v)
    BY <1>0, <2>1 DEF Traced
  <2> QED BY <1>2, <2>1, <2>2
<1>9. CASE Leave(p) \/ Break(p) \/ SkipResumed(p) \/ CallSucceeds(p) \/ CallFails(p) \/ Choose(p)
           \/ Compute(p) \/ ComputeRaises(p) \/ Wait(p)
  <2> HIDE DEF Same
  <2> QED BY <1>2, <1>4, <1>6, <1>7, <1>9 DEF Leave, Break, SkipResumed, CallSucceeds, CallFails, Choose,
                                Compute, ComputeRaises, Wait
<1>10. CASE StartAction(p) \/ CallAction(p) \/ CallAI(p) \/ StartItem(p)
  <2> HIDE DEF Same
  <2> QED BY <1>2, <1>4, <1>6, <1>10 DEF StartAction, CallAction, CallAI, StartItem
<1>11. CASE Fork(p)
  <2>1. w.at \in Steps /\ wf \in Workflows
    BY <1>5, <1>11 DEF Fork, Dispatching, AtStep, IInv, SharedType
  <2>2. PICK v, ids, pc, bg : /\ ids \in SUBSET Parts(w.at) /\ Same(v)
                                /\ Forked(p, v, NewChildren(p, ids, pc, bg), {})
    <3> DEFINE first == IF Parts(w.at) = {} THEN {} ELSE {1}
    <3>1. Sequential(p) => first \in SUBSET Parts(w.at)
      <4>1. Step(w.at).items \in Nat
        BY <2>1, StepType, BoundsAssumption DEF StepDef
      <4>2. Sequential(p) => Parts(w.at) \in {{}, 1..Step(w.at).items}
        BY DEF Sequential, Parts
      <4> QED BY <4>1, <4>2
    <3>2. Parts(w.at) \in SUBSET Parts(w.at)
      OBVIOUS
    <3> HIDE DEF Same, first
    <3> QED BY <1>6, <1>11, <3>1, <3>2 DEF Fork, Sequential, first
  <2>3. \A q \in DOMAIN NewChildren(p, ids, pc, bg) : Traced(q, NewChildren(p, ids, pc, bg)[q])
    BY <2>1, <2>2, ChildrenTraced
  <2> HIDE DEF Same
  <2> QED BY <1>3, <2>2, <2>3
<1>12. CASE NextItem(p)
  <2>1. w.at \in Steps
    BY <1>5, <1>12 DEF NextItem, AtStep
  <2>2. PICK i, gone : i \in Parts(w.at) /\ Forked(p, w, NewChildren(p, {i}, "head", w.bg), gone)
    BY <1>12 DEF NextItem
  <2>3. \A q \in DOMAIN NewChildren(p, {i}, "head", w.bg) : Traced(q, NewChildren(p, {i}, "head", w.bg)[q])
    BY <2>1, <2>2, ChildrenTraced
  <2> QED BY <1>3, <2>2, <2>3
<1>13. CASE Join(p)
  <2>1. PICK v, gone : Same(v) /\ Forked(p, v, NoWalkers, gone)
    BY <1>6, <1>13 DEF Join
  <2> QED BY <1>3, <2>1 DEF NoWalkers
<1> QED BY <1>8, <1>9, <1>10, <1>11, <1>12, <1>13 DEF Walk

(* Every action keeps AllTraced. *)
LEMMA TracedStep == IInv /\ AllTraced /\ [Next]_vars => AllTraced'
<1> SUFFICES ASSUME IInv, AllTraced, [Next]_vars PROVE AllTraced'
  OBVIOUS
<1>1. wf' = wf
  BY EndSound DEF Next, Progress, Begin, Walk, Enter, Leave, Break, SkipResumed, StartAction, CallAction,
        CallAI, CallSucceeds, CallFails, Choose, Compute, ComputeRaises, Wait, Fork, StartItem, NextItem,
        Join, stepFrame, Finish, Timeout, Unload, EndAs, Crash, Quiet, vars
<1>2. ASSUME \A q \in DOMAIN walkers' : q \in DOMAIN walkers /\ walkers'[q] = walkers[q] PROVE AllTraced'
  BY <1>1, <1>2 DEF AllTraced, Traced, Inherits, Detaches, Step
<1>3. CASE Begin
  <2>1. \A q \in DOMAIN walkers' : walkers'[q].seen = {}
    BY <1>3 DEF Begin
  <2> QED BY <2>1 DEF AllTraced, Traced
<1>4. ASSUME NEW p \in DOMAIN walkers, Walk(p) PROVE AllTraced'
  BY <1>1, <1>4, WalkTraced
<1>5. CASE Finish \/ Timeout \/ Unload
  BY <1>2, <1>5 DEF Finish, Timeout, Unload, EndAs, Survivors
<1>6. CASE Crash
  BY <1>2, <1>6 DEF Crash, NoWalkers
<1>7. CASE Quiet \/ UNCHANGED vars
  BY <1>2, <1>7 DEF Quiet, vars
<1> QED BY <1>3, <1>4, <1>5, <1>6, <1>7 DEF Next, Progress

(* On every graph, branches nobody waits for included: a cycle error is about *)
(* a step the path really went through, or about the next step of a fork that *)
(* left a branch of the path behind.                                          *)
THEOREM CycleErrorsAreExplained == Spec => []CyclesHaveCause
<1>1. Init => AllTraced
  BY DEF Init, AllTraced, NoWalkers
<1>2. AllTraced => CyclesHaveCause
  BY DEF AllTraced, Traced, Inherits, Detaches, CyclesHaveCause, Cycle
<1> QED BY <1>1, <1>2, InitSound, NextStep, TracedStep, PTL DEF Spec

-----------------------------------------------------------------------------
(* Families: whose children are whose.                                       *)

(* Who descends from whom: the path of q goes through walker p and then       *)
(* through the part Via(p, q) of a fork.                                      *)
Under(p, q) == Len(p) < Len(q) /\ \A k \in 1..Len(p) : q[k] = p[k]
Via(p, q) == q[Len(p) + 1]

(* A walker has visited the forks it left descendants in, so it meets none of *)
(* them again, and a sequential loop has come no further than its one child.  *)
Descends(p, q) ==
    LET w == walkers[p] IN
    /\ Via(p, q)[1] \in w.seen
    /\ w.pc \in {"dispatch", "render", "calling"} => w.at # Via(p, q)[1]
    /\ w.pc = "join" /\ w.at = Via(p, q)[1] /\ Sequential(p) =>
          \A c \in Children(p) : Via(p, q)[2] <= Leaf(c)[2]

Lineage == \A p, q \in DOMAIN walkers : Under(p, q) => Descends(p, q)

Families == IsFiniteSet(DOMAIN walkers) /\ Lineage

(* A child is one step below its parent. *)
LEMMA ChildIs ==
    ASSUME NEW p \in Path, NEW q \in Path
    PROVE  /\ q # Main /\ Parent(q) = p <=> Len(q) = Len(p) + 1 /\ Under(p, q)
           /\ Len(q) = Len(p) + 1 => Leaf(q) = Via(p, q)
<1>1. Len(p) \in Nat /\ Len(q) \in Nat /\ (q # Main <=> Len(q) # 0)
  BY DEF Path, Main
<1>2. ASSUME q # Main, Parent(q) = p PROVE Len(q) = Len(p) + 1 /\ Under(p, q)
  BY <1>1, <1>2 DEF Path, Parent, Under
<1>3. ASSUME Len(q) = Len(p) + 1, Under(p, q) PROVE q # Main /\ Parent(q) = p
  BY <1>1, <1>3 DEF Path, Parent, Under
<1> QED BY <1>1, <1>2, <1>3 DEF Leaf, Via

(* Paths of one length, one above the other's end, are the same. *)
LEMMA SamePath ==
    ASSUME NEW p \in Path, NEW q \in Path, Len(p) = Len(q), \A k \in 1..Len(p) : q[k] = p[k]
    PROVE  p = q
BY DEF Path

(* What is above a child is its parent or above it. *)
LEMMA AboveChild ==
    ASSUME NEW p \in Path, NEW a \in Path, NEW f \in Steps, NEW i \in Nat \ {0}, Under(a, Child(p, f, i))
    PROVE  a = p \/ (Under(a, p) /\ Via(a, p) = Via(a, Child(p, f, i)))
<1> DEFINE q == Child(p, f, i)
<1>1. /\ q \in Path /\ Len(q) = Len(p) + 1 /\ Len(p) \in Nat /\ Len(a) \in Nat
      /\ \A k \in 1..Len(p) : q[k] = p[k]
  BY DEF Child, Path
<1>2. CASE Len(a) = Len(p)
  BY <1>1, <1>2, SamePath DEF Under
<1>3. CASE Len(a) # Len(p)
  BY <1>1, <1>3 DEF Under, Via
<1> QED BY <1>2, <1>3

(* The path of a child. *)
LEMMA ChildUnder ==
    ASSUME NEW p \in Path, NEW f \in Steps, NEW i \in Nat \ {0}
    PROVE  LET q == Child(p, f, i) IN
           /\ q \in Path /\ Len(q) = Len(p) + 1 /\ Under(p, q) /\ Via(p, q) = <<f, i>>
           /\ q # Main /\ Parent(q) = p /\ Leaf(q) = <<f, i>> /\ q # p
<1> DEFINE q == Child(p, f, i)
<1>1. /\ q \in Path /\ Len(q) = Len(p) + 1 /\ Len(p) \in Nat
      /\ \A k \in 1..Len(p) : q[k] = p[k]
      /\ q[Len(p) + 1] = <<f, i>>
  BY DEF Child, Path
<1>2. Under(p, q) /\ Via(p, q) = <<f, i>>
  BY <1>1 DEF Under, Via
<1>3. q # Main /\ Parent(q) = p /\ Leaf(q) = <<f, i>>
  BY <1>1, <1>2, ChildIs
<1> QED BY <1>1, <1>2, <1>3

(* A step of a walker that neither forks nor comes back from a fork changes   *)
(* this walker only.                                                          *)
LEMMA MoveShape ==
    ASSUME IInv, NEW p \in DOMAIN walkers, Walk(p), ~Fork(p), ~NextItem(p), ~Join(p)
    PROVE  LET w == walkers[p]
               v == walkers'[p]
           IN
           /\ Move(p, v) /\ wf' = wf /\ run'.status = run.status
           /\ saved' = saved \/ saved' = run'
           /\ v.bg = w.bg /\ w.seen \subseteq v.seen
           /\ w.pc \notin {"join", "over", "raised"} /\ v.pc \notin {"join", "queued"}
           /\ w.pc = "queued" => StartItem(p)
           /\ v.pc \in {"render", "calling"} => v.at = w.at /\ w.pc \in {"dispatch", "render", "calling"}
           /\ v.pc = "dispatch" => w.pc = "head" /\ v.at = w.at /\ w.at \notin w.seen
           /\ IF v.pc = "raised" THEN failures' = failures \cup {<<p, w.at>>} ELSE failures' = failures
<1> DEFINE w == walkers[p]
           v == walkers'[p]
           Shape == /\ Move(p, v) /\ v.bg = w.bg /\ w.seen \subseteq v.seen
                    /\ w.pc \notin {"join", "over", "raised"} /\ v.pc \notin {"join", "queued"}
                    /\ w.pc = "queued" => StartItem(p)
                    /\ v.pc \in {"render", "calling"} => v.at = w.at /\ w.pc \in {"dispatch", "render", "calling"}
                    /\ v.pc = "dispatch" => w.pc = "head" /\ v.at = w.at /\ w.at \notin w.seen
                    /\ IF v.pc = "raised" THEN failures' = failures \cup {<<p, w.at>>} ELSE failures' = failures
<1>1. w \in Walker /\ run \in Run
  BY DEF IInv, SharedType, AllSound, Sound
<1>2. ASSUME NEW u, Move(p, u) PROVE v = u /\ Move(p, v)
  BY <1>2 DEF Move
<1>3. ASSUME NEW s, Goto(p, s), UNCHANGED failures, w.pc \in {"dispatch", "calling"} PROVE Shape
  <2> DEFINE u == [w EXCEPT !.pc = "head", !.at = s]
  <2>1. u.pc = "head" /\ u.bg = w.bg /\ u.seen = w.seen
    BY <1>1 DEF Walker
  <2>2. v = u /\ Move(p, v)
    BY <1>2, <1>3 DEF Goto
  <2> QED BY <1>3, <2>1, <2>2
<1>4. ASSUME Throw(p), w.pc \in {"head", "dispatch", "calling"} PROVE Shape
  BY <1>1, <1>2, <1>4 DEF Throw, Walker
<1>5. CASE Enter(p)
  <2> DEFINE u == [w EXCEPT !.pc = "dispatch", !.seen = @ \cup {w.at}, !.trail = @ \cup {w.at}]
  <2>1. u.pc = "dispatch" /\ u.bg = w.bg /\ w.seen \subseteq u.seen /\ u.at = w.at
    BY <1>1 DEF Walker
  <2>2. v = u /\ Move(p, v)
    BY <1>2, <1>5 DEF Enter
  <2>3. Shape
    BY <1>5, <2>1, <2>2 DEF Enter, Cycle
  <2> QED BY <1>1, <1>5, <2>3 DEF Enter, Save, stepFrame, Run
<1>6. CASE Leave(p)
  BY <1>1, <1>2, <1>6 DEF Leave, Walker, stepFrame
<1>7. CASE Break(p)
  BY <1>4, <1>7 DEF Break, stepFrame
<1>8. CASE SkipResumed(p)
  BY <1>3, <1>8 DEF SkipResumed, stepFrame
<1>9. CASE StartAction(p)
  BY <1>1, <1>2, <1>9 DEF StartAction, Dispatching, Walker, Save, stepFrame, Run
<1>10. CASE CallAction(p)
  <2> DEFINE u == [w EXCEPT !.pc = "calling", !.item = run.item]
  <2>1. u.pc = "calling" /\ u.bg = w.bg /\ u.seen = w.seen /\ u.at = w.at
    BY <1>1 DEF Walker
  <2>2. v = u /\ Move(p, v)
    BY <1>2, <1>10 DEF CallAction
  <2>3. Shape
    BY <1>10, <2>1, <2>2 DEF CallAction, Dispatching
  <2> QED BY <1>1, <1>10, <2>3 DEF CallAction, stepFrame
<1>11. CASE CallAI(p)
  <2> DEFINE u == [w EXCEPT !.pc = "calling", !.item = run.item]
  <2>1. u.pc = "calling" /\ u.bg = w.bg /\ u.seen = w.seen /\ u.at = w.at
    BY <1>1 DEF Walker
  <2>2. v = u /\ Move(p, v)
    BY <1>2, <1>11 DEF CallAI
  <2>3. Shape
    BY <1>11, <2>1, <2>2 DEF CallAI, Dispatching
  <2> QED BY <1>1, <1>11, <2>3 DEF CallAI, stepFrame
<1>12. CASE CallSucceeds(p)
  BY <1>1, <1>3, <1>12 DEF CallSucceeds, Save, Recorded, stepFrame, Run
<1>13. CASE CallFails(p)
  <2>1. Shape
    BY <1>3, <1>4, <1>13 DEF CallFails, FailTo
  <2> QED BY <1>1, <1>13, <2>1 DEF CallFails, Save, Recorded, stepFrame, Run
<1>14. CASE Choose(p)
  BY <1>3, <1>14 DEF Choose, Dispatching, Save, stepFrame
<1>15. CASE Compute(p)
  BY <1>3, <1>15 DEF Compute, Dispatching, Save, stepFrame
<1>16. CASE ComputeRaises(p)
  BY <1>4, <1>16 DEF ComputeRaises, Dispatching, stepFrame
<1>17. CASE Wait(p)
  BY <1>3, <1>17 DEF Wait, Dispatching, stepFrame
<1>18. CASE StartItem(p)
  BY <1>1, <1>2, <1>18 DEF StartItem, Walker, stepFrame, Run
<1> QED BY <1>5, <1>6, <1>7, <1>8, <1>9, <1>10, <1>11, <1>12, <1>13, <1>14, <1>15, <1>16, <1>17, <1>18 DEF Walk

(* A step of one walker keeps the lineage of all. *)
LEMMA LineageMoved ==
    ASSUME IInv, Lineage, NEW p \in DOMAIN walkers, Walk(p), ~Fork(p), ~NextItem(p), ~Join(p)
    PROVE  Lineage'
<1> DEFINE w == walkers[p]
           v == walkers'[p]
<1>1. /\ Move(p, v) /\ wf' = wf /\ w.seen \subseteq v.seen /\ v.pc # "join"
      /\ v.pc \in {"render", "calling"} => v.at = w.at /\ w.pc \in {"dispatch", "render", "calling"}
      /\ v.pc = "dispatch" => w.pc = "head" /\ v.at = w.at /\ w.at \notin w.seen
  BY MoveShape
<1>2. /\ DOMAIN walkers' = DOMAIN walkers
      /\ \A a \in DOMAIN walkers : a # p => walkers'[a] = walkers[a]
  BY <1>1 DEF Move
<1> SUFFICES ASSUME NEW a \in DOMAIN walkers, NEW b \in DOMAIN walkers, Under(a, b)
             PROVE  Descends(a, b)'
  BY <1>2 DEF Lineage, Under
<1>3. Descends(a, b)
  BY DEF Lineage
<1>4. CASE a = p
  BY <1>1, <1>3, <1>4 DEF Descends, Via
<1>5. CASE a # p
  <2>1. walkers'[a] = walkers[a] /\ Children(a)' = Children(a) /\ Sequential(a)' = Sequential(a)
    BY <1>1, <1>2, <1>5 DEF Children, Sequential, Step
  <2> QED BY <1>3, <2>1 DEF Descends, Via
<1> QED BY <1>4, <1>5

(* So does a fork, or the end of one, when the paths of the new children are  *)
(* new and those of a sequential loop come in their order.                    *)
LEMMA LineageForked ==
    ASSUME IInv, Lineage, NEW p \in DOMAIN walkers, walkers[p].pc \in AtStep,
           NEW ids \in SUBSET Parts(walkers[p].at),
           NEW v, NEW ws, NEW gone \in SUBSET Children(p), Forked(p, v, ws, gone), wf' = wf,
           v.seen = walkers[p].seen, v.pc \in {"head", "join", "raised"},
           v.pc = "join" => v.at = walkers[p].at,
           \A q \in DOMAIN ws : \E i \in ids : q = Child(p, walkers[p].at, i),
           \A i \in ids, b \in DOMAIN walkers : Under(p, b) => Via(p, b) # <<walkers[p].at, i>>,
           v.pc = "join" /\ Sequential(p) =>
              \A b \in DOMAIN walkers \cup DOMAIN ws, c \in (Children(p) \ gone) \cup DOMAIN ws :
                 Under(p, b) /\ Via(p, b)[1] = walkers[p].at => Via(p, b)[2] <= Leaf(c)[2]
    PROVE  Lineage'
<1> DEFINE w == walkers[p]
<1>0. /\ p \in Path /\ w.at \in Steps /\ w.at \in w.seen /\ wf \in Workflows
      /\ \A a \in DOMAIN walkers : a \in Path
  BY DEF IInv, SharedType, AllSound, Sound
<1>1. \A q \in DOMAIN ws : \E i \in ids :
         /\ q = Child(p, w.at, i) /\ i \in Nat \ {0}
         /\ q \in Path /\ Len(q) = Len(p) + 1 /\ Under(p, q) /\ Via(p, q) = <<w.at, i>>
         /\ q # Main /\ Parent(q) = p /\ q # p
  BY <1>0, PartsType, ChildUnder
<1>2. \A q \in gone : q # Main /\ Parent(q) = p /\ q # p
  <2> SUFFICES ASSUME NEW q \in gone PROVE q # Main /\ Parent(q) = p /\ q # p
    OBVIOUS
  <2>1. q # Main /\ Parent(q) = p /\ q \in Path
    BY <1>0 DEF Children
  <2>2. Len(q) = Len(p) + 1 /\ Len(p) \in Nat
    BY <1>0, <2>1, ChildIs DEF Path
  <2> QED BY <2>1, <2>2
<1>3. /\ DOMAIN walkers' = (DOMAIN walkers \ gone) \cup DOMAIN ws
      /\ walkers'[p] = v
      /\ \A q \in DOMAIN ws : walkers'[q] = ws[q]
      /\ \A q \in DOMAIN walkers' : q # p /\ q \notin DOMAIN ws => walkers'[q] = walkers[q]
  BY <1>1, <1>2 DEF Forked
<1> SUFFICES ASSUME NEW a \in DOMAIN walkers', NEW b \in DOMAIN walkers', Under(a, b)
             PROVE  Descends(a, b)'
  BY DEF Lineage, Under
<1>4. a \in Path /\ b \in Path /\ Len(a) \in Nat /\ Len(b) \in Nat
  BY <1>0, <1>1, <1>3 DEF Path
<1>5. CASE a \in DOMAIN ws
  <2>1. PICK i \in ids : /\ a = Child(p, w.at, i) /\ i \in Nat \ {0}
                         /\ Len(a) = Len(p) + 1 /\ Under(p, a) /\ Via(p, a) = <<w.at, i>>
    BY <1>1, <1>5
  <2>2. Under(p, b) /\ Via(p, b) = <<w.at, i>>
    <3>1. Len(p) \in Nat
      BY <1>0 DEF Path
    <3> HIDE DEF w
    <3> QED BY <1>4, <2>1, <3>1 DEF Under, Via
  <2>3. b \in DOMAIN ws
    BY <1>3, <2>2
  <2> QED BY <1>1, <1>4, <2>1, <2>3 DEF Under
<1>6. CASE a = p
  <2>0. a \notin DOMAIN ws
    BY <1>1, <1>6
  <2>1. Via(p, b)[1] \in w.seen
    <3>1. CASE b \in DOMAIN ws
      BY <1>0, <1>1, <3>1
    <3>2. CASE b \notin DOMAIN ws
      BY <1>3, <1>6, <3>2 DEF Lineage, Descends
    <3> QED BY <3>1, <3>2
  <2>2. v.pc = "join" => (Sequential(p)' = Sequential(p)) /\ Children(p)' \subseteq (Children(p) \ gone) \cup DOMAIN ws
    BY <1>3 DEF Children, Sequential, Step
  <2> QED BY <1>3, <1>6, <2>1, <2>2 DEF Descends, Via
<1>7. CASE a \notin DOMAIN ws /\ a # p
  <2>1. a \in DOMAIN walkers /\ walkers'[a] = walkers[a]
    BY <1>3, <1>7
  <2>2. Children(a)' \subseteq Children(a)
    <3>1. \A c \in Children(a)' : c \notin DOMAIN ws
      BY <1>1, <1>7 DEF Children
    <3> QED BY <1>3, <2>1, <3>1 DEF Children
  <2>3. Sequential(a)' = Sequential(a)
    BY <2>1 DEF Sequential, Step
  <2>4. \E d \in DOMAIN walkers : Under(a, d) /\ Via(a, b) = Via(a, d)
    <3>1. CASE b \in DOMAIN ws
      <4>1. PICK i \in ids : b = Child(p, w.at, i) /\ i \in Nat \ {0}
        BY <1>1, <3>1
      <4> QED BY <1>0, <1>4, <1>7, <4>1, AboveChild
    <3>2. CASE b \notin DOMAIN ws
      BY <1>3, <3>2
    <3> QED BY <3>1, <3>2
  <2>5. PICK d \in DOMAIN walkers : Under(a, d) /\ Via(a, b) = Via(a, d)
    BY <2>4
  <2>6. Descends(a, d)
    BY <2>1, <2>5 DEF Lineage
  <2> QED BY <2>1, <2>2, <2>3, <2>5, <2>6 DEF Descends, Via
<1> QED BY <1>5, <1>6, <1>7

(* What a new child is. *)
LEMMA Born ==
    ASSUME IInv, NEW p \in DOMAIN walkers, walkers[p].pc \in AtStep,
           NEW ids \in SUBSET Parts(walkers[p].at), NEW pc, NEW bg
    PROVE  LET w == walkers[p]
               ws == NewChildren(p, ids, pc, bg)
           IN
           /\ \A i \in ids : Child(p, w.at, i) \in DOMAIN ws
           /\ \A q \in DOMAIN ws : \E i \in ids :
                 /\ i \in Nat \ {0} /\ q = Child(p, w.at, i)
                 /\ ws[q].pc = pc /\ ws[q].bg = bg /\ ws[q].at = List(w.at, i)[1]
<1> DEFINE w == walkers[p]
           ws == NewChildren(p, ids, pc, bg)
<1>1. p \in Path /\ w.at \in Steps /\ wf \in Workflows
  BY DEF IInv, SharedType, AllSound, Sound
<1> SUFFICES ASSUME NEW q \in DOMAIN ws
             PROVE  \E i \in ids : /\ i \in Nat \ {0} /\ q = Child(p, w.at, i)
                                   /\ ws[q].pc = pc /\ ws[q].bg = bg /\ ws[q].at = List(w.at, i)[1]
  BY DEF NewChildren
<1>2. PICK i \in ids : q = Child(p, w.at, i)
  BY DEF NewChildren
<1>3. i \in Nat \ {0} /\ Leaf(q) = <<w.at, i>>
  BY <1>1, <1>2, PartsType, ChildUnder
<1>4. Leaf(q)[2] = i
  BY <1>3
<1>5. ws[q].pc = pc /\ ws[q].bg = bg /\ ws[q].at = List(w.at, Leaf(q)[2])[1]
  BY DEF NewChildren
<1> QED BY <1>2, <1>3, <1>4, <1>5

(* Walker p becomes v and has the children ids of the fork it is at.          *)
ForkTo(p, v, ids, pc, bg) ==
    LET w == walkers[p]
        d == Step(w.at)
    IN
    /\ Forked(p, v, NewChildren(p, ids, pc, bg), {})
    /\ v.seen = w.seen /\ v.bg = w.bg
    /\ \/ v.pc = "join" /\ v.at = w.at /\ bg = w.bg /\ ~Detaches(w.at)
       \/ v.pc = "head" /\ bg = TRUE /\ Detaches(w.at)
    /\ pc = IF d.kind = "foreach" /\ d.together THEN "queued" ELSE "head"
    /\ ids = IF Sequential(p) /\ Parts(w.at) # {} THEN {1} ELSE Parts(w.at)
    /\ run' = IF Sequential(p) /\ ids # {} THEN [run EXCEPT !.item = 1] ELSE run

(* A walker that forks waits for its children, unless these are detached.     *)
LEMMA ForkShape ==
    ASSUME IInv, NEW p \in DOMAIN walkers, Fork(p)
    PROVE  LET w == walkers[p]
               d == Step(w.at)
           IN
           /\ w.pc = "dispatch" /\ w.at \in Steps /\ d \in StepDef /\ d.kind \in {"parallel", "foreach"}
           /\ wf' = wf /\ run'.status = run.status /\ UNCHANGED <<saved, failures, resumed, stops>>
           /\ w.at \notin resumed /\ entered' = entered \cup {w.at}
           /\ \E ids \in SUBSET Parts(w.at), pc \in {"head", "queued"}, bg \in BOOLEAN : \E v :
                 ForkTo(p, v, ids, pc, bg)
<1> DEFINE w == walkers[p]
           d == Step(w.at)
           first == IF Parts(w.at) = {} THEN {} ELSE {1}
           joined == [w EXCEPT !.pc = "join"]
           gone == [w EXCEPT !.pc = "head", !.at = d.next]
<1>1. /\ w \in Walker /\ run \in Run /\ w.pc = "dispatch" /\ w.at \in Steps /\ d \in StepDef
      /\ d.kind \in {"parallel", "foreach"} /\ w.bg \in BOOLEAN
  <2>1. w.pc = "dispatch" /\ d.kind \in {"parallel", "foreach"}
    BY DEF Fork, Dispatching
  <2>2. w \in Walker /\ run \in Run /\ w.at \in Steps
    BY <2>1 DEF IInv, SharedType, AllSound, Sound, AtStep
  <2> QED BY <2>1, <2>2, StepType DEF IInv, SharedType, Walker
<1>2. d.kind = "foreach" => first \subseteq Parts(w.at)
  BY <1>1 DEF Parts, StepDef
<1>3. joined.pc = "join" /\ joined.at = w.at /\ joined.seen = w.seen /\ joined.bg = w.bg
  BY <1>1 DEF Walker
<1>4. gone.pc = "head" /\ gone.seen = w.seen /\ gone.bg = w.bg
  BY <1>1 DEF Walker
<1>5. /\ wf' = wf /\ UNCHANGED <<saved, failures, resumed, stops>>
      /\ w.at \notin resumed /\ entered' = entered \cup {w.at}
  BY DEF Fork, Dispatching, stepFrame
<1>6. run'.status = run.status
  BY <1>1 DEF Fork, Run
<1>7. \E ids \in SUBSET Parts(w.at), pc \in {"head", "queued"}, bg \in BOOLEAN : \E v : ForkTo(p, v, ids, pc, bg)
  <2>1. CASE d.kind = "parallel" /\ d.together
    <3>1. Forked(p, joined, NewChildren(p, Parts(w.at), "head", w.bg), {}) /\ UNCHANGED run
      BY <2>1 DEF Fork
    <3> HIDE DEF joined
    <3>2. ForkTo(p, joined, Parts(w.at), "head", w.bg)
      BY <1>3, <2>1, <3>1 DEF ForkTo, Detaches, Sequential
    <3> QED BY <1>1, <3>2
  <2>2. CASE d.kind = "parallel" /\ ~d.together
    <3>1. Forked(p, gone, NewChildren(p, Parts(w.at), "head", TRUE), {}) /\ UNCHANGED run
      BY <2>2 DEF Fork
    <3> HIDE DEF gone
    <3>2. ForkTo(p, gone, Parts(w.at), "head", TRUE)
      BY <1>4, <2>2, <3>1 DEF ForkTo, Detaches, Sequential
    <3> QED BY <1>1, <3>2
  <2>3. CASE d.kind = "foreach" /\ d.together
    <3>1. Forked(p, joined, NewChildren(p, Parts(w.at), "queued", w.bg), {}) /\ UNCHANGED run
      BY <2>3 DEF Fork
    <3> HIDE DEF joined
    <3>2. ForkTo(p, joined, Parts(w.at), "queued", w.bg)
      BY <1>3, <2>3, <3>1 DEF ForkTo, Detaches, Sequential
    <3> QED BY <1>1, <3>2
  <2>4. CASE d.kind = "foreach" /\ ~d.together
    <3>1. /\ Forked(p, joined, NewChildren(p, first, "head", w.bg), {})
          /\ run' = IF first = {} THEN run ELSE [run EXCEPT !.item = 1]
      BY <2>4 DEF Fork, LoopItem
    <3> HIDE DEF joined
    <3>2. ForkTo(p, joined, first, "head", w.bg)
      BY <1>3, <2>4, <3>1 DEF ForkTo, Detaches, Sequential
    <3> HIDE DEF first
    <3> QED BY <1>1, <1>2, <2>4, <3>2
  <2> QED BY <1>1, <2>1, <2>2, <2>3, <2>4
<1> QED BY <1>1, <1>5, <1>6, <1>7

(* The next item of a sequential loop takes the place of the last one.        *)
LEMMA NextShape ==
    ASSUME IInv, NEW p \in DOMAIN walkers, NextItem(p)
    PROVE  LET w == walkers[p] IN
           /\ w.pc = "join" /\ w.at \in Steps /\ Sequential(p)
           /\ wf' = wf /\ run'.status = run.status /\ UNCHANGED <<saved, failures, entered, tried, resumed, stops>>
           /\ \E c \in Children(p), i \in Parts(w.at) :
                 /\ i = Leaf(c)[2] + 1 /\ walkers[c].pc = "over" /\ run' = [run EXCEPT !.item = i]
                 /\ Forked(p, w, NewChildren(p, {i}, "head", w.bg), {c})
<1>1. run \in Run /\ walkers[p].pc = "join"
  BY DEF IInv, SharedType, NextItem
<1>2. walkers[p].at \in Steps
  BY <1>1 DEF IInv, AllSound, Sound, AtStep
<1>3. \E c \in Children(p), i \in Parts(walkers[p].at) :
         /\ i = Leaf(c)[2] + 1 /\ walkers[c].pc = "over" /\ run' = [run EXCEPT !.item = i]
         /\ Forked(p, walkers[p], NewChildren(p, {i}, "head", walkers[p].bg), {c})
  BY DEF NextItem, LoopItem
<1>4. run'.status = run.status
  BY <1>1, <1>3 DEF Run
<1> QED BY <1>1, <1>2, <1>3, <1>4 DEF NextItem, stepFrame

(* A walker comes back from a fork when all its children have ended.          *)
LEMMA JoinShape ==
    ASSUME IInv, NEW p \in DOMAIN walkers, Join(p)
    PROVE  LET w == walkers[p]
               d == Step(w.at)
           IN
           /\ w.pc = "join" /\ w.at \in Steps /\ Gathered(p)
           /\ wf' = wf /\ run'.status = run.status /\ UNCHANGED <<saved, failures, entered, tried, resumed, stops>>
           /\ \E v : /\ Forked(p, v, NoWalkers, Children(p))
                     /\ v.seen = w.seen /\ v.bg = w.bg
                     /\ \/ v.pc = "raised" /\ Errors(p) # {}
                        \/ v.pc = "head" /\ Errors(p) = {}
                        \/ v.pc = "head" /\ d.kind # "foreach" /\ d.fail # None
           /\ d.kind # "foreach" => run' = run
<1> DEFINE w == walkers[p]
           d == Step(w.at)
<1>1. w \in Walker /\ run \in Run /\ w.pc = "join"
  BY DEF IInv, SharedType, AllSound, Sound, Join
<1>2. w.at \in Steps
  BY <1>1 DEF IInv, AllSound, Sound, AtStep
<1>3. run'.status = run.status
  BY <1>1 DEF Join, Run
<1>4. \A s, pc : LET v == [w EXCEPT !.pc = pc, !.at = s] IN v.seen = w.seen /\ v.bg = w.bg /\ v.pc = pc
  BY <1>1 DEF Walker
<1>5. [w EXCEPT !.pc = "raised"].seen = w.seen /\ [w EXCEPT !.pc = "raised"].bg = w.bg
      /\ [w EXCEPT !.pc = "raised"].pc = "raised"
  BY <1>1 DEF Walker
<1> DEFINE Goal(v) ==
       /\ Forked(p, v, NoWalkers, Children(p))
       /\ v.seen = w.seen /\ v.bg = w.bg
       /\ \/ v.pc = "raised" /\ Errors(p) # {}
          \/ v.pc = "head" /\ Errors(p) = {}
          \/ v.pc = "head" /\ d.kind # "foreach" /\ d.fail # None
<1>6. \E v : Goal(v)
  <2>1. CASE Errors(p) = {} /\ Forked(p, [w EXCEPT !.pc = "head", !.at = d.next], NoWalkers, Children(p))
    <3>1. Goal([w EXCEPT !.pc = "head", !.at = d.next])
      BY <1>4, <2>1
    <3> HIDE DEF Goal
    <3> QED BY <3>1
  <2>2. CASE d.kind # "foreach" /\ d.fail # None
             /\ Forked(p, [w EXCEPT !.pc = "head", !.at = d.fail], NoWalkers, Children(p))
    <3>1. Goal([w EXCEPT !.pc = "head", !.at = d.fail])
      BY <1>4, <2>2
    <3> HIDE DEF Goal
    <3> QED BY <3>1
  <2>3. CASE Errors(p) # {} /\ Forked(p, [w EXCEPT !.pc = "raised"], NoWalkers, Children(p))
    <3>1. Goal([w EXCEPT !.pc = "raised"])
      BY <1>5, <2>3
    <3> HIDE DEF Goal
    <3> QED BY <3>1
  <2> HIDE DEF Goal
  <2> QED BY <2>1, <2>2, <2>3 DEF Join
<1> QED BY <1>1, <1>2, <1>3, <1>6 DEF Join, stepFrame

(* A fork has finitely many children. *)
LEMMA FewChildren ==
    ASSUME wf \in Workflows, NEW p, walkers[p].at \in Steps,
           NEW ids \in SUBSET Parts(walkers[p].at), NEW pc, NEW bg
    PROVE  IsFiniteSet(DOMAIN NewChildren(p, ids, pc, bg))
<1> DEFINE f == walkers[p].at
           paths == DOMAIN NewChildren(p, ids, pc, bg)
           born == [i \in ids |-> Child(p, f, i)]
<1>1. Step(f).lists \in Seq(Seq(Target)) /\ Step(f).items \in 0..MaxItems
  BY StepType DEF StepDef
<1>2. PICK n \in Nat : Parts(f) \subseteq 1..n
  <2>1. CASE Step(f).kind = "parallel"
    BY <1>1, <2>1 DEF Parts
  <2>2. CASE Step(f).kind # "parallel"
    BY <1>1, <2>2, BoundsAssumption DEF Parts
  <2> QED BY <2>1, <2>2
<1>3. IsFiniteSet(ids)
  <2>1. IsFiniteSet(1..n) /\ ids \in SUBSET (1..n)
    BY <1>2, FS_Interval
  <2> QED BY <2>1, FS_Subset
<1>4. paths = {Child(p, f, i) : i \in ids}
  BY DEF NewChildren
<1>5. born \in Surjection(ids, paths)
  BY <1>4 DEF Surjection
<1> HIDE DEF born
<1> QED BY <1>3, <1>5, FS_Surjection

(* Nobody is below a fork that is only dispatched. *)
LEMMA NoneBelow ==
    ASSUME IInv, Lineage, NEW p \in DOMAIN walkers, walkers[p].pc = "dispatch"
    PROVE  /\ \A b \in DOMAIN walkers : Under(p, b) => Via(p, b)[1] # walkers[p].at
           /\ Children(p) = {}
<1>1. \A b \in DOMAIN walkers : Under(p, b) => Via(p, b)[1] # walkers[p].at
  BY DEF Lineage, Descends
<1>2. \A b \in DOMAIN walkers : b \in Path
  BY DEF IInv, AllSound, Sound
<1> QED BY <1>1, <1>2, ChildIs DEF Children

(* A sequential loop has one child at most, and it is the last one started.   *)
LEMMA OneChild ==
    ASSUME IInv, Lineage, NEW p \in DOMAIN walkers, walkers[p].pc = "join", Sequential(p)
    PROVE  /\ \A c, d \in Children(p) : c = d
           /\ \A c \in Children(p), b \in DOMAIN walkers :
                 Under(p, b) /\ Via(p, b)[1] = walkers[p].at => Via(p, b)[2] <= Leaf(c)[2]
<1>1. \A b \in DOMAIN walkers : b \in Path /\ Len(b) \in Nat
  BY DEF IInv, AllSound, Sound, Path
<1>2. \A c \in Children(p) : /\ c \in DOMAIN walkers /\ Under(p, c) /\ Len(c) = Len(p) + 1
                             /\ Leaf(c) = Via(p, c) /\ Via(p, c)[1] = walkers[p].at
  BY <1>1, ChildIs DEF Children
<1>3. \A c \in Children(p), b \in DOMAIN walkers :
         Under(p, b) /\ Via(p, b)[1] = walkers[p].at => Via(p, b)[2] <= Leaf(c)[2]
  BY DEF Lineage, Descends
<1>4. ASSUME NEW c \in Children(p), NEW d \in Children(p) PROVE c = d
  <2>1. Leaf(c)[2] <= Leaf(d)[2] /\ Leaf(d)[2] <= Leaf(c)[2]
    BY <1>2, <1>3
  <2>2. Via(p, c) \in Steps \X (Nat \ {0}) /\ Via(p, d) \in Steps \X (Nat \ {0})
    BY <1>1, <1>2 DEF Via, Path
  <2>3. Via(p, c) = Via(p, d)
    BY <1>2, <2>1, <2>2
  <2>4. \A k \in 1..Len(c) : c[k] = d[k]
    <3>1. CASE TRUE
      BY <1>1, <1>2, <2>3 DEF Under, Via
    <3> QED BY <3>1
  <2> QED BY <1>1, <1>2, <2>4, SamePath
<1> QED BY <1>3, <1>4

(* What the end of an execution leaves are walkers there were. *)
LEMMA FewerFamilies ==
    ASSUME IInv, Families, NEW rest \in SUBSET DOMAIN walkers, walkers' = [p \in rest |-> walkers[p]], wf' = wf
    PROVE  Families'
<1>1. DOMAIN walkers' = rest /\ \A p \in rest : walkers'[p] = walkers[p]
  OBVIOUS
<1>2. \A p \in rest : Children(p)' \subseteq Children(p)
  BY <1>1 DEF Children
<1>3. Lineage'
  <2> SUFFICES ASSUME NEW p \in rest, NEW q \in rest, Under(p, q) PROVE Descends(p, q)'
    BY <1>1 DEF Lineage, Under
  <2>1. Descends(p, q)
    BY DEF Families, Lineage
  <2> QED BY <1>1, <1>2, <2>1 DEF Descends, Via, Sequential, Step
<1>4. IsFiniteSet(DOMAIN walkers')
  BY <1>1, FS_Subset DEF Families
<1> QED BY <1>3, <1>4 DEF Families

(* Families keep their order in a step of a walker. *)
LEMMA WalkFamilies ==
    ASSUME IInv, Families, NEW p \in DOMAIN walkers, Walk(p)
    PROVE  Families'
<1> DEFINE w == walkers[p]
<1>0. /\ Lineage /\ IsFiniteSet(DOMAIN walkers) /\ p \in Path /\ wf \in Workflows
      /\ \A b \in DOMAIN walkers : b \in Path
  BY DEF Families, IInv, SharedType, AllSound, Sound
<1>1. CASE ~Fork(p) /\ ~NextItem(p) /\ ~Join(p)
  <2>1. Move(p, walkers'[p])
    BY <1>1, MoveShape
  <2>2. DOMAIN walkers' = DOMAIN walkers
    BY <2>1 DEF Move
  <2> QED BY <1>0, <1>1, <2>2, LineageMoved DEF Families
<1>2. CASE Fork(p)
  <2>1. w.pc = "dispatch" /\ w.at \in Steps /\ wf' = wf /\ w.pc \in AtStep
    BY <1>2, ForkShape DEF AtStep
  <2>2. PICK ids \in SUBSET Parts(w.at), pc \in {"head", "queued"}, bg \in BOOLEAN :
           \E v : ForkTo(p, v, ids, pc, bg)
    BY <1>2, ForkShape
  <2>3. PICK v : /\ Forked(p, v, NewChildren(p, ids, pc, bg), {})
                 /\ v.seen = w.seen
                 /\ \/ v.pc = "join" /\ v.at = w.at
                    \/ v.pc = "head"
                 /\ Step(w.at).kind = "foreach" /\ Step(w.at).together => pc = "queued"
                 /\ Sequential(p) => ids \subseteq {1}
    BY <2>2 DEF ForkTo
  <2> DEFINE ws == NewChildren(p, ids, pc, bg)
  <2>4. \A q \in DOMAIN ws : \E i \in ids : i \in Nat \ {0} /\ q = Child(p, w.at, i) /\ ws[q].pc = pc
    BY <2>1, Born
  <2>5. \A q \in DOMAIN ws : \E i \in ids :
           /\ i \in Nat \ {0} /\ q = Child(p, w.at, i) /\ ws[q].pc = pc
           /\ Under(p, q) /\ Via(p, q) = <<w.at, i>> /\ Leaf(q) = <<w.at, i>>
           /\ q # Main /\ Parent(q) = p /\ q # p
    BY <1>0, <2>1, <2>4, ChildUnder
  <2>6. Children(p) = {} /\ \A b \in DOMAIN walkers : Under(p, b) => Via(p, b)[1] # w.at
    BY <1>0, <2>1, NoneBelow
  <2>7. /\ DOMAIN walkers' = DOMAIN walkers \cup DOMAIN ws /\ walkers'[p] = v
        /\ \A q \in DOMAIN ws : walkers'[q] = ws[q]
    BY <2>3, <2>5 DEF Forked
  <2>8. IsFiniteSet(DOMAIN walkers')
    <3>1. IsFiniteSet(DOMAIN ws)
      BY <1>0, <2>1, FewChildren
    <3> QED BY <1>0, <2>7, <3>1, FS_Union
  <2> HIDE DEF ws
  <2>9. Lineage'
    <3>1. \A i \in ids, b \in DOMAIN walkers : Under(p, b) => Via(p, b) # <<w.at, i>>
      BY <2>6
    <3>2. ASSUME Sequential(p), NEW b \in DOMAIN walkers \cup DOMAIN ws, NEW c \in (Children(p) \ {}) \cup DOMAIN ws,
                 Under(p, b), Via(p, b)[1] = w.at
          PROVE  Via(p, b)[2] <= Leaf(c)[2]
      <4>1. b \in DOMAIN ws /\ c \in DOMAIN ws
        BY <2>6, <3>2
      <4>2. Via(p, b) = <<w.at, 1>> /\ Leaf(c) = <<w.at, 1>>
        BY <2>3, <2>5, <3>2, <4>1
      <4> QED BY <4>2
    <3>3. {} \in SUBSET Children(p) /\ Forked(p, v, ws, {})
      BY <2>3 DEF ws
    <3>4. v.pc \in {"head", "join", "raised"} /\ (v.pc = "join" => v.at = w.at) /\ v.seen = w.seen
      BY <2>3
    <3>5. \A q \in DOMAIN ws : \E i \in ids : q = Child(p, w.at, i)
      BY <2>5
    <3> QED BY <1>0, <2>1, <3>1, <3>2, <3>3, <3>4, <3>5, LineageForked
  <2> QED BY <2>8, <2>9 DEF Families
<1>3. CASE NextItem(p)
  <2>1. w.pc = "join" /\ w.at \in Steps /\ wf' = wf /\ w.pc \in AtStep /\ Sequential(p)
    BY <1>3, NextShape DEF AtStep
  <2>2. PICK c \in Children(p), i \in Parts(w.at) :
           i = Leaf(c)[2] + 1 /\ Forked(p, w, NewChildren(p, {i}, "head", w.bg), {c})
    BY <1>3, NextShape
  <2> DEFINE ids == {i}
             ws == NewChildren(p, ids, "head", w.bg)
  <2>3. ids \in SUBSET Parts(w.at)
    OBVIOUS
  <2>4. \A q \in DOMAIN ws : q = Child(p, w.at, i) /\ i \in Nat \ {0} /\ ws[q].pc = "head"
    BY <2>1, <2>3, Born
  <2>5. \A q \in DOMAIN ws :
           /\ Under(p, q) /\ Via(p, q) = <<w.at, i>> /\ Leaf(q) = <<w.at, i>>
           /\ q # Main /\ Parent(q) = p /\ q # p
    BY <1>0, <2>1, <2>4, ChildUnder
  <2>6. /\ \A d \in Children(p) : c = d
        /\ \A b \in DOMAIN walkers : Under(p, b) /\ Via(p, b)[1] = w.at => Via(p, b)[2] <= Leaf(c)[2]
    BY <1>0, <2>1, OneChild
  <2>7. Leaf(c)[2] \in Nat /\ i \in Nat
    <3>1. c \in Path /\ c # Main
      BY <1>0 DEF Children
    <3>2. Leaf(c) \in Steps \X (Nat \ {0})
      BY <3>1 DEF Leaf, Path, Main
    <3> QED BY <2>2, <3>2
  <2>8. IsFiniteSet(DOMAIN walkers')
    <3>1. DOMAIN walkers' \subseteq DOMAIN walkers \cup DOMAIN ws
      BY <2>2 DEF Forked
    <3>2. IsFiniteSet(DOMAIN walkers \cup DOMAIN ws)
      BY <1>0, <2>1, <2>3, FewChildren, FS_Union
    <3> QED BY <3>1, <3>2, FS_Subset
  <2>9. Forked(p, w, ws, {c})
    BY <2>2
  <2> HIDE DEF ws
  <2>10. Lineage'
    <3>1. \A j \in ids, b \in DOMAIN walkers : Under(p, b) => Via(p, b) # <<w.at, j>>
      BY <2>2, <2>6, <2>7
    <3>2. ASSUME NEW b \in DOMAIN walkers \cup DOMAIN ws, NEW d \in (Children(p) \ {c}) \cup DOMAIN ws,
                 Under(p, b), Via(p, b)[1] = w.at
          PROVE  Via(p, b)[2] <= Leaf(d)[2]
      <4>1. d \in DOMAIN ws /\ Leaf(d) = <<w.at, i>>
        BY <2>5, <2>6
      <4>2. CASE b \in DOMAIN ws
        BY <2>5, <2>7, <4>1, <4>2
      <4>3. CASE b \in DOMAIN walkers
        <5>1. Via(p, b)[2] <= Leaf(c)[2]
          BY <2>6, <3>2, <4>3
        <5>2. Via(p, b)[2] \in Nat
          <6>1. b \in Path /\ Len(p) + 1 \in 1..Len(b)
            BY <1>0, <3>2, <4>3 DEF Under, Path
          <6>2. Via(p, b) \in Steps \X (Nat \ {0})
            BY <6>1 DEF Via, Path
          <6> QED BY <6>2
        <5> QED BY <2>2, <2>7, <4>1, <5>1, <5>2
      <4> QED BY <4>2, <4>3
    <3>3. {c} \in SUBSET Children(p)
      OBVIOUS
    <3>4. \A q \in DOMAIN ws : \E j \in ids : q = Child(p, w.at, j)
      BY <2>4
    <3> QED BY <1>0, <2>1, <2>3, <2>9, <3>1, <3>2, <3>3, <3>4, LineageForked
  <2> QED BY <2>8, <2>10 DEF Families
<1>4. CASE Join(p)
  <2>1. w.pc = "join" /\ w.at \in Steps /\ wf' = wf /\ w.pc \in AtStep
    BY <1>4, JoinShape DEF AtStep
  <2>2. PICK v : Forked(p, v, NoWalkers, Children(p)) /\ v.seen = w.seen /\ v.pc \in {"raised", "head"}
    BY <1>4, JoinShape
  <2>3. IsFiniteSet(DOMAIN walkers')
    <3>1. DOMAIN walkers' \subseteq DOMAIN walkers
      BY <2>2 DEF Forked, NoWalkers
    <3> QED BY <1>0, <3>1, FS_Subset
  <2>4. DOMAIN NoWalkers = {} /\ {} \in SUBSET Parts(w.at) /\ Children(p) \in SUBSET Children(p)
    BY DEF NoWalkers
  <2>5. Lineage'
    BY <1>0, <2>1, <2>2, <2>4, LineageForked
  <2> QED BY <2>3, <2>5 DEF Families
<1> QED BY <1>1, <1>2, <1>3, <1>4

(* Every step keeps the families in order. *)
LEMMA FamiliesStep == IInv /\ Families /\ [Next]_vars => Families'
<1> SUFFICES ASSUME IInv, Families, [Next]_vars PROVE Families'
  OBVIOUS
<1>1. CASE Begin
  <2>1. DOMAIN walkers' = {Main} /\ walkers'[Main].pc = "head"
    BY <1>1 DEF Begin
  <2>2. IsFiniteSet(DOMAIN walkers')
    BY <2>1, FS_Singleton
  <2>3. ~Under(Main, Main)
    BY DEF Under, Main
  <2> QED BY <2>1, <2>2, <2>3 DEF Families, Lineage, Under
<1>2. ASSUME NEW p \in DOMAIN walkers, Walk(p) PROVE Families'
  BY <1>2, WalkFamilies
<1>3. CASE Finish \/ Timeout \/ Unload
  <2>1. wf' = wf /\ walkers' = [p \in Survivors |-> walkers[p]] /\ Survivors \in SUBSET DOMAIN walkers
    BY <1>3 DEF Finish, Timeout, Unload, EndAs, Survivors
  <2> QED BY <2>1, FewerFamilies
<1>4. CASE Crash
  <2>1. DOMAIN walkers' = {}
    BY <1>4 DEF Crash, NoWalkers
  <2> QED BY <2>1, FS_EmptySet DEF Families, Lineage
<1>5. CASE Quiet \/ UNCHANGED vars
  <2>1. wf' = wf /\ walkers' = walkers
    BY <1>5 DEF Quiet, vars
  <2> QED BY <2>1 DEF Families, Lineage, Descends, Children, Sequential, Step, Under, Via
<1> QED BY <1>1, <1>2, <1>3, <1>4, <1>5 DEF Next, Progress

(* Families are in order in every behaviour. *)
LEMMA FamiliesAlways == Spec => [](IInv /\ Families)
<1>1. Init => Families
  BY FS_EmptySet DEF Init, NoWalkers, Families, Lineage
<1> QED BY <1>1, InitSound, NextStep, FamiliesStep, PTL DEF Spec

-----------------------------------------------------------------------------
(* Failures: who waits for whom, and how an exception reaches the run.       *)

(* The first k forks of a path, and whether it goes through a branch nobody   *)
(* waits for.                                                                 *)
Up(q, k) == SubSeq(q, 1, k)
Loose(q) == \E k \in 1..Len(q) : Detaches(q[k][1])

(* All that is above a walker somebody waits for is there and waits, for the  *)
(* fork the path of the walker goes through.                                  *)
Awaits(p, f) == p \in DOMAIN walkers /\ walkers[p].pc = "join" /\ walkers[p].at = f
Chain(q) ==
    /\ walkers[q].bg <=> Loose(q)
    /\ walkers[q].pc = "join" =>
          Step(walkers[q].at).kind \in {"parallel", "foreach"} /\ ~Detaches(walkers[q].at)
    /\ ~Loose(q) => \A k \in 0..Len(q) - 1 : Awaits(Up(q, k), q[k + 1][1])

Chained == \A q \in DOMAIN walkers : Chain(q)

(* What a path begins with. *)
LEMMA UpIs ==
    ASSUME NEW q \in Path, NEW k \in 0..Len(q)
    PROVE  /\ Up(q, k) \in Path /\ Len(Up(q, k)) = k /\ \A j \in 1..k : Up(q, k)[j] = q[j]
           /\ k = Len(q) => Up(q, k) = q
           /\ k = 0 => Up(q, k) = Main
           /\ k < Len(q) => Under(Up(q, k), q) /\ Via(Up(q, k), q) = q[k + 1]
<1>1. Len(q) \in Nat
  BY DEF Path
<1>2. Up(q, k) \in Path /\ Len(Up(q, k)) = k /\ \A j \in 1..k : Up(q, k)[j] = q[j]
  BY <1>1 DEF Up, Path
<1>3. k = Len(q) => Up(q, k) = q
  BY <1>1, <1>2, SamePath
<1>4. k = 0 => Up(q, k) = Main
  BY <1>2 DEF Main, Path
<1>5. k < Len(q) => Under(Up(q, k), q) /\ Via(Up(q, k), q) = q[k + 1]
  BY <1>1, <1>2 DEF Under, Via
<1> QED BY <1>2, <1>3, <1>4, <1>5

(* Nothing but the beginning of a path has its length and is above it. *)
LEMMA UpOnly ==
    ASSUME NEW q \in Path, NEW p \in Path, Under(p, q)
    PROVE  Len(p) \in 0..Len(q) - 1 /\ Up(q, Len(p)) = p
<1>1. Len(p) \in 0..Len(q) - 1
  BY DEF Under, Path
<1>2. Len(p) \in 0..Len(q)
  BY <1>1
<1>3. Up(q, Len(p)) \in Path /\ Len(Up(q, Len(p))) = Len(p) /\ \A j \in 1..Len(p) : Up(q, Len(p))[j] = q[j]
  BY <1>2, UpIs
<1> QED BY <1>1, <1>3, SamePath DEF Under

(* A child's path begins as its parent's. *)
LEMMA UpChild ==
    ASSUME NEW p \in Path, NEW f \in Steps, NEW i \in Nat \ {0}, NEW k \in 0..Len(p)
    PROVE  LET q == Child(p, f, i) IN
           /\ Up(q, k) = Up(p, k) /\ (k = Len(p) => Up(q, k) = p)
           /\ k < Len(p) => q[k + 1] = p[k + 1]
           /\ k = Len(p) => q[k + 1] = <<f, i>>
<1> DEFINE q == Child(p, f, i)
<1>1. /\ q \in Path /\ Len(q) = Len(p) + 1 /\ Len(p) \in Nat
      /\ \A j \in 1..Len(p) : q[j] = p[j]
      /\ q[Len(p) + 1] = <<f, i>>
  BY DEF Child, Path
<1> HIDE DEF q
<1>2. k \in 0..Len(q)
  BY <1>1
<1>3. /\ Up(q, k) \in Path /\ Len(Up(q, k)) = k /\ \A j \in 1..k : Up(q, k)[j] = q[j]
      /\ Up(p, k) \in Path /\ Len(Up(p, k)) = k /\ \A j \in 1..k : Up(p, k)[j] = p[j]
      /\ (k = Len(p) => Up(p, k) = p)
  BY <1>1, <1>2, UpIs
<1>4. Up(q, k) = Up(p, k)
  BY <1>1, <1>3, SamePath
<1>5. k < Len(p) => q[k + 1] = p[k + 1]
  BY <1>1
<1> QED BY <1>1, <1>3, <1>4, <1>5 DEF q

(* A child is loose when its parent is, or when its fork is detached.         *)
LEMMA LooseChild ==
    ASSUME NEW p \in Path, NEW f \in Steps, NEW i \in Nat \ {0}
    PROVE  Loose(Child(p, f, i)) <=> Loose(p) \/ Detaches(f)
<1> DEFINE q == Child(p, f, i)
<1>1. /\ Len(q) = Len(p) + 1 /\ Len(p) \in Nat
      /\ \A j \in 1..Len(p) : q[j] = p[j]
      /\ q[Len(p) + 1] = <<f, i>>
  BY DEF Child, Path
<1> HIDE DEF q
<1>2. Loose(q) <=> Loose(p) \/ Detaches(f)
  BY <1>1 DEF Loose
<1> QED BY <1>2 DEF q

(* A step of one walker keeps what is above the others.                       *)
LEMMA ChainMoved ==
    ASSUME IInv, Chained, NEW p \in DOMAIN walkers, Walk(p), ~Fork(p), ~NextItem(p), ~Join(p)
    PROVE  Chained'
<1> DEFINE w == walkers[p]
           v == walkers'[p]
<1>1. Move(p, v) /\ wf' = wf /\ v.bg = w.bg /\ w.pc # "join" /\ v.pc # "join"
  BY MoveShape
<1>2. /\ DOMAIN walkers' = DOMAIN walkers
      /\ \A a \in DOMAIN walkers : a # p => walkers'[a] = walkers[a]
  BY <1>1 DEF Move
<1> SUFFICES ASSUME NEW q \in DOMAIN walkers PROVE Chain(q)'
  BY <1>2 DEF Chained
<1>3. Chain(q)
  BY DEF Chained
<1>4. Loose(q)' = Loose(q) /\ walkers'[q].bg = walkers[q].bg
  BY <1>1, <1>2 DEF Loose, Detaches, Step
<1>5. walkers'[q].pc = "join" => walkers'[q] = walkers[q]
  BY <1>1, <1>2
<1>6. \A a, f : Awaits(a, f) => Awaits(a, f)'
  BY <1>1, <1>2 DEF Awaits
<1> QED BY <1>1, <1>3, <1>4, <1>5, <1>6 DEF Chain, Detaches, Step

(* So does a fork, or the end of one. *)
LEMMA ChainForked ==
    ASSUME IInv, Chained, NEW p \in DOMAIN walkers, walkers[p].pc \in AtStep,
           NEW v, NEW ws, NEW gone \in SUBSET (DOMAIN walkers \ {p}), Forked(p, v, ws, gone), wf' = wf,
           v.bg = walkers[p].bg,
           v.pc = "join" => /\ v.at = walkers[p].at /\ ~Detaches(v.at)
                            /\ Step(v.at).kind \in {"parallel", "foreach"},
           \A q \in DOMAIN ws : \E i \in Nat \ {0} :
              /\ q = Child(p, walkers[p].at, i) /\ ws[q].pc # "join"
              /\ \/ v.pc = "join" /\ ws[q].bg = v.bg
                 \/ Detaches(walkers[p].at) /\ ws[q].bg = TRUE,
           \A q \in DOMAIN walkers : q \notin DOMAIN ws,
           \A q \in gone : walkers[q].pc # "join",
           \A q \in DOMAIN walkers \ gone : Under(p, q) /\ ~Loose(q) /\ Awaits(p, Via(p, q)[1]) => v.pc = "join"
    PROVE  Chained'
<1> DEFINE w == walkers[p]
<1>0. /\ p \in Path /\ w.at \in Steps
      /\ \A q \in DOMAIN walkers : q \in Path
  BY DEF IInv, AllSound, Sound
<1>1. p \notin DOMAIN ws
  OBVIOUS
<1> SUFFICES ASSUME NEW q \in DOMAIN walkers' PROVE Chain(q)'
  BY DEF Chained
<1>2. Loose(q)' = Loose(q) /\ \A f : Detaches(f)' = Detaches(f) /\ Step(f)' = Step(f)
  BY DEF Loose, Detaches, Step
<1>3. \A a, f : Awaits(a, f) /\ a # p => Awaits(a, f)'
  BY DEF Awaits, Forked
<1>4. \A f : Awaits(p, f) /\ v.pc = "join" => Awaits(p, f)'
  <2>1. v.pc = "join" /\ Awaits(p, v.at) => walkers'[p] = v /\ p \in DOMAIN walkers'
    BY DEF Forked, Awaits
  <2> QED BY <2>1 DEF Awaits
<1>5. CASE q \in DOMAIN ws
  <2>1. PICK i \in Nat \ {0} : q = Child(p, w.at, i) /\ ws[q].pc # "join"
           /\ ((v.pc = "join" /\ ws[q].bg = v.bg) \/ (Detaches(w.at) /\ ws[q].bg = TRUE))
    BY <1>5
  <2>2. Loose(q) <=> Loose(p) \/ Detaches(w.at)
    BY <1>0, <2>1, LooseChild
  <2>3. walkers'[q] = ws[q]
    BY <1>1, <1>5 DEF Forked
  <2>4. Chain(p)
    BY DEF Chained
  <2>5. walkers'[q].bg <=> Loose(q)
    BY <2>1, <2>2, <2>3, <2>4 DEF Chain
  <2>6. ASSUME ~Loose(q), NEW k \in 0..Len(q) - 1 PROVE Awaits(Up(q, k), q[k + 1][1])'
    <3>1. v.pc = "join" /\ ~Loose(p)
      BY <2>1, <2>2, <2>6
    <3>2. k \in 0..Len(p) /\ Len(p) \in Nat
      BY <1>0, <2>1 DEF Child, Path
    <3>3. CASE k = Len(p)
      <4>1. Up(q, k) = p /\ q[k + 1][1] = w.at
        BY <1>0, <2>1, <3>2, <3>3, UpChild
      <4>2. walkers'[p] = v /\ p \in DOMAIN walkers'
        BY DEF Forked
      <4> QED BY <3>1, <4>1, <4>2 DEF Awaits
    <3>4. CASE k # Len(p)
      <4>1. k \in 0..Len(p) - 1 /\ Up(q, k) = Up(p, k) /\ q[k + 1] = p[k + 1]
        BY <1>0, <2>1, <3>2, <3>4, UpChild
      <4>2. Awaits(Up(p, k), p[k + 1][1])
        BY <2>4, <3>1, <4>1 DEF Chain
      <4>3. Up(p, k) # p
        BY <1>0, <3>2, <4>1, UpIs
      <4> QED BY <1>3, <4>1, <4>2, <4>3
    <3> QED BY <3>3, <3>4
  <2> QED BY <1>2, <2>1, <2>3, <2>5, <2>6 DEF Chain
<1>6. CASE q \notin DOMAIN ws
  <2>1. q \in DOMAIN walkers \ gone /\ (q # p => walkers'[q] = walkers[q]) /\ (q = p => walkers'[q] = v)
    BY <1>6 DEF Forked
  <2>2. Chain(q)
    BY <2>1 DEF Chained
  <2>3. walkers'[q].bg <=> Loose(q)
    BY <2>1, <2>2 DEF Chain
  <2>4. ASSUME ~Loose(q), NEW k \in 0..Len(q) - 1 PROVE Awaits(Up(q, k), q[k + 1][1])'
    <3>1. Awaits(Up(q, k), q[k + 1][1])
      BY <2>2, <2>4 DEF Chain
    <3>2. CASE Up(q, k) = p
      <4>1. Under(p, q) /\ Via(p, q) = q[k + 1]
        <5>1. q \in Path /\ k \in 0..Len(q) /\ k < Len(q)
          BY <1>0, <2>1 DEF Path
        <5> QED BY <3>2, <5>1, UpIs
      <4>2. v.pc = "join"
        BY <2>1, <2>4, <3>1, <3>2, <4>1
      <4> QED BY <1>4, <3>1, <3>2, <4>2
    <3> QED BY <1>3, <3>1, <3>2
  <2> QED BY <1>2, <2>1, <2>2, <2>3, <2>4 DEF Chain
<1> QED BY <1>5, <1>6

(* The paths of new children are new. *)
LEMMA FreshPaths ==
    ASSUME IInv, Families, NEW p \in DOMAIN walkers, walkers[p].pc \in AtStep,
           NEW ids \in SUBSET Parts(walkers[p].at), NEW pc, NEW bg,
           \/ walkers[p].pc = "dispatch"
           \/ /\ walkers[p].pc = "join" /\ Sequential(p)
              /\ \E c \in Children(p) : ids = {Leaf(c)[2] + 1}
    PROVE  \A q \in DOMAIN walkers : q \notin DOMAIN NewChildren(p, ids, pc, bg)
<1> DEFINE w == walkers[p]
           ws == NewChildren(p, ids, pc, bg)
<1> SUFFICES ASSUME NEW q \in DOMAIN walkers, q \in DOMAIN ws PROVE FALSE
  OBVIOUS
<1>1. /\ p \in Path /\ w.at \in Steps /\ Lineage
      /\ \A b \in DOMAIN walkers : b \in Path
  BY DEF IInv, AllSound, Sound, Families
<1>2. PICK i \in ids : i \in Nat \ {0} /\ q = Child(p, w.at, i)
  <2>1. \A b \in DOMAIN ws : \E i \in ids :
           /\ i \in Nat \ {0} /\ b = Child(p, w.at, i)
           /\ ws[b].pc = pc /\ ws[b].bg = bg /\ ws[b].at = List(w.at, i)[1]
    BY Born
  <2> QED BY <2>1
<1>3. Under(p, q) /\ Via(p, q) = <<w.at, i>>
  BY <1>1, <1>2, ChildUnder
<1>4. CASE w.pc = "dispatch"
  BY <1>1, <1>3, <1>4, NoneBelow
<1>5. CASE w.pc = "join"
  <2>1. PICK c \in Children(p) : i = Leaf(c)[2] + 1
    BY <1>2, <1>5
  <2>2. i <= Leaf(c)[2] /\ Sequential(p)
    BY <1>1, <1>3, <1>5, OneChild
  <2>3. Leaf(c)[2] \in Nat
    <3>1. c \in Path /\ c # Main
      BY <1>1 DEF Children
    <3>2. Leaf(c) \in Steps \X (Nat \ {0})
      BY <3>1 DEF Leaf, Path, Main
    <3> QED BY <3>2
  <2> QED BY <2>1, <2>2, <2>3
<1> QED BY <1>4, <1>5

(* No walker below p that somebody waits for is left when p comes back.       *)
LEMMA NoneLeft ==
    ASSUME IInv, Chained, NEW p \in DOMAIN walkers, walkers[p].pc = "join", Gathered(p),
           NEW q \in DOMAIN walkers, Under(p, q), ~Loose(q)
    PROVE  q \in Children(p)
<1>1. p \in Path /\ q \in Path /\ Len(p) \in Nat /\ Len(q) \in Nat /\ Len(p) < Len(q)
  BY DEF IInv, AllSound, Sound, Path, Under
<1> DEFINE k == Len(p)
           c == Up(q, k + 1)
<1>2. \A j \in 0..Len(q) - 1 : Awaits(Up(q, j), q[j + 1][1])
  BY DEF Chained, Chain
<1>3. k \in 0..Len(q) - 1 /\ Up(q, k) = p
  BY <1>1, UpOnly
<1>4. walkers[p].at = q[k + 1][1]
  BY <1>2, <1>3 DEF Awaits
<1>5. /\ c \in Path /\ Len(c) = k + 1 /\ (\A j \in 1..k + 1 : c[j] = q[j])
      /\ (k + 1 = Len(q) => c = q)
  <2>1. k + 1 \in 0..Len(q)
    BY <1>1
  <2> HIDE DEF k
  <2> QED BY <1>1, <2>1, UpIs
<1>6. Under(p, c) /\ Leaf(c)[1] = walkers[p].at
  <2> HIDE DEF c
  <2>1. Leaf(c) = q[k + 1]
    BY <1>1, <1>5 DEF Leaf
  <2> QED BY <1>1, <1>4, <1>5, <2>1 DEF Under
<1>7. c # Main /\ Parent(c) = p
  <2> HIDE DEF c
  <2> QED BY <1>1, <1>5, <1>6, ChildIs
<1>8. CASE k + 1 = Len(q)
  <2> HIDE DEF c
  <2> QED BY <1>5, <1>6, <1>7, <1>8 DEF Children
<1>9. CASE k + 1 # Len(q)
  <2>1. k + 1 \in 0..Len(q) - 1
    BY <1>1, <1>9
  <2>2. c \in DOMAIN walkers /\ walkers[c].pc = "join"
    BY <1>2, <2>1 DEF Awaits
  <2> HIDE DEF c, k
  <2>3. c \in Children(p)
    BY <1>6, <1>7, <2>2 DEF Children
  <2> QED BY <2>2, <2>3 DEF Gathered, Active
<1> QED BY <1>8, <1>9

(* What every step of a walker keeps above the others. *)
LEMMA WalkChained ==
    ASSUME IInv, Families, Chained, NEW p \in DOMAIN walkers, Walk(p)
    PROVE  Chained'
<1> DEFINE w == walkers[p]
<1>0. /\ Lineage /\ p \in Path /\ wf \in Workflows
      /\ \A b \in DOMAIN walkers : b \in Path
  BY DEF Families, IInv, SharedType, AllSound, Sound
<1>1. CASE ~Fork(p) /\ ~NextItem(p) /\ ~Join(p)
  BY <1>1, ChainMoved
<1>2. CASE Fork(p)
  <2>1. w.pc = "dispatch" /\ wf' = wf /\ w.pc \in AtStep /\ Step(w.at).kind \in {"parallel", "foreach"}
    BY <1>2, ForkShape DEF AtStep
  <2>2. PICK ids \in SUBSET Parts(w.at), pc \in {"head", "queued"}, bg \in BOOLEAN :
           \E v : ForkTo(p, v, ids, pc, bg)
    BY <1>2, ForkShape
  <2>3. PICK v : ForkTo(p, v, ids, pc, bg)
    BY <2>2
  <2> DEFINE ws == NewChildren(p, ids, pc, bg)
  <2>4. \A q \in DOMAIN ws : \E i \in ids :
           /\ i \in Nat \ {0} /\ q = Child(p, w.at, i)
           /\ ws[q].pc = pc /\ ws[q].bg = bg /\ ws[q].at = List(w.at, i)[1]
    BY <2>1, Born
  <2>5. \A q \in DOMAIN walkers : q \notin DOMAIN ws
    BY <2>1, FreshPaths
  <2>6. Forked(p, v, ws, {}) /\ v.bg = w.bg
    BY <2>3 DEF ForkTo
  <2>7. v.pc = "join" => v.at = w.at /\ ~Detaches(v.at) /\ Step(v.at).kind \in {"parallel", "foreach"}
    BY <2>1, <2>3 DEF ForkTo
  <2>8. \/ v.pc = "join" /\ bg = v.bg
        \/ Detaches(w.at) /\ bg = TRUE
    BY <2>3 DEF ForkTo
  <2> HIDE DEF ws
  <2>9. \A q \in DOMAIN ws : \E i \in Nat \ {0} :
           /\ q = Child(p, w.at, i) /\ ws[q].pc # "join"
           /\ \/ v.pc = "join" /\ ws[q].bg = v.bg
              \/ Detaches(w.at) /\ ws[q].bg = TRUE
    BY <2>4, <2>8
  <2> DEFINE gone == {}
  <2>10. /\ gone \in SUBSET (DOMAIN walkers \ {p}) /\ \A q \in gone : walkers[q].pc # "join"
         /\ Forked(p, v, ws, gone)
    BY <2>6
  <2>11. \A q \in DOMAIN walkers \ gone : Under(p, q) /\ ~Loose(q) /\ Awaits(p, Via(p, q)[1]) => v.pc = "join"
    BY <2>1 DEF Awaits
  <2> HIDE DEF gone
  <2> QED BY <2>1, <2>5, <2>6, <2>7, <2>9, <2>10, <2>11, ChainForked
<1>3. CASE NextItem(p)
  <2>1. w.pc = "join" /\ wf' = wf /\ w.pc \in AtStep /\ Sequential(p)
    BY <1>3, NextShape DEF AtStep
  <2>2. PICK c \in Children(p), i \in Parts(w.at) :
           /\ i = Leaf(c)[2] + 1 /\ walkers[c].pc = "over"
           /\ Forked(p, w, NewChildren(p, {i}, "head", w.bg), {c})
    BY <1>3, NextShape
  <2> DEFINE ids == {i}
             ws == NewChildren(p, ids, "head", w.bg)
  <2>3. ids \in SUBSET Parts(w.at) /\ c \in DOMAIN walkers
    BY DEF Children
  <2>4. \A q \in DOMAIN ws : q = Child(p, w.at, i) /\ i \in Nat \ {0} /\ ws[q].pc = "head" /\ ws[q].bg = w.bg
    <3>1. \A q \in DOMAIN ws : \E j \in ids :
             j \in Nat \ {0} /\ q = Child(p, w.at, j) /\ ws[q].pc = "head" /\ ws[q].bg = w.bg
      BY <2>1, <2>3, Born
    <3> QED BY <3>1
  <2>5. \A q \in DOMAIN walkers : q \notin DOMAIN ws
    BY <2>1, <2>2, <2>3, FreshPaths
  <2>6. Forked(p, w, ws, {c}) /\ c # p
    BY <2>1, <2>2
  <2>7. ~Detaches(w.at) /\ Step(w.at).kind \in {"parallel", "foreach"}
    BY <2>1 DEF Detaches, Sequential
  <2> HIDE DEF ws, ids
  <2>8. PICK v : v = w
    OBVIOUS
  <2>9. \A q \in DOMAIN ws : \E j \in Nat \ {0} :
           /\ q = Child(p, w.at, j) /\ ws[q].pc # "join"
           /\ \/ v.pc = "join" /\ ws[q].bg = v.bg
              \/ Detaches(w.at) /\ ws[q].bg = TRUE
    BY <2>1, <2>4, <2>8
  <2>10. /\ v.bg = w.bg
         /\ v.pc = "join" => v.at = w.at /\ ~Detaches(v.at) /\ Step(v.at).kind \in {"parallel", "foreach"}
    BY <2>7, <2>8
  <2> DEFINE gone == {c}
  <2>11. /\ gone \in SUBSET (DOMAIN walkers \ {p}) /\ Forked(p, v, ws, gone)
         /\ \A q \in gone : walkers[q].pc # "join"
         /\ \A q \in DOMAIN walkers \ gone : Under(p, q) /\ ~Loose(q) /\ Awaits(p, Via(p, q)[1]) => v.pc = "join"
    BY <2>1, <2>2, <2>3, <2>6, <2>8
  <2> HIDE DEF gone
  <2> QED BY <2>1, <2>5, <2>9, <2>10, <2>11, ChainForked
<1>4. CASE Join(p)
  <2>1. w.pc = "join" /\ wf' = wf /\ w.pc \in AtStep /\ Gathered(p)
    BY <1>4, JoinShape DEF AtStep
  <2>2. PICK v : Forked(p, v, NoWalkers, Children(p)) /\ v.bg = w.bg /\ v.pc \in {"raised", "head"}
    BY <1>4, JoinShape
  <2>3. \A q \in Children(p) : walkers[q].pc # "join"
    BY <2>1 DEF Gathered, Active
  <2>4. Children(p) \in SUBSET (DOMAIN walkers \ {p}) /\ DOMAIN NoWalkers = {}
    BY <2>1, <2>3 DEF Children, NoWalkers
  <2>5. \A q \in DOMAIN walkers \ Children(p) : ~(Under(p, q) /\ ~Loose(q))
    BY <2>1, NoneLeft
  <2> QED BY <2>1, <2>2, <2>3, <2>4, <2>5, ChainForked
<1> QED BY <1>1, <1>2, <1>3, <1>4

(* The main walker is no branch nobody waits for. *)
LEMMA MainIsAwaited == ~Loose(Main)
BY DEF Loose, Main

(* What survives the end of an execution is loose. *)
LEMMA ChainedStep == IInv /\ Families /\ Chained /\ [Next]_vars => Chained'
<1> SUFFICES ASSUME IInv, Families, Chained, [Next]_vars PROVE Chained'
  OBVIOUS
<1>1. CASE Begin
  <2>1. DOMAIN walkers' = {Main} /\ walkers'[Main].pc = "head" /\ ~walkers'[Main].bg
    BY <1>1 DEF Begin
  <2>2. Len(Main) = 0 /\ 0..Len(Main) - 1 = {}
    BY DEF Main
  <2>3. ~Loose(Main)'
    BY <2>2 DEF Loose
  <2> QED BY <2>1, <2>2, <2>3 DEF Chained, Chain
<1>2. ASSUME NEW p \in DOMAIN walkers, Walk(p) PROVE Chained'
  BY <1>2, WalkChained
<1>3. CASE Finish \/ Timeout \/ Unload
  <2>1. wf' = wf /\ walkers' = [p \in Survivors |-> walkers[p]] /\ Survivors \in SUBSET DOMAIN walkers
    BY <1>3 DEF Finish, Timeout, Unload, EndAs, Survivors
  <2>2. \A q \in Survivors : walkers[q].bg /\ Chain(q)
    BY DEF Survivors, Chained
  <2>3. \A q \in Survivors : Chain(q)'
    BY <2>1, <2>2 DEF Chain, Loose, Detaches, Step
  <2> QED BY <2>1, <2>3 DEF Chained
<1>4. CASE Crash
  BY <1>4 DEF Crash, NoWalkers, Chained
<1>5. CASE Quiet \/ UNCHANGED vars
  <2>1. wf' = wf /\ walkers' = walkers
    BY <1>5 DEF Quiet, vars
  <2> QED BY <2>1 DEF Chained, Chain, Loose, Detaches, Step, Awaits
<1> QED BY <1>1, <1>2, <1>3, <1>4, <1>5 DEF Next, Progress

(* Nothing looks at what fails in a branch nobody waits for, or in an item of *)
(* a parallel loop.                                                           *)
Unwatched(x) ==
    Loose(x[1]) \/ \E k \in 1..Len(x[1]) : Step(x[1][k][1]).kind = "foreach" /\ Step(x[1][k][1]).together

Unhandled(x) == ~Routed(x) /\ ~Unwatched(x)

(* A walker above the failure, or the failed walker, is still passing it on.  *)
Carries(p) == p \in DOMAIN walkers /\ walkers[p].pc = "raised"
Carried(x) == \E k \in 0..Len(x[1]) : Carries(Up(x[1], k))

(* While the run goes on, what nobody has handled is being passed on; once it *)
(* has ended, it is not successful.                                           *)
Reported(x) == Unhandled(x) => IF Running THEN Carried(x) ELSE run.status # "success"

AllReported ==
    /\ saved.status = run.status
    /\ Running => run.status = "running"
    /\ \A x \in failures : x[1] \in Path /\ Reported(x)

(* What a failure has on its path does not depend on the state. *)
LEMMA SamePathForks ==
    ASSUME wf' = wf
    PROVE  \A x : Unhandled(x)' = Unhandled(x)
BY DEF Unhandled, Unwatched, Routed, Loose, Detaches, Step

(* The main walker is there as long as anybody it waits for is.               *)
LEMMA MainAbove ==
    ASSUME IInv, Chained, NEW p \in DOMAIN walkers, ~Loose(p)
    PROVE  Running /\ (p # Main => walkers[Main].pc = "join")
<1>1. p \in Path /\ Len(p) \in Nat
  BY DEF IInv, AllSound, Sound, Path
<1>2. CASE p = Main
  BY <1>2 DEF Running
<1>3. CASE p # Main
  <2>1. 0 \in 0..Len(p) - 1 /\ 0 \in 0..Len(p)
    BY <1>1, <1>3 DEF Path, Main
  <2>2. Up(p, 0) = Main
    BY <1>1, <2>1, UpIs
  <2>3. Awaits(Up(p, 0), p[0 + 1][1])
    BY <2>1 DEF Chained, Chain
  <2> QED BY <2>2, <2>3 DEF Awaits, Running
<1> QED BY <1>2, <1>3

(* A step that neither forks nor comes back passes on or adds a failure.      *)
LEMMA ReportedMoved ==
    ASSUME IInv, Chained, AllReported, NEW p \in DOMAIN walkers, Walk(p), ~Fork(p), ~NextItem(p), ~Join(p)
    PROVE  AllReported'
<1> DEFINE w == walkers[p]
           v == walkers'[p]
<1>1. /\ Move(p, v) /\ wf' = wf /\ run'.status = run.status /\ (saved' = saved \/ saved' = run')
      /\ w.pc \notin {"join", "over", "raised"}
      /\ IF v.pc = "raised" THEN failures' = failures \cup {<<p, w.at>>} ELSE failures' = failures
  BY MoveShape
<1>2. /\ DOMAIN walkers' = DOMAIN walkers
      /\ \A a \in DOMAIN walkers : a # p => walkers'[a] = walkers[a]
  BY <1>1 DEF Move
<1>3. Running' = Running /\ saved'.status = run'.status /\ (Running' => run'.status = "running")
  BY <1>1, <1>2 DEF Running, AllReported
<1>4. \A a : Carries(a) => Carries(a)'
  BY <1>1, <1>2 DEF Carries
<1>5. \A x \in failures : x[1] \in Path /\ Reported(x)'
  BY <1>1, <1>3, <1>4, SamePathForks DEF Reported, Carried, AllReported, Up
<1>6. ASSUME v.pc = "raised", NEW x \in {<<p, w.at>>} PROVE x[1] \in Path /\ Reported(x)'
  <2>0. x[1] = p
    OBVIOUS
  <2>1. p \in Path /\ Len(p) \in Nat
    BY DEF IInv, AllSound, Sound, Path
  <2>2. Up(p, Len(p)) = p /\ Len(p) \in 0..Len(p)
    BY <2>1, UpIs
  <2>3. Carried(x)'
    <3>1. Carries(p)'
      BY <1>2, <1>6 DEF Carries
    <3>2. \E k \in 0..Len(p) : Carries(Up(p, k))'
      BY <2>2, <3>1 DEF Up
    <3> QED BY <2>0, <3>2 DEF Carried, Up
  <2>4. ~Running => Loose(p)
    BY MainAbove
  <2>5. ~Running => ~Unhandled(x)
    BY <2>0, <2>4 DEF Unhandled, Unwatched
  <2>6. Unhandled(x)' = Unhandled(x)
    BY <1>1, SamePathForks
  <2>7. Reported(x)'
    BY <1>3, <2>3, <2>5, <2>6 DEF Reported
  <2> QED BY <2>0, <2>1, <2>7
<1> QED BY <1>1, <1>3, <1>5, <1>6 DEF AllReported

(* A fork, or the end of one, keeps what is passed on. *)
LEMMA ReportedForked ==
    ASSUME IInv, AllReported, NEW p \in DOMAIN walkers, walkers[p].pc \in AtStep,
           NEW v, NEW ws, NEW gone \in SUBSET (DOMAIN walkers \ {p}), Forked(p, v, ws, gone), wf' = wf,
           \A q \in DOMAIN ws : q # Main,
           \A q \in DOMAIN walkers : q \notin DOMAIN ws,
           Main \notin gone, run'.status = run.status, saved' = saved, failures' = failures,
           \A x \in failures : \A k \in 0..Len(x[1]) :
              Unhandled(x) /\ Carries(Up(x[1], k)) /\ Up(x[1], k) \in gone =>
                 v.pc = "raised" /\ \E j \in 0..Len(x[1]) : Up(x[1], j) = p
    PROVE  AllReported'
<1>1. /\ DOMAIN walkers' = (DOMAIN walkers \ gone) \cup DOMAIN ws /\ walkers'[p] = v
      /\ \A a \in DOMAIN walkers \ gone : a # p => walkers'[a] = walkers[a]
  BY DEF Forked
<1>2. Running' = Running
  BY <1>1 DEF Running
<1>3. \A a : Carries(a) /\ a \notin gone => Carries(a)'
  BY <1>1 DEF Carries, AtStep
<1> SUFFICES ASSUME NEW x \in failures PROVE Reported(x)'
  BY <1>2 DEF AllReported
<1>4. Unhandled(x)' = Unhandled(x) /\ Reported(x)
  BY SamePathForks DEF AllReported
<1>5. ASSUME Unhandled(x), Running PROVE Carried(x)'
  <2>1. PICK k \in 0..Len(x[1]) : Carries(Up(x[1], k))
    BY <1>4, <1>5 DEF Reported, Carried
  <2>2. \E j \in 0..Len(x[1]) : Carries(Up(x[1], j))'
    <3>1. CASE Up(x[1], k) \in gone
      <4>1. v.pc = "raised" /\ \E j \in 0..Len(x[1]) : Up(x[1], j) = p
        BY <1>5, <2>1, <3>1
      <4>2. Carries(p)'
        BY <1>1, <4>1 DEF Carries
      <4> QED BY <4>1, <4>2 DEF Up
    <3>2. CASE Up(x[1], k) \notin gone
      BY <1>3, <2>1, <3>2 DEF Up
    <3> QED BY <3>1, <3>2
  <2> QED BY <2>2 DEF Carried, Up
<1> QED BY <1>2, <1>4, <1>5 DEF Reported

(* A step of a walker loses no failure. *)
LEMMA WalkReported ==
    ASSUME IInv, Families, Chained, AllReported, NEW p \in DOMAIN walkers, Walk(p)
    PROVE  AllReported'
<1> DEFINE w == walkers[p]
<1>0. /\ Lineage /\ p \in Path
      /\ \A b \in DOMAIN walkers : b \in Path
  BY DEF Families, IInv, AllSound, Sound
<1>1. CASE ~Fork(p) /\ ~NextItem(p) /\ ~Join(p)
  BY <1>1, ReportedMoved
<1>2. CASE Fork(p)
  <2>1. /\ w.pc = "dispatch" /\ wf' = wf /\ w.pc \in AtStep
        /\ run'.status = run.status /\ saved' = saved /\ failures' = failures
    BY <1>2, ForkShape DEF AtStep
  <2>2. PICK ids \in SUBSET Parts(w.at), pc \in {"head", "queued"}, bg \in BOOLEAN :
           \E v : ForkTo(p, v, ids, pc, bg)
    BY <1>2, ForkShape
  <2>3. PICK v : Forked(p, v, NewChildren(p, ids, pc, bg), {})
    BY <2>2 DEF ForkTo
  <2> DEFINE ws == NewChildren(p, ids, pc, bg)
  <2>4. \A q \in DOMAIN ws : q # Main
    BY DEF NewChildren, Child, Main
  <2>5. \A q \in DOMAIN walkers : q \notin DOMAIN ws
    BY <2>1, FreshPaths
  <2> HIDE DEF ws
  <2>6. Forked(p, v, ws, {})
    BY <2>3 DEF ws
  <2> QED BY <2>1, <2>4, <2>5, <2>6, ReportedForked
<1>3. CASE NextItem(p)
  <2>1. /\ w.pc = "join" /\ wf' = wf /\ w.pc \in AtStep /\ Sequential(p)
        /\ run'.status = run.status /\ saved' = saved /\ failures' = failures
    BY <1>3, NextShape DEF AtStep
  <2>2. PICK c \in Children(p), i \in Parts(w.at) :
           /\ i = Leaf(c)[2] + 1 /\ walkers[c].pc = "over"
           /\ Forked(p, w, NewChildren(p, {i}, "head", w.bg), {c})
    BY <1>3, NextShape
  <2> DEFINE ids == {i}
             ws == NewChildren(p, ids, "head", w.bg)
             gone == {c}
  <2>3. ids \in SUBSET Parts(w.at) /\ c \in DOMAIN walkers /\ c # Main
    BY DEF Children
  <2>4. \A q \in DOMAIN ws : q # Main
    BY DEF NewChildren, Child, Main
  <2>5. \A q \in DOMAIN walkers : q \notin DOMAIN ws
    BY <2>1, <2>2, <2>3, FreshPaths
  <2>6. Forked(p, w, ws, gone) /\ gone \in SUBSET (DOMAIN walkers \ {p}) /\ Main \notin gone
    BY <2>1, <2>2, <2>3
  <2>7. \A a \in gone : ~Carries(a)
    BY <2>2 DEF Carries
  <2> HIDE DEF ws, ids, gone
  <2> QED BY <2>1, <2>4, <2>5, <2>6, <2>7, ReportedForked
<1>4. CASE Join(p)
  <2>1. /\ w.pc = "join" /\ w.at \in Steps /\ wf' = wf /\ w.pc \in AtStep /\ Gathered(p)
        /\ run'.status = run.status /\ saved' = saved /\ failures' = failures
    BY <1>4, JoinShape DEF AtStep
  <2>2. PICK v : /\ Forked(p, v, NoWalkers, Children(p))
                 /\ \/ v.pc = "raised" /\ Errors(p) # {}
                    \/ v.pc = "head" /\ Errors(p) = {}
                    \/ v.pc = "head" /\ Step(w.at).kind # "foreach" /\ Step(w.at).fail # None
    BY <1>4, JoinShape
  <2>3. \A q \in Children(p) : walkers[q].pc # "join" /\ q # Main
    BY <2>1 DEF Gathered, Active, Children
  <2>4. Children(p) \in SUBSET (DOMAIN walkers \ {p}) /\ DOMAIN NoWalkers = {}
    BY <2>1, <2>3 DEF Children, NoWalkers
  <2>5. Step(w.at).kind \in {"parallel", "foreach"} /\ ~Detaches(w.at)
    BY <2>1 DEF Chained, Chain
  <2>6. ASSUME NEW x \in failures, NEW k \in 0..Len(x[1]), Unhandled(x),
               Carries(Up(x[1], k)), Up(x[1], k) \in Children(p)
        PROVE  v.pc = "raised" /\ \E j \in 0..Len(x[1]) : Up(x[1], j) = p
    <3> DEFINE q == x[1]
               a == Up(q, k)
    <3>1. q \in Path /\ Len(q) \in Nat
      BY DEF AllReported, Path
    <3>2. a \in Path /\ Len(a) = k /\ \A j \in 1..k : a[j] = q[j]
      BY <3>1, UpIs
    <3>3. /\ Len(a) = Len(p) + 1 /\ Under(p, a) /\ Leaf(a) = Via(p, a) /\ Leaf(a)[1] = w.at
          /\ walkers[a].pc = "raised" /\ Len(p) \in Nat
      <4>1. a # Main /\ Parent(a) = p /\ Leaf(a)[1] = w.at /\ walkers[a].pc = "raised"
        BY <2>6 DEF Children, Carries
      <4>2. Len(p) \in Nat
        BY <1>0 DEF Path
      <4> HIDE DEF a
      <4> QED BY <1>0, <3>2, <4>1, <4>2, ChildIs
    <3>4. k \in 1..Len(q) /\ q[k][1] = w.at
      <4> HIDE DEF a
      <4>1. k = Len(p) + 1 /\ k \in 1..Len(q)
        BY <3>2, <3>3
      <4> QED BY <3>2, <3>3, <4>1 DEF Leaf
    <3>5. Under(p, q)
      <4> HIDE DEF a
      <4> QED BY <3>1, <3>2, <3>3, <3>4 DEF Under
    <3>6. Len(p) \in 0..Len(q) /\ Up(q, Len(p)) = p
      <4>1. Len(p) \in 0..Len(q) - 1 /\ Up(q, Len(p)) = p
        BY <1>0, <3>1, <3>5, UpOnly
      <4> QED BY <3>1, <4>1
    <3>7. ~(Step(w.at).kind = "foreach" /\ Step(w.at).together) /\ ~Routed(x)
      BY <2>6, <3>4 DEF Unhandled, Unwatched
    <3>8. a \in Errors(p)
      BY <2>5, <2>6, <3>3, <3>7 DEF Errors, Sequential
    <3>9. ~(Step(w.at).kind # "foreach" /\ Step(w.at).fail # None)
      BY <2>5, <3>4, <3>7 DEF Routed, Detaches
    <3> QED BY <2>2, <3>6, <3>8, <3>9
  <2> DEFINE gone == Children(p)
  <2>7. \A x \in failures : \A k \in 0..Len(x[1]) :
           Unhandled(x) /\ Carries(Up(x[1], k)) /\ Up(x[1], k) \in gone =>
              v.pc = "raised" /\ \E j \in 0..Len(x[1]) : Up(x[1], j) = p
    BY <2>6
  <2>8. Forked(p, v, NoWalkers, gone) /\ gone \in SUBSET (DOMAIN walkers \ {p}) /\ Main \notin gone
    BY <2>2, <2>3, <2>4
  <2> HIDE DEF gone
  <2> QED BY <2>1, <2>4, <2>7, <2>8, ReportedForked
<1> QED BY <1>1, <1>2, <1>3, <1>4

(* No step loses a failure. *)
LEMMA ReportedStep == IInv /\ Families /\ Chained /\ AllReported /\ [Next]_vars => AllReported'
<1> SUFFICES ASSUME IInv, Families, Chained, AllReported, [Next]_vars PROVE AllReported'
  OBVIOUS
<1>0. run \in Run /\ saved \in Run
  BY DEF IInv, SharedType
<1>1. CASE Begin
  <2>1. run'.status = "running" /\ saved' = run' /\ failures' = {}
    BY <1>0, <1>1 DEF Begin, Run
  <2> QED BY <2>1 DEF AllReported
<1>2. ASSUME NEW p \in DOMAIN walkers, Walk(p) PROVE AllReported'
  BY <1>2, WalkReported
<1>3. ASSUME NEW status, EndAs(status), Running, status = "success" => walkers[Main].pc = "over"
      PROVE  AllReported'
  <2>1. run'.status = status /\ saved' = run' /\ failures' = failures /\ wf' = wf
    BY <1>0, <1>3 DEF EndAs, Save, Run
  <2>2. ~Running'
    <3>1. ~walkers[Main].bg
      BY <1>3, MainIsAwaited DEF Running, Chained, Chain
    <3> QED BY <1>3, <3>1 DEF Running, EndAs, Survivors
  <2>3. ASSUME NEW x \in failures, Unhandled(x), status = "success" PROVE FALSE
    <3>1. x[1] \in Path /\ Len(x[1]) \in Nat /\ ~Loose(x[1])
      BY <2>3 DEF AllReported, Path, Unhandled, Unwatched
    <3>2. PICK k \in 0..Len(x[1]) : Carries(Up(x[1], k))
      BY <1>3, <2>3 DEF AllReported, Reported, Carried
    <3> DEFINE a == Up(x[1], k)
    <3>3. a \in Path /\ Len(a) = k /\ \A j \in 1..k : a[j] = x[1][j]
      BY <3>1, UpIs
    <3>4. a \in DOMAIN walkers /\ walkers[a].pc = "raised"
      BY <3>2 DEF Carries
    <3> HIDE DEF a
    <3>5. ~Loose(a)
      BY <3>1, <3>3 DEF Loose
    <3> QED BY <1>3, <2>3, <3>4, <3>5, MainAbove
  <2> QED BY <2>1, <2>2, <2>3, SamePathForks DEF AllReported, Reported
<1>4. CASE Finish
  BY <1>3, <1>4 DEF Finish
<1>5. CASE Timeout \/ Unload
  BY <1>3, <1>5 DEF Timeout, Unload
<1>6. CASE Crash
  <2>1. run'.status = saved.status /\ saved' = run' /\ wf' = wf /\ failures' = failures
    BY <1>0, <1>6 DEF Crash, Run
  <2>2. ~Running'
    BY <1>6 DEF Crash, NoWalkers, Running
  <2> QED BY <2>1, <2>2, SamePathForks DEF AllReported, Reported
<1>7. CASE Quiet \/ UNCHANGED vars
  <2>1. wf' = wf /\ walkers' = walkers /\ run' = run /\ saved' = saved /\ failures' = failures
    BY <1>7 DEF Quiet, vars
  <2> QED BY <2>1, SamePathForks DEF AllReported, Reported, Carried, Carries, Running, Up
<1> QED BY <1>1, <1>2, <1>4, <1>5, <1>6, <1>7 DEF Next, Progress

(* Both hold in every behaviour. *)
LEMMA ReportedAlways == Spec => [](IInv /\ Families /\ Chained /\ AllReported)
<1>1. Init => Chained /\ AllReported
  BY DEF Init, NoWalkers, NewRun, Chained, AllReported, Running
<1> QED BY <1>1, FamiliesAlways, InitSound, NextStep, FamiliesStep, ChainedStep, ReportedStep, PTL DEF Spec

(* On any graph, a run is successful only if each step that failed without an *)
(* on_failure was inside an awaited parallel step that has one, in a branch   *)
(* nobody waits for, or in an item of a parallel loop.                        *)
THEOREM FailuresAreAccountedFor ==
    Spec => [](run.status = "success" => \A x \in failures : Routed(x) \/ Unwatched(x))
<1>1. AllReported => (run.status = "success" => \A x \in failures : Routed(x) \/ Unwatched(x))
  BY DEF AllReported, Reported, Unhandled
<1> QED BY <1>1, ReportedAlways, PTL

(* Graphs whose forks all look at the failures of their children. *)
Watched ==
    \A s \in Steps : Step(s).kind \in {"parallel", "foreach"} => (Step(s).kind = "parallel" <=> Step(s).together)

(* On these, no failure leaves the run successful but those that were routed. *)
THEOREM WatchedFailuresAreRouted == Spec => [](Watched => FailureIsRouted)
<1>1. IInv /\ AllReported => (Watched => FailureIsRouted)
  <2> SUFFICES ASSUME IInv, AllReported, Watched, run.status = "success", NEW x \in failures PROVE Routed(x)
    BY DEF FailureIsRouted
  <2>1. x[1] \in Path /\ ~Unhandled(x)
    BY DEF AllReported, Reported
  <2>2. \A k \in 1..Len(x[1]) : x[1][k][1] \in Steps
    BY <2>1 DEF Path
  <2>3. ~Unwatched(x)
    BY <2>2 DEF Unwatched, Loose, Detaches, Watched
  <2> QED BY <2>1, <2>3 DEF Unhandled
<1> QED BY <1>1, ReportedAlways, PTL

-----------------------------------------------------------------------------
(* Forks: what has become of every part of a fork that was entered.          *)

(* What has become of the parts of a fork: a failure went through it, a part  *)
(* has reached its first step, or a child has still to do so or comes before. *)
FailedIn(f) == \E x \in failures : \E k \in 1..Len(x[1]) : x[1][k][1] = f
First(f, i) == List(f, i)[1]
PartTried(f, i) == <<f, i, First(f, i)>> \in tried
InHand(p, f, i) ==
    \E c \in Children(p) :
        \/ Leaf(c)[2] = i /\ walkers[c].pc \in {"queued", "head", "dispatch"} /\ walkers[c].at = First(f, i)
        \/ Sequential(p) /\ Leaf(c)[2] < i

Pending(p, f) == Awaits(p, f) /\ \A i \in Parts(f) : PartTried(f, i) \/ InHand(p, f, i)
Met(f) == FailedIn(f) \/ (\A i \in Parts(f) : PartTried(f, i)) \/ \E p \in DOMAIN walkers : Pending(p, f)

(* Every fork that was entered is accounted for, and whoever passes a failure *)
(* on got it from a failure that went through all the forks around it.        *)
Forking ==
    /\ \A f \in entered : Met(f)
    /\ \A q \in DOMAIN walkers : walkers[q].pc = "raised" => \A k \in 1..Len(q) : FailedIn(q[k][1])

(* The run has not been stopped, so this is its first execution.              *)
FirstRun ==
    /\ resumed = {} /\ run.status # "cancelled"
    /\ run.status = "running" => Running
    /\ run.status = "pending" => entered = {} /\ \A s \in Steps : run.steps[s] # "success"
    /\ run.status \in {"running", "success"} => Forking

(* Graphs whose parallel steps all wait for their branches. *)
Awaited == \A s \in Steps : Step(s).kind = "parallel" => Step(s).together

(* No branch and no body of a loop is just END.                               *)
Startable == \A f \in Steps : \A i \in Parts(f) : Step(f).kind \in {"parallel", "foreach"} => First(f, i) # END

Unstopped == Awaited /\ Startable /\ stops = 0 => FirstRun

(* A walker that moves tries the step it dispatches, and stops at the head    *)
(* of the loop only at END, on a cancelled run or with an error.              *)
LEMMA MoveTries ==
    ASSUME IInv, NEW p \in DOMAIN walkers, Walk(p), ~Fork(p), ~NextItem(p), ~Join(p)
    PROVE  LET w == walkers[p]
               v == walkers'[p]
           IN
           /\ tried \subseteq tried' /\ UNCHANGED <<entered, resumed, stops>>
           /\ w.pc = "dispatch" /\ w.at \notin resumed /\ p # Main => <<Leaf(p)[1], Leaf(p)[2], w.at>> \in tried'
           /\ w.pc = "queued" => v.pc = "head" /\ v.at = w.at
           /\ w.pc = "head" => \/ v.pc = "raised"
                               \/ v.pc = "dispatch" /\ v.at = w.at
                               \/ w.at = END \/ run.status = "cancelled"
<1> DEFINE w == walkers[p]
           v == walkers'[p]
<1>1. w \in Walker
  BY DEF IInv, AllSound, Sound
<1>2. \A u : Move(p, u) => v = u
  BY DEF Move
<1>3. Tried(p) => tried \subseteq tried' /\ (p # Main => <<Leaf(p)[1], Leaf(p)[2], w.at>> \in tried')
  BY DEF Tried
<1>4. CASE Enter(p)
  <2> DEFINE u == [w EXCEPT !.pc = "dispatch", !.seen = @ \cup {w.at}, !.trail = @ \cup {w.at}]
  <2>1. u.pc = "dispatch" /\ u.at = w.at
    BY <1>1 DEF Walker
  <2>2. v = u
    BY <1>2, <1>4 DEF Enter
  <2> QED BY <1>4, <2>1, <2>2 DEF Enter, stepFrame
<1>5. CASE Leave(p)
  BY <1>5 DEF Leave, stepFrame
<1>6. CASE Break(p)
  BY <1>1, <1>2, <1>6 DEF Break, Throw, Walker, stepFrame
<1>7. CASE SkipResumed(p)
  BY <1>7 DEF SkipResumed, stepFrame
<1>8. CASE StartAction(p) \/ CallAI(p) \/ Choose(p) \/ Compute(p) \/ ComputeRaises(p) \/ Wait(p)
  BY <1>3, <1>8 DEF StartAction, CallAI, Choose, Compute, ComputeRaises, Wait, Dispatching, stepFrame
<1>9. CASE CallAction(p) \/ CallSucceeds(p) \/ CallFails(p)
  BY <1>9 DEF CallAction, CallSucceeds, CallFails, stepFrame
<1>10. CASE StartItem(p)
  BY <1>1, <1>2, <1>10 DEF StartItem, Walker, stepFrame
<1> QED BY <1>4, <1>5, <1>6, <1>7, <1>8, <1>9, <1>10 DEF Walk

(* What has been tried or has failed stays so.                                *)
LEMMA MetGrows ==
    ASSUME tried \subseteq tried', failures \subseteq failures', wf' = wf
    PROVE  /\ \A f : FailedIn(f) => FailedIn(f)'
           /\ \A f, i : First(f, i)' = First(f, i) /\ Parts(f)' = Parts(f) /\ (PartTried(f, i) => PartTried(f, i)')
<1>1. \A f, i : First(f, i)' = First(f, i) /\ Parts(f)' = Parts(f)
  BY DEF First, List, Parts, Step
<1> QED BY <1>1 DEF FailedIn, PartTried

(* A step that neither forks nor comes back keeps every fork accounted for.   *)
LEMMA ForkingMoved ==
    ASSUME IInv, Awaited, Startable, resumed = {}, run.status # "cancelled", Forking,
           Chained, NEW p \in DOMAIN walkers, Walk(p), ~Fork(p), ~NextItem(p), ~Join(p)
    PROVE  Forking'
<1> DEFINE w == walkers[p]
           v == walkers'[p]
<1>1. /\ Move(p, v) /\ wf' = wf /\ w.pc \notin {"join", "over", "raised"} /\ v.pc # "join"
      /\ IF v.pc = "raised" THEN failures' = failures \cup {<<p, w.at>>} ELSE failures' = failures
  BY MoveShape
<1>2. /\ tried \subseteq tried' /\ entered' = entered
      /\ w.pc = "dispatch" /\ p # Main => <<Leaf(p)[1], Leaf(p)[2], w.at>> \in tried'
      /\ w.pc = "queued" => v.pc = "head" /\ v.at = w.at
      /\ w.pc = "head" => \/ v.pc = "raised"
                          \/ v.pc = "dispatch" /\ v.at = w.at
                          \/ w.at = END
  BY MoveTries
<1>3. /\ DOMAIN walkers' = DOMAIN walkers
      /\ \A a \in DOMAIN walkers : a # p => walkers'[a] = walkers[a]
  BY <1>1 DEF Move
<1>4. /\ \A f : FailedIn(f) => FailedIn(f)'
      /\ \A f, i : First(f, i)' = First(f, i) /\ Parts(f)' = Parts(f) /\ (PartTried(f, i) => PartTried(f, i)')
  <2>1. failures \subseteq failures'
    BY <1>1
  <2> QED BY <1>1, <1>2, <2>1, MetGrows
<1>5. ASSUME v.pc = "raised", NEW k \in 1..Len(p) PROVE FailedIn(p[k][1])'
  <2>1. <<p, w.at>> \in failures' /\ <<p, w.at>>[1] = p
    BY <1>1, <1>5
  <2> QED BY <1>5, <2>1 DEF FailedIn
<1>6. ASSUME NEW a \in DOMAIN walkers, NEW f, Pending(a, f) PROVE Met(f)'
  <2>1. a # p /\ walkers'[a] = walkers[a] /\ walkers[a].pc = "join" /\ walkers[a].at = f
    BY <1>1, <1>3, <1>6 DEF Pending, Awaits
  <2>2. Children(a)' = Children(a) /\ Sequential(a)' = Sequential(a) /\ Awaits(a, f)'
    BY <1>1, <1>3, <2>1 DEF Children, Sequential, Step, Awaits
  <2>3. f \in Steps /\ Step(f).kind \in {"parallel", "foreach"}
    BY <2>1 DEF IInv, AllSound, Sound, AtStep, Chained, Chain
  <2>4. CASE v.pc = "raised" /\ p \in Children(a)
    <3>1. p \in Path /\ p # Main /\ Leaf(p)[1] = f
      BY <2>1, <2>4 DEF Children, IInv, AllSound, Sound
    <3>2. Len(p) \in 1..Len(p)
      BY <3>1 DEF Path, Main
    <3> QED BY <1>5, <2>4, <3>1, <3>2 DEF Met, Leaf
  <2>5. CASE ~(v.pc = "raised" /\ p \in Children(a))
    <3>1. ASSUME NEW i \in Parts(f) PROVE PartTried(f, i)' \/ InHand(a, f, i)'
      <4>1. CASE PartTried(f, i)
        BY <1>4, <4>1
      <4>2. ASSUME NEW c \in Children(a),
                   Leaf(c)[2] = i, walkers[c].pc \in {"queued", "head", "dispatch"}, walkers[c].at = First(f, i)
            PROVE  PartTried(f, i)' \/ InHand(a, f, i)'
        <5>1. CASE c # p
          <6>1. walkers'[c] = walkers[c]
            BY <1>3, <5>1 DEF Children
          <6> QED BY <1>4, <2>2, <4>2, <6>1 DEF InHand
        <5>2. CASE c = p /\ w.pc = "dispatch"
          <6>1. p # Main /\ Leaf(p)[1] = f
            BY <2>1, <5>2 DEF Children
          <6> QED BY <1>2, <1>4, <4>2, <5>2, <6>1 DEF PartTried
        <5>3. CASE c = p /\ w.pc # "dispatch"
          <6>1. w.at # END
            BY <2>3, <4>2, <5>3 DEF Startable
          <6>2. v.pc \in {"head", "dispatch"} /\ v.at = w.at
            BY <1>2, <2>5, <4>2, <5>3, <6>1
          <6> QED BY <1>4, <2>2, <4>2, <5>3, <6>2 DEF InHand
        <5> QED BY <5>1, <5>2, <5>3
      <4>3. ASSUME NEW c \in Children(a), Sequential(a), Leaf(c)[2] < i
            PROVE  InHand(a, f, i)'
        BY <2>2, <4>3 DEF InHand
      <4> QED BY <1>6, <4>1, <4>2, <4>3 DEF Pending, InHand
    <3> QED BY <1>3, <1>4, <2>2, <3>1 DEF Met, Pending
  <2> QED BY <2>4, <2>5
<1>7. ASSUME NEW f \in entered PROVE Met(f)'
  BY <1>4, <1>6 DEF Forking, Met
<1>8. ASSUME NEW q \in DOMAIN walkers, walkers'[q].pc = "raised", NEW k \in 1..Len(q) PROVE FailedIn(q[k][1])'
  BY <1>3, <1>4, <1>5, <1>8 DEF Forking
<1> QED BY <1>2, <1>3, <1>7, <1>8 DEF Forking

(* A fork that leaves the failures and the walkers waiting elsewhere as they  *)
(* are accounts for its own parts.                                            *)
LEMMA ForkingForked ==
    ASSUME IInv, Forking, NEW p \in DOMAIN walkers, walkers[p].pc \in AtStep,
           NEW g, g = walkers[p].at,
           walkers[p].pc = "dispatch" /\ p # Main => PartTried(Leaf(p)[1], Leaf(p)[2])' \/ g # First(Leaf(p)[1], Leaf(p)[2]),
           NEW v, NEW ws, NEW gone \in SUBSET (DOMAIN walkers \ {p}), Forked(p, v, ws, gone), wf' = wf,
           \A q \in gone : q # Main /\ Parent(q) = p /\ walkers[q].pc # "join",
           \A q \in DOMAIN ws : q # Main /\ Parent(q) = p /\ ws[q].pc # "raised",
           \A q \in DOMAIN walkers : q \notin DOMAIN ws,
           tried \subseteq tried', failures' = failures,
           v.pc = "raised" => \A k \in 1..Len(p) : FailedIn(p[k][1]),
           Pending(p, g) => Met(g)',
           \A f \in entered' : f \in entered \/ Met(f)'
    PROVE  Forking'
<1> DEFINE w == walkers[p]
<1>1. /\ DOMAIN walkers' = (DOMAIN walkers \ gone) \cup DOMAIN ws /\ walkers'[p] = v
      /\ \A a \in DOMAIN walkers \ gone : a # p => walkers'[a] = walkers[a]
      /\ \A q \in DOMAIN ws : walkers'[q] = ws[q]
  BY DEF Forked
<1>2. /\ \A f : FailedIn(f) => FailedIn(f)'
      /\ \A f, i : First(f, i)' = First(f, i) /\ Parts(f)' = Parts(f) /\ (PartTried(f, i) => PartTried(f, i)')
  BY MetGrows
<1>3. ASSUME NEW a \in DOMAIN walkers, NEW f, Pending(a, f), a # p PROVE Met(f)'
  <2>1. /\ walkers[a].pc = "join" /\ walkers[a].at = f /\ a \notin gone /\ walkers'[a] = walkers[a]
        /\ a \in DOMAIN walkers'
    BY <1>1, <1>3 DEF Pending, Awaits
  <2>2. Children(a)' = Children(a)
    BY <1>1, <1>3, <2>1 DEF Children
  <2>3. Sequential(a)' = Sequential(a) /\ Awaits(a, f)'
    BY <2>1 DEF Sequential, Step, Awaits
  <2>4. ASSUME NEW i \in Parts(f) PROVE PartTried(f, i)' \/ InHand(a, f, i)'
    <3>1. CASE PartTried(f, i)
      BY <1>2, <3>1
    <3>2. ASSUME NEW c \in Children(a),
                 Leaf(c)[2] = i, walkers[c].pc \in {"queued", "head", "dispatch"}, walkers[c].at = First(f, i)
          PROVE  PartTried(f, i)' \/ InHand(a, f, i)'
      <4>1. c \in DOMAIN walkers /\ c # Main /\ Leaf(c)[1] = f /\ Parent(c) = a /\ c \notin gone
        BY <1>3, <2>1 DEF Children
      <4>2. CASE c # p
        BY <1>1, <1>2, <2>2, <3>2, <4>1, <4>2 DEF InHand
      <4>3. CASE c = p
        BY <1>2, <3>2, <4>1, <4>3 DEF AtStep
      <4> QED BY <4>2, <4>3
    <3>3. ASSUME NEW c \in Children(a), Sequential(a), Leaf(c)[2] < i
          PROVE  InHand(a, f, i)'
      BY <2>2, <2>3, <3>3 DEF InHand
    <3> QED BY <1>3, <3>1, <3>2, <3>3 DEF Pending, InHand
  <2> QED BY <1>2, <2>1, <2>3, <2>4 DEF Met, Pending
<1>4. ASSUME NEW f \in entered PROVE Met(f)'
  <2>1. CASE \E a \in DOMAIN walkers : Pending(a, f) /\ a # p
    BY <1>3, <2>1
  <2>2. CASE Pending(p, f)
    <3>1. f = g
      BY <2>2 DEF Pending, Awaits
    <3> QED BY <2>2, <3>1
  <2>3. CASE FailedIn(f) \/ \A i \in Parts(f) : PartTried(f, i)
    BY <1>2, <2>3 DEF Met
  <2> QED BY <2>1, <2>2, <2>3 DEF Forking, Met
<1>5. ASSUME NEW q \in DOMAIN walkers', walkers'[q].pc = "raised", NEW k \in 1..Len(q) PROVE FailedIn(q[k][1])'
  <2>1. CASE q = p
    BY <1>1, <1>2, <1>5, <2>1
  <2>2. CASE q # p
    <3>1. q \notin DOMAIN ws /\ q \in DOMAIN walkers /\ walkers[q].pc = "raised"
      BY <1>1, <1>5, <2>2
    <3> QED BY <1>2, <3>1 DEF Forking
  <2> QED BY <2>1, <2>2
<1> QED BY <1>4, <1>5 DEF Forking

(* A step of a walker keeps every fork accounted for. *)
LEMMA WalkForking ==
    ASSUME IInv, Families, Chained, Awaited, Startable, resumed = {}, run.status # "cancelled", Forking,
           NEW p \in DOMAIN walkers, Walk(p)
    PROVE  Forking'
<1> DEFINE w == walkers[p]
<1> PICK g : g = w.at
  OBVIOUS
<1>0. /\ p \in Path /\ Lineage /\ wf \in Workflows
      /\ \A b \in DOMAIN walkers : b \in Path
  BY DEF IInv, SharedType, AllSound, Sound, Families
<1>1. CASE ~Fork(p) /\ ~NextItem(p) /\ ~Join(p)
  BY <1>1, ForkingMoved
<1>2. CASE Fork(p)
  <2>1. /\ w.pc = "dispatch" /\ g \in Steps /\ wf' = wf /\ w.pc \in AtStep /\ failures' = failures
        /\ Step(g).kind \in {"parallel", "foreach"} /\ entered' = entered \cup {g}
    BY <1>2, ForkShape DEF AtStep
  <2>2. PICK ids \in SUBSET Parts(g), pc \in {"head", "queued"}, bg \in BOOLEAN :
           \E v : ForkTo(p, v, ids, pc, bg)
    BY <1>2, ForkShape
  <2>3. PICK v : ForkTo(p, v, ids, pc, bg)
    BY <2>2
  <2> DEFINE ws == NewChildren(p, ids, pc, bg)
  <2>4. /\ \A i \in ids : Child(p, g, i) \in DOMAIN ws
        /\ \A q \in DOMAIN ws : \E i \in ids :
              /\ i \in Nat \ {0} /\ q = Child(p, g, i)
              /\ ws[q].pc = pc /\ ws[q].bg = bg /\ ws[q].at = List(g, i)[1]
    <3>1. ids \in SUBSET Parts(w.at)
      OBVIOUS
    <3>2. \A i \in ids : Child(p, w.at, i) \in DOMAIN ws
      BY DEF NewChildren
    <3>3. \A q \in DOMAIN ws : \E i \in ids :
             /\ i \in Nat \ {0} /\ q = Child(p, w.at, i)
             /\ ws[q].pc = pc /\ ws[q].bg = bg /\ ws[q].at = List(w.at, i)[1]
      BY <2>1, <3>1, Born
    <3> QED BY <3>2, <3>3
  <2>5. \A q \in DOMAIN walkers : q \notin DOMAIN ws
    BY <2>1, FreshPaths
  <2>6. /\ Forked(p, v, ws, {}) /\ v.pc = "join" /\ v.at = g
        /\ ids = IF Sequential(p) /\ Parts(g) # {} THEN {1} ELSE Parts(g)
    BY <2>1, <2>3 DEF ForkTo, Detaches, Awaited
  <2> HIDE DEF ws
  <2>7. /\ DOMAIN walkers' = DOMAIN walkers \cup DOMAIN ws /\ walkers'[p] = v
        /\ \A q \in DOMAIN ws : walkers'[q] = ws[q]
    BY <2>5, <2>6 DEF Forked
  <2>8. tried \subseteq tried' /\ (p # Main => <<Leaf(p)[1], Leaf(p)[2], g>> \in tried')
    BY <1>2 DEF Fork, Tried
  <2>9. \A f, i : First(f, i)' = First(f, i) /\ Parts(f)' = Parts(f)
    BY <2>1, <2>8, MetGrows
  <2>10. \A i \in Parts(g) : i \in Nat \ {0}
    BY <1>0, <2>1, PartsType
  <2>11. ASSUME NEW i \in ids
         PROVE  LET q == Child(p, g, i) IN
                q \in Children(p)' /\ Leaf(q)[2] = i /\ walkers'[q].pc = pc /\ walkers'[q].at = First(g, i)
    <3> DEFINE q == Child(p, g, i)
    <3>1. q \in Path /\ Len(q) = Len(p) + 1 /\ Leaf(q) = <<g, i>> /\ Parent(q) = p /\ q # Main
      BY <1>0, <2>1, <2>10, ChildUnder
    <3>2. Leaf(q)[1] = g /\ Leaf(q)[2] = i
      BY <3>1
    <3>3. PICK j \in ids : /\ j \in Nat \ {0} /\ q = Child(p, g, j)
                           /\ ws[q].pc = pc /\ ws[q].at = List(g, j)[1]
      BY <2>4
    <3>4. Leaf(q) = <<g, j>>
      BY <1>0, <2>1, <3>3, ChildUnder
    <3>5. i = j
      BY <3>1, <3>4
    <3>6. walkers'[p].at = g /\ q \in DOMAIN walkers' /\ walkers'[q] = ws[q]
      BY <2>4, <2>6, <2>7
    <3> HIDE DEF q
    <3>7. q \in Children(p)' /\ walkers'[q].pc = pc /\ walkers'[q].at = First(g, i)
      BY <3>1, <3>2, <3>3, <3>5, <3>6 DEF Children, First
    <3> QED BY <3>2, <3>7 DEF q
  <2>12. Pending(p, g)'
    <3>1. Awaits(p, g)'
      BY <2>6, <2>7 DEF Awaits
    <3>2. ASSUME NEW i \in Parts(g) PROVE InHand(p, g, i)'
      <4>1. CASE i \in ids
        BY <2>9, <2>11, <4>1 DEF InHand
      <4>2. CASE i \notin ids
        <5>1. Sequential(p) /\ 1 \in ids /\ 1 < i
          BY <2>6, <2>10, <4>2
        <5>2. Sequential(p)'
          BY <2>1, <2>6, <2>7, <5>1 DEF Sequential, Step
        <5> QED BY <2>11, <5>1, <5>2 DEF InHand
      <4> QED BY <4>1, <4>2
    <3> QED BY <2>9, <3>1, <3>2 DEF Pending
  <2>13. Met(g)'
    BY <2>7, <2>12 DEF Met
  <2>14. w.pc = "dispatch" /\ p # Main => PartTried(Leaf(p)[1], Leaf(p)[2])' \/ g # First(Leaf(p)[1], Leaf(p)[2])
    BY <2>8, <2>9 DEF PartTried
  <2>15. \A q \in DOMAIN ws : q # Main /\ Parent(q) = p /\ ws[q].pc # "raised"
    BY <1>0, <2>1, <2>4, ChildUnder
  <2>16. ~Pending(p, g)
    BY <2>1 DEF Pending, Awaits
  <2> QED BY <2>1, <2>5, <2>6, <2>8, <2>13, <2>14, <2>15, <2>16, ForkingForked
<1>3. CASE NextItem(p)
  <2>1. /\ w.pc = "join" /\ g \in Steps /\ wf' = wf /\ w.pc \in AtStep /\ Sequential(p)
        /\ failures' = failures /\ entered' = entered /\ tried' = tried
    BY <1>3, NextShape DEF AtStep
  <2>2. PICK c \in Children(p), i \in Parts(g) :
           /\ i = Leaf(c)[2] + 1 /\ walkers[c].pc = "over"
           /\ Forked(p, w, NewChildren(p, {i}, "head", w.bg), {c})
    BY <1>3, NextShape
  <2> DEFINE ids == {i}
             ws == NewChildren(p, ids, "head", w.bg)
             gone == {c}
             q == Child(p, g, i)
  <2>3. ids \in SUBSET Parts(g) /\ c \in DOMAIN walkers /\ c # Main /\ Parent(c) = p
    BY DEF Children
  <2>4. /\ q \in DOMAIN ws
        /\ \A b \in DOMAIN ws : \E j \in ids :
              /\ j \in Nat \ {0} /\ b = Child(p, g, j)
              /\ ws[b].pc = "head" /\ ws[b].bg = w.bg /\ ws[b].at = List(g, j)[1]
    BY <2>1, <2>3, Born
  <2>5. \A b \in DOMAIN walkers : b \notin DOMAIN ws
    BY <2>1, <2>2, <2>3, FreshPaths
  <2>6. Forked(p, w, ws, gone) /\ gone \in SUBSET (DOMAIN walkers \ {p})
    BY <2>1, <2>2, <2>3
  <2>7. i \in Nat \ {0} /\ ws[q].pc = "head" /\ ws[q].at = First(g, i)
    BY <2>4 DEF First
  <2>8. q \in Path /\ Len(q) = Len(p) + 1 /\ Leaf(q) = <<g, i>> /\ Parent(q) = p /\ q # Main
    BY <1>0, <2>1, <2>7, ChildUnder
  <2>9. \A b \in DOMAIN ws : b # Main /\ Parent(b) = p /\ ws[b].pc # "raised"
    BY <2>4, <2>8
  <2>10. \A b \in gone : b # Main /\ Parent(b) = p /\ walkers[b].pc # "join"
    BY <2>2, <2>3
  <2>11. \A d \in Children(p) : d = c
    BY <1>0, <2>1, OneChild
  <2>12. Leaf(c)[2] \in Nat
    <3>1. c \in Path /\ c # Main
      BY <1>0, <2>3
    <3>2. Leaf(c) \in Steps \X (Nat \ {0})
      BY <3>1 DEF Leaf, Path, Main
    <3> QED BY <3>2
  <2> HIDE DEF ws, ids, gone, q
  <2>13. /\ walkers'[p] = w /\ p \in DOMAIN walkers' /\ q \in DOMAIN walkers' /\ walkers'[q] = ws[q]
    BY <2>4, <2>5, <2>6 DEF Forked
  <2>14. q \in Children(p)' /\ Leaf(q)[2] = i /\ Sequential(p)' /\ Awaits(p, g)'
    BY <2>1, <2>8, <2>13 DEF Children, Sequential, Step, Awaits
  <2>15. \A f, j : First(f, j)' = First(f, j) /\ Parts(f)' = Parts(f) /\ (PartTried(f, j) => PartTried(f, j)')
    BY <2>1, MetGrows
  <2>16. ASSUME Pending(p, g) PROVE Pending(p, g)'
    <3> SUFFICES ASSUME NEW j \in Parts(g) PROVE PartTried(g, j)' \/ InHand(p, g, j)'
      BY <2>14, <2>15 DEF Pending
    <3>1. CASE PartTried(g, j)
      BY <2>15, <3>1
    <3>2. CASE InHand(p, g, j)
      <4>1. Leaf(c)[2] < j /\ j \in Nat
        <5>1. j \in Nat
          BY <1>0, <2>1, PartsType
        <5> QED BY <2>2, <2>11, <3>2, <5>1 DEF InHand
      <4>2. j = i \/ i < j
        BY <2>2, <2>7, <2>12, <4>1
      <4> QED BY <2>7, <2>13, <2>14, <2>15, <4>2 DEF InHand
    <3> QED BY <2>16, <3>1, <3>2 DEF Pending
  <2>17. Pending(p, g) => Met(g)'
    BY <2>13, <2>16 DEF Met
  <2> QED BY <2>1, <2>5, <2>6, <2>9, <2>10, <2>17, ForkingForked
<1>4. CASE Join(p)
  <2>1. /\ w.pc = "join" /\ g \in Steps /\ wf' = wf /\ w.pc \in AtStep /\ Gathered(p)
        /\ failures' = failures /\ entered' = entered /\ tried' = tried
    BY <1>4, JoinShape DEF AtStep
  <2>2. PICK v : Forked(p, v, NoWalkers, Children(p)) /\ (v.pc = "raised" => Errors(p) # {})
    BY <1>4, JoinShape
  <2>3. \A q \in Children(p) : q # Main /\ Parent(q) = p /\ walkers[q].pc # "join" /\ Leaf(q)[1] = g
    BY <2>1 DEF Gathered, Active, Children
  <2>4. Children(p) \in SUBSET (DOMAIN walkers \ {p}) /\ DOMAIN NoWalkers = {}
    BY <2>1, <2>3 DEF Children, NoWalkers
  <2>5. \A q \in Children(p) : /\ Len(q) = Len(p) + 1 /\ Len(p) \in Nat
                               /\ \A k \in 1..Len(p) : q[k] = p[k]
                               /\ q \in Path
    <3>1. Len(p) \in Nat
      BY <1>0 DEF Path
    <3>2. \A q \in Children(p) : q \in Path
      BY <1>0 DEF Children
    <3> QED BY <1>0, <2>3, <3>1, <3>2, ChildIs DEF Under
  <2>6. ASSUME NEW q \in Children(p), walkers[q].pc = "raised"
        PROVE  FailedIn(g) /\ \A k \in 1..Len(p) : FailedIn(p[k][1])
    <3>1. \A k \in 1..Len(q) : FailedIn(q[k][1])
      BY <2>6 DEF Forking, Children
    <3>2. Len(q) \in 1..Len(q) /\ \A k \in 1..Len(p) : k \in 1..Len(q) /\ q[k] = p[k]
      BY <2>5
    <3>3. q[Len(q)][1] = g
      BY <2>3 DEF Leaf
    <3> QED BY <3>1, <3>2, <3>3
  <2>7. v.pc = "raised" => \A k \in 1..Len(p) : FailedIn(p[k][1])
    BY <2>2, <2>6 DEF Errors
  <2>8. ASSUME Pending(p, g) PROVE Met(g)'
    <3>1. /\ FailedIn(g) => FailedIn(g)'
          /\ \A j : Parts(g)' = Parts(g) /\ (PartTried(g, j) => PartTried(g, j)')
      BY <2>1, MetGrows
    <3>2. CASE \E q \in Children(p) : walkers[q].pc = "raised"
      BY <2>6, <3>1, <3>2 DEF Met
    <3>3. CASE \A q \in Children(p) : walkers[q].pc # "raised"
      <4>1. ASSUME NEW i \in Parts(g), InHand(p, g, i) PROVE FALSE
        <5>1. PICK c \in Children(p) : Sequential(p) /\ Leaf(c)[2] < i
          BY <2>1, <4>1 DEF InHand, Gathered, Active
        <5>2. Leaf(c)[2] + 1 \notin Parts(g)
          BY <2>1, <3>3, <5>1 DEF Gathered
        <5>3. Leaf(c)[2] \in Nat
          <6>1. Leaf(c) \in Steps \X (Nat \ {0})
            BY <2>3, <2>5 DEF Leaf, Path, Main
          <6> QED BY <6>1
        <5>4. Parts(g) = 1..Step(g).items /\ Step(g).items \in Nat
          <6>1. Step(g).items \in 0..MaxItems
            BY <1>0, <2>1, StepType DEF StepDef
          <6> QED BY <4>1, <5>1, <6>1, BoundsAssumption DEF Parts, Sequential
        <5> QED BY <5>1, <5>2, <5>3, <5>4
      <4>2. \A i \in Parts(g) : PartTried(g, i)
        BY <2>8, <4>1 DEF Pending
      <4> QED BY <3>1, <4>2 DEF Met
    <3> QED BY <3>2, <3>3
  <2> DEFINE gone == Children(p)
  <2>9. /\ Forked(p, v, NoWalkers, gone) /\ gone \in SUBSET (DOMAIN walkers \ {p})
        /\ \A q \in gone : q # Main /\ Parent(q) = p /\ walkers[q].pc # "join"
    BY <2>2, <2>3, <2>4
  <2> HIDE DEF gone
  <2> QED BY <2>1, <2>4, <2>7, <2>8, <2>9, ForkingForked
<1> QED BY <1>1, <1>2, <1>3, <1>4

(* On a graph whose parallel steps are awaited no walker is on its own.       *)
LEMMA NoneLoose ==
    ASSUME IInv, Awaited
    PROVE  \A p \in DOMAIN walkers : ~Loose(p)
BY DEF IInv, AllSound, Sound, Path, Loose, Detaches, Awaited

(* No step of a walker stops the run. *)
LEMMA WalkStops ==
    ASSUME IInv, NEW p \in DOMAIN walkers, Walk(p)
    PROVE  wf' = wf /\ UNCHANGED <<resumed, stops>> /\ run'.status = run.status /\ (Running => Running')
<1>1. CASE ~Fork(p) /\ ~NextItem(p) /\ ~Join(p)
  <2>1. wf' = wf /\ UNCHANGED <<resumed, stops>> /\ run'.status = run.status /\ DOMAIN walkers' = DOMAIN walkers
    BY <1>1, MoveShape, MoveTries DEF Move
  <2> QED BY <2>1 DEF Running
<1>2. ASSUME NEW v, NEW ws, NEW gone, Forked(p, v, ws, gone), Main \notin gone PROVE Running => Running'
  BY <1>2 DEF Forked, Running
<1>3. \A q \in Children(p) : q # Main
  BY DEF Children
<1>4. CASE Fork(p)
  BY <1>2, <1>4, ForkShape DEF ForkTo
<1>5. CASE NextItem(p)
  <2>1. PICK c \in Children(p), i \in Parts(walkers[p].at) :
           Forked(p, walkers[p], NewChildren(p, {i}, "head", walkers[p].bg), {c})
    BY <1>5, NextShape
  <2>2. Main \notin {c}
    BY <1>3
  <2> QED BY <1>2, <1>5, <2>1, <2>2, NextShape
<1>6. CASE Join(p)
  <2>1. \E v, ws, gone : Forked(p, v, ws, gone) /\ Main \notin gone
    BY <1>3, <1>6, JoinShape
  <2> QED BY <1>2, <1>6, <2>1, JoinShape
<1> QED BY <1>1, <1>4, <1>5, <1>6

(* No step changes the definition. *)
LEMMA SameDefinition == IInv /\ [Next]_vars => wf' = wf
BY WalkStops DEF Next, Progress, Begin, Finish, Timeout, Unload, EndAs, Crash, Quiet, vars

(* Until it is stopped, a run accounts for all its forks. *)
LEMMA UnstoppedStep == IInv /\ Families /\ Chained /\ AllReported /\ Unstopped /\ [Next]_vars => Unstopped'
<1> SUFFICES ASSUME IInv, Families, Chained, AllReported, Unstopped, [Next]_vars,
                    Awaited', Startable', stops' = 0
             PROVE  FirstRun'
  BY DEF Unstopped
<1>0. run \in Run /\ saved \in Run /\ stops \in Nat
  BY BoundsAssumption DEF IInv, SharedType
<1>1. wf' = wf
  BY SameDefinition
<1>2. Awaited /\ Startable
  BY <1>1 DEF Awaited, Startable, First, List, Parts, Step
<1>3. CASE Begin
  <2>1. stops = 0 /\ FirstRun
    BY <1>2, <1>3 DEF Begin, Unstopped
  <2>2. run.status = "pending" /\ run'.status = "running" /\ resumed' = {} /\ entered' = {}
    BY <1>0, <1>3, <2>1 DEF Begin, FirstRun, Run
  <2>3. DOMAIN walkers' = {Main} /\ walkers'[Main].pc = "head"
    BY <1>3 DEF Begin
  <2> QED BY <2>2, <2>3 DEF FirstRun, Forking, Running
<1>4. ASSUME NEW p \in DOMAIN walkers, Walk(p) PROVE FirstRun'
  <2>1. /\ UNCHANGED <<resumed, stops>> /\ run'.status = run.status /\ (Running => Running')
    BY <1>4, WalkStops
  <2>2. FirstRun
    BY <1>2, <2>1 DEF Unstopped
  <2>3. Running /\ run.status = "running"
    BY <1>2, NoneLoose, MainAbove DEF AllReported
  <2>4. Forking'
    BY <1>2, <1>4, <2>2, <2>3, WalkForking DEF FirstRun
  <2> QED BY <2>1, <2>2, <2>3, <2>4 DEF FirstRun
<1>5. ASSUME NEW status \in {"success", "failed"}, EndAs(status), Running, stops = 0,
             status = "success" => walkers[Main].pc = "over"
      PROVE  FirstRun'
  <2>1. FirstRun
    BY <1>2, <1>5 DEF Unstopped
  <2>2. /\ run'.status = status /\ resumed' = resumed /\ entered' = entered /\ tried' = tried
        /\ failures' = failures
    BY <1>0, <1>5 DEF EndAs, Save, Run
  <2>3. Survivors = {}
    BY <1>2, NoneLoose DEF Survivors, Chained, Chain
  <2>4. DOMAIN walkers' = {}
    BY <1>5, <2>3 DEF EndAs
  <2>5. ASSUME status = "success" PROVE Forking'
    <3>1. Forking
      BY <1>5, <2>1 DEF FirstRun, AllReported
    <3>2. \A p \in DOMAIN walkers : \A f : ~Pending(p, f)
      BY <1>2, <1>5, <2>5, NoneLoose, MainAbove DEF Pending, Awaits
    <3>3. \A f \in entered : FailedIn(f) \/ \A i \in Parts(f) : PartTried(f, i)
      BY <3>1, <3>2 DEF Forking, Met
    <3>4. /\ \A f : FailedIn(f) => FailedIn(f)'
          /\ \A f, i : Parts(f)' = Parts(f) /\ (PartTried(f, i) => PartTried(f, i)')
      BY <1>1, <2>2, MetGrows
    <3> QED BY <2>2, <2>4, <3>3, <3>4 DEF Forking, Met
  <2> QED BY <1>5, <2>1, <2>2, <2>5 DEF FirstRun
<1>6. CASE Finish \/ Timeout
  BY <1>5, <1>6 DEF Finish, Timeout
<1>7. CASE Unload \/ Crash
  BY <1>0, <1>7 DEF Unload, Crash
<1>8. CASE Quiet \/ UNCHANGED vars
  <2>1. UNCHANGED vars
    BY <1>8 DEF Quiet
  <2>2. FirstRun
    BY <1>2, <2>1 DEF Unstopped, vars
  <2> QED BY <2>1, <2>2 DEF vars, FirstRun, Forking, Met, Pending, Awaits, InHand, FailedIn, PartTried, First, List, Parts,
                 Step, Children, Sequential, Running
<1> QED BY <1>3, <1>4, <1>6, <1>7, <1>8 DEF Next, Progress

(* It holds in every behaviour. *)
LEMMA UnstoppedAlways == Spec => []Unstopped
<1>1. Init => Unstopped
  BY DEF Init, Unstopped, FirstRun, NoWalkers, NewRun, Running
<1> QED BY <1>1, ReportedAlways, FamiliesAlways, InitSound, UnstoppedStep, PTL DEF Spec

(* On any graph whose parallel steps are awaited and whose branches and loops *)
(* have something to do, a run that was not stopped is successful only if it  *)
(* tried every branch and every item of every fork it came to, or a failure   *)
(* cut the fork short.                                                        *)
THEOREM UnstoppedForksFinish == Spec => [](Awaited /\ Startable /\ stops = 0 => ForksFinish)
<1>1. AllReported /\ IInv /\ Chained /\ Unstopped => (Awaited /\ Startable /\ stops = 0 => ForksFinish)
  <2> SUFFICES ASSUME AllReported, IInv, Chained, FirstRun, Awaited, Startable, run.status = "success", NEW f \in entered
               PROVE  FailedIn(f) \/ \A i \in Parts(f) : PartTried(f, i)
    BY DEF ForksFinish, Unstopped, FailedIn, PartTried, First
  <2>1. Met(f)
    BY DEF FirstRun, Forking
  <2>2. \A p \in DOMAIN walkers : FALSE
    BY NoneLoose, MainAbove DEF AllReported
  <2> QED BY <2>1, <2>2 DEF Met
<1> QED BY <1>1, ReportedAlways, UnstoppedAlways, PTL

-----------------------------------------------------------------------------
(* Items: whose item the run holds.                                          *)

(* One loop at a time, and its items one after the other.                     *)
Looping(p) == walkers[p].pc = "join" /\ Step(walkers[p].at).kind = "foreach"
OneLoop == \A p, q \in DOMAIN walkers : Looping(p) /\ Looping(q) => p = q /\ Sequential(p)

(* Then the run holds the item of the iteration under way.                    *)
Items ==
    /\ \A q \in DOMAIN walkers : walkers[q].pc # "queued"
    /\ \A p \in DOMAIN walkers : Looping(p) => \A c \in Children(p) : run.item = Leaf(c)[2]
    /\ ItemIsOwn

(* A walker that only moves leaves the item of the run alone, and a call that *)
(* begins takes it.                                                           *)
LEMMA MoveTakesItem ==
    ASSUME IInv, NEW p \in DOMAIN walkers, Walk(p), ~Fork(p), ~NextItem(p), ~Join(p), walkers[p].pc # "queued"
    PROVE  run'.item = run.item /\ (walkers'[p].pc = "calling" => walkers'[p].item = run.item)
<1> DEFINE w == walkers[p]
           v == walkers'[p]
<1>1. w \in Walker /\ run \in Run
  BY DEF IInv, SharedType, AllSound, Sound
<1>2. \A u : Move(p, u) => v = u
  BY DEF Move
<1>3. \A s : Goto(p, s) => v.pc = "head"
  BY <1>1, <1>2 DEF Goto, Walker
<1>4. Throw(p) => v.pc = "raised"
  BY <1>1, <1>2 DEF Throw, Walker
<1>5. CASE Enter(p)
  <2> DEFINE u == [w EXCEPT !.pc = "dispatch", !.seen = @ \cup {w.at}, !.trail = @ \cup {w.at}]
  <2>1. u.pc = "dispatch" /\ [run EXCEPT !.cur = w.at].item = run.item
    BY <1>1 DEF Walker, Run
  <2>2. v = u /\ run' = [run EXCEPT !.cur = w.at]
    BY <1>2, <1>5 DEF Enter, Save
  <2> QED BY <2>1, <2>2
<1>6. CASE Leave(p)
  BY <1>1, <1>2, <1>6 DEF Leave, Walker
<1>7. CASE Break(p)
  BY <1>4, <1>7 DEF Break
<1>8. CASE SkipResumed(p)
  BY <1>3, <1>8 DEF SkipResumed
<1>9. CASE StartAction(p)
  BY <1>1, <1>2, <1>9 DEF StartAction, Save, Walker, Run
<1>10. CASE CallAction(p) \/ CallAI(p)
  BY <1>1, <1>2, <1>10 DEF CallAction, CallAI, Walker
<1>11. CASE CallSucceeds(p)
  BY <1>1, <1>3, <1>11 DEF CallSucceeds, Save, Recorded, Run
<1>12. CASE CallFails(p)
  BY <1>1, <1>3, <1>4, <1>12 DEF CallFails, FailTo, Save, Recorded, Run
<1>13. CASE Choose(p) \/ Compute(p)
  BY <1>3, <1>13 DEF Choose, Compute, Save
<1>14. CASE ComputeRaises(p) \/ Wait(p)
  BY <1>3, <1>4, <1>14 DEF ComputeRaises, Wait
<1>15. ~StartItem(p)
  BY DEF StartItem
<1> QED BY <1>5, <1>6, <1>7, <1>8, <1>9, <1>10, <1>11, <1>12, <1>13, <1>14, <1>15 DEF Walk

(* The loops around a walker are the one under way, so the item of the run is *)
(* that of the walker's iteration.                                            *)
LEMMA ItemAround ==
    ASSUME IInv, Chained, Awaited, Items, NEW q \in DOMAIN walkers, NEW k \in LoopsAround(q)
    PROVE  run.item = q[k][2]
<1> DEFINE p == Up(q, k - 1)
           c == Up(q, k)
<1>1. q \in Path /\ Len(q) \in Nat /\ k \in 1..Len(q) /\ Step(q[k][1]).kind = "foreach"
  BY DEF IInv, AllSound, Sound, Path, LoopsAround
<1>2. \A j \in 0..Len(q) - 1 : Awaits(Up(q, j), q[j + 1][1])
  BY NoneLoose DEF Chained, Chain
<1>3. k - 1 \in 0..Len(q) - 1 /\ k - 1 \in 0..Len(q) /\ k \in 0..Len(q) /\ (k - 1) + 1 = k /\ k \in Nat
  BY <1>1
<1>4. Awaits(p, q[k][1])
  BY <1>2, <1>3
<1>5. /\ p \in Path /\ Len(p) = k - 1 /\ \A j \in 1..k - 1 : p[j] = q[j]
      /\ c \in Path /\ Len(c) = k /\ \A j \in 1..k : c[j] = q[j]
      /\ k = Len(q) => c = q
  BY <1>1, <1>3, UpIs
<1>6. c \in DOMAIN walkers
  BY <1>1, <1>2, <1>3, <1>5 DEF Awaits
<1> HIDE DEF p, c
<1>7. Under(p, c) /\ Len(c) = Len(p) + 1 /\ Leaf(c) = q[k]
  BY <1>1, <1>3, <1>5 DEF Under, Leaf
<1>8. c \in Children(p)
  <2>1. c # Main /\ Parent(c) = p
    BY <1>5, <1>7, ChildIs
  <2> QED BY <1>4, <1>6, <1>7, <2>1 DEF Children, Awaits
<1>9. p \in DOMAIN walkers /\ Looping(p)
  BY <1>1, <1>4 DEF Awaits, Looping
<1> QED BY <1>7, <1>8, <1>9 DEF Items

(* A step in which no call begins. *)
LEMMA NoCallBegins ==
    ASSUME ItemIsOwn, wf' = wf,
           \A q \in DOMAIN walkers' : walkers'[q].pc = "calling" => q \in DOMAIN walkers /\ walkers'[q] = walkers[q]
    PROVE  ItemIsOwn'
<1>1. \A q : LoopsAround(q)' = LoopsAround(q)
  BY DEF LoopsAround, Step
<1> QED BY <1>1 DEF ItemIsOwn

(* A step of a walker leaves the run with the item of the loop under way.     *)
LEMMA WalkItems ==
    ASSUME IInv, Families, Chained, Awaited, OneLoop, OneLoop', Items, NEW p \in DOMAIN walkers, Walk(p)
    PROVE  Items'
<1> DEFINE w == walkers[p]
<1>0. /\ Lineage /\ p \in Path /\ wf \in Workflows /\ ItemIsOwn
      /\ \A b \in DOMAIN walkers : b \in Path
  BY DEF Families, IInv, SharedType, AllSound, Sound, Items
<1>1. CASE ~Fork(p) /\ ~NextItem(p) /\ ~Join(p)
  <2> DEFINE v == walkers'[p]
  <2>1. Move(p, v) /\ wf' = wf /\ v.pc \notin {"join", "queued"}
    BY <1>1, MoveShape
  <2>2. run'.item = run.item /\ (v.pc = "calling" => v.item = run.item)
    BY <1>1, MoveTakesItem DEF Items
  <2>3. /\ DOMAIN walkers' = DOMAIN walkers
        /\ \A a \in DOMAIN walkers : a # p => walkers'[a] = walkers[a]
    BY <2>1 DEF Move
  <2>4. ASSUME NEW a \in DOMAIN walkers, Looping(a)', NEW c \in Children(a)' PROVE run'.item = Leaf(c)[2]
    <3>1. walkers'[a] = walkers[a]
      BY <2>1, <2>3, <2>4 DEF Looping
    <3>2. Looping(a) /\ c \in Children(a)
      BY <2>1, <2>3, <2>4, <3>1 DEF Looping, Children, Step
    <3> QED BY <2>2, <3>2 DEF Items
  <2>5. ItemIsOwn'
    <3>1. \A q : LoopsAround(q)' = LoopsAround(q)
      BY <2>1 DEF LoopsAround, Step
    <3>2. v.pc = "calling" => \A k \in LoopsAround(p) : v.item = p[k][2]
      BY <2>2, ItemAround
    <3> QED BY <1>0, <2>3, <3>1, <3>2 DEF ItemIsOwn
  <2>6. \A q \in DOMAIN walkers' : walkers'[q].pc # "queued"
    BY <2>1, <2>3 DEF Items
  <2> QED BY <2>3, <2>4, <2>5, <2>6 DEF Items
<1>2. CASE Fork(p)
  <2>1. w.pc = "dispatch" /\ wf' = wf /\ w.pc \in AtStep
    BY <1>2, ForkShape DEF AtStep
  <2>2. PICK ids \in SUBSET Parts(w.at), pc \in {"head", "queued"}, bg \in BOOLEAN :
           \E v : ForkTo(p, v, ids, pc, bg)
    BY <1>2, ForkShape
  <2>3. PICK v : ForkTo(p, v, ids, pc, bg)
    BY <2>2
  <2> DEFINE ws == NewChildren(p, ids, pc, bg)
  <2>4. \A q \in DOMAIN ws : \E i \in ids :
           /\ i \in Nat \ {0} /\ q = Child(p, w.at, i)
           /\ ws[q].pc = pc /\ ws[q].bg = bg /\ ws[q].at = List(w.at, i)[1]
    BY <2>1, Born
  <2>5. w.at \in Steps /\ Children(p) = {}
    BY <1>0, <2>1, NoneBelow DEF IInv, AllSound, Sound
  <2>6. \A q \in DOMAIN ws : \E i \in ids :
           Leaf(q) = <<w.at, i>> /\ q # Main /\ Parent(q) = p /\ q # p /\ ws[q].pc = pc
    BY <1>0, <2>4, <2>5, ChildUnder
  <2>7. /\ Forked(p, v, ws, {})
        /\ \/ v.pc = "join" /\ v.at = w.at
           \/ v.pc = "head" /\ Detaches(w.at)
        /\ pc = IF Step(w.at).kind = "foreach" /\ Step(w.at).together THEN "queued" ELSE "head"
        /\ ids = IF Sequential(p) /\ Parts(w.at) # {} THEN {1} ELSE Parts(w.at)
        /\ run' = IF Sequential(p) /\ ids # {} THEN [run EXCEPT !.item = 1] ELSE run
    BY <2>3 DEF ForkTo
  <2> HIDE DEF ws
  <2>8. /\ DOMAIN walkers' = DOMAIN walkers \cup DOMAIN ws /\ walkers'[p] = v
        /\ \A q \in DOMAIN ws : walkers'[q] = ws[q]
        /\ \A q \in DOMAIN walkers' : q # p /\ q \notin DOMAIN ws => walkers'[q] = walkers[q]
    BY <2>6, <2>7 DEF Forked
  <2>9. Step(w.at).kind = "foreach" => v.pc = "join" /\ v.at = w.at /\ Looping(p)' /\ Sequential(p)
    <3> SUFFICES ASSUME Step(w.at).kind = "foreach"
                 PROVE  v.pc = "join" /\ v.at = w.at /\ Looping(p)' /\ Sequential(p)
      OBVIOUS
    <3>1. v.pc = "join" /\ v.at = w.at
      BY <2>7 DEF Detaches
    <3>2. Looping(p)'
      BY <2>1, <2>8, <3>1 DEF Looping, Step
    <3>3. Sequential(p)'
      BY <2>8, <3>2 DEF OneLoop
    <3> QED BY <2>1, <2>8, <3>1, <3>2, <3>3 DEF Sequential, Step
  <2>10. pc = "head"
    BY <2>7, <2>9 DEF Sequential
  <2>11. ASSUME NEW a \in DOMAIN walkers', Looping(a)', NEW c \in Children(a)' PROVE run'.item = Leaf(c)[2]
    <3>1. a \notin DOMAIN ws
      BY <2>6, <2>8, <2>10, <2>11 DEF Looping
    <3>2. CASE a = p
      <4>1. v.pc = "join" /\ v.at = w.at /\ Sequential(p)
        BY <2>1, <2>7, <2>8, <2>9, <2>11, <3>2 DEF Looping, Step
      <4>2. c \in DOMAIN ws
        BY <2>5, <2>8, <2>11, <3>2, <4>1 DEF Children
      <4>3. Leaf(c) = <<w.at, 1>> /\ ids # {}
        BY <2>6, <2>7, <4>1, <4>2
      <4> QED BY <2>7, <4>1, <4>3 DEF IInv, SharedType, Run
    <3>3. CASE a # p
      <4>1. a \in DOMAIN walkers /\ walkers'[a] = walkers[a] /\ Looping(a)
        BY <2>1, <2>8, <2>11, <3>1, <3>3 DEF Looping, Step
      <4>2. ~Sequential(p)
        BY <2>8, <2>9, <2>11, <3>3 DEF OneLoop, Sequential
      <4>3. c \in Children(a)
        BY <2>6, <2>8, <2>11, <3>3, <4>1 DEF Children
      <4> QED BY <2>7, <4>1, <4>2, <4>3 DEF Items
    <3> QED BY <3>2, <3>3
  <2>12. ItemIsOwn'
    BY <1>0, <2>1, <2>6, <2>7, <2>8, <2>10, NoCallBegins
  <2>13. \A q \in DOMAIN walkers' : walkers'[q].pc # "queued"
    BY <2>6, <2>7, <2>8, <2>10 DEF Items
  <2> QED BY <2>11, <2>12, <2>13 DEF Items
<1>3. CASE NextItem(p)
  <2>1. w.pc = "join" /\ w.at \in Steps /\ wf' = wf /\ w.pc \in AtStep /\ Sequential(p)
    BY <1>3, NextShape DEF AtStep
  <2>2. PICK c \in Children(p), i \in Parts(w.at) :
           /\ run' = [run EXCEPT !.item = i]
           /\ Forked(p, w, NewChildren(p, {i}, "head", w.bg), {c})
    BY <1>3, NextShape
  <2> DEFINE ids == {i}
             ws == NewChildren(p, ids, "head", w.bg)
  <2>3. ids \in SUBSET Parts(w.at)
    OBVIOUS
  <2>4. \A q \in DOMAIN ws : q = Child(p, w.at, i) /\ i \in Nat \ {0} /\ ws[q].pc = "head"
    <3>1. \A q \in DOMAIN ws : \E j \in ids :
             j \in Nat \ {0} /\ q = Child(p, w.at, j) /\ ws[q].pc = "head" /\ ws[q].bg = w.bg
      BY <2>1, <2>3, Born
    <3> QED BY <3>1
  <2>5. \A q \in DOMAIN ws : Leaf(q) = <<w.at, i>> /\ ws[q].pc = "head" /\ q # p
    <3>1. \A q \in DOMAIN ws : Leaf(q) = <<w.at, i>> /\ q # p
      BY <1>0, <2>1, <2>4, ChildUnder
    <3> QED BY <2>4, <3>1
  <2>6. \A d \in Children(p) : c = d
    BY <1>0, <2>1, OneChild
  <2>7. Forked(p, w, ws, {c}) /\ p # c
    <3>1. p # c
      <4>1. c # Main /\ Parent(c) = p /\ c \in Path
        BY <1>0 DEF Children
      <4>2. Len(c) = Len(p) + 1 /\ Len(p) \in Nat
        BY <1>0, <4>1, ChildIs DEF Path
      <4> QED BY <4>2
    <3> QED BY <2>2, <3>1
  <2> HIDE DEF ws, ids
  <2>8. /\ DOMAIN walkers' = (DOMAIN walkers \ {c}) \cup DOMAIN ws /\ walkers'[p] = w
        /\ \A q \in DOMAIN ws : walkers'[q] = ws[q]
        /\ \A q \in DOMAIN walkers' : q \notin DOMAIN ws => q \in DOMAIN walkers /\ walkers'[q] = walkers[q]
    BY <2>5, <2>7 DEF Forked
  <2>9. ASSUME NEW a \in DOMAIN walkers', Looping(a)', NEW d \in Children(a)' PROVE run'.item = Leaf(d)[2]
    <3>1. a \in DOMAIN walkers /\ Looping(a)
      BY <2>1, <2>5, <2>8, <2>9 DEF Looping, Step
    <3>2. a = p
      BY <2>1, <3>1 DEF OneLoop, Looping, Sequential
    <3>3. d \in DOMAIN ws
      BY <2>6, <2>8, <2>9, <3>2 DEF Children
    <3> QED BY <2>2, <2>5, <3>3 DEF IInv, SharedType, Run
  <2>10. ItemIsOwn'
    BY <1>0, <2>1, <2>5, <2>8, NoCallBegins
  <2>11. \A q \in DOMAIN walkers' : walkers'[q].pc # "queued"
    BY <2>5, <2>8 DEF Items
  <2> QED BY <2>9, <2>10, <2>11 DEF Items
<1>4. CASE Join(p)
  <2>1. w.pc = "join" /\ wf' = wf /\ (Step(w.at).kind # "foreach" => run' = run)
    BY <1>4, JoinShape
  <2>2. PICK v : Forked(p, v, NoWalkers, Children(p)) /\ v.pc \in {"raised", "head"}
    BY <1>4, JoinShape
  <2>3. /\ DOMAIN walkers' \subseteq DOMAIN walkers
        /\ \A q \in DOMAIN walkers' : walkers'[q] = IF q = p THEN v ELSE walkers[q]
    BY <2>2 DEF Forked, NoWalkers
  <2>4. ASSUME NEW a \in DOMAIN walkers', Looping(a)', NEW d \in Children(a)' PROVE run'.item = Leaf(d)[2]
    <3>1. a # p /\ a \in DOMAIN walkers /\ walkers'[a] = walkers[a]
      BY <2>2, <2>3, <2>4 DEF Looping
    <3>2. Looping(a) /\ d \in Children(a)
      BY <2>1, <2>3, <2>4, <3>1 DEF Looping, Children, Step
    <3>3. run' = run
      BY <2>1, <3>1, <3>2 DEF OneLoop, Looping
    <3> QED BY <3>1, <3>2, <3>3 DEF Items
  <2>5. ItemIsOwn'
    BY <1>0, <2>1, <2>2, <2>3, NoCallBegins
  <2>6. \A q \in DOMAIN walkers' : walkers'[q].pc # "queued"
    BY <2>2, <2>3 DEF Items
  <2> QED BY <2>4, <2>5, <2>6 DEF Items
<1> QED BY <1>1, <1>2, <1>3, <1>4

(* So does every step. *)
LEMMA ItemsStep ==
    IInv /\ Families /\ Chained /\ Awaited /\ OneLoop /\ OneLoop' /\ Items /\ [Next]_vars => Items'
<1> SUFFICES ASSUME IInv, Families, Chained, Awaited, OneLoop, OneLoop', Items, [Next]_vars PROVE Items'
  OBVIOUS
<1>1. CASE Begin
  <2>1. DOMAIN walkers' = {Main} /\ walkers'[Main].pc = "head"
    BY <1>1 DEF Begin
  <2> QED BY <2>1 DEF Items, Looping, ItemIsOwn
<1>2. ASSUME NEW p \in DOMAIN walkers, Walk(p) PROVE Items'
  BY <1>2, WalkItems
<1>3. CASE Finish \/ Timeout \/ Unload \/ Crash
  <2>1. Survivors = {}
    BY NoneLoose DEF Survivors, Chained, Chain
  <2>2. DOMAIN walkers' = {}
    BY <1>3, <2>1 DEF Finish, Timeout, Unload, EndAs, Crash, NoWalkers
  <2> QED BY <2>2 DEF Items, ItemIsOwn
<1>4. CASE Quiet \/ UNCHANGED vars
  <2>1. UNCHANGED vars
    BY <1>4 DEF Quiet
  <2> QED BY <2>1 DEF vars, Items, Looping, ItemIsOwn, LoopsAround, Children, Step
<1> QED BY <1>1, <1>2, <1>3, <1>4 DEF Next, Progress

(* On any graph whose parallel steps are awaited, and as long as loops neither *)
(* nest nor overlap nor run their items in parallel, every call gets the item  *)
(* of its own iteration.                                                       *)
THEOREM OneLoopKeepsItsItem == Spec => ([](Awaited /\ OneLoop) => []ItemIsOwn)
<1>1. Init => Items
  BY DEF Init, Items, NoWalkers, ItemIsOwn
<1>2. Items => ItemIsOwn
  BY DEF Items
<1> QED BY <1>1, <1>2, ReportedAlways, ItemsStep, PTL DEF Spec

(* A definition without parallel steps and with one loop, a sequential one.   *)
SingleLoop ==
    /\ \A s \in Steps : Step(s).kind # "parallel"
    /\ \A s, t \in Steps : Step(s).kind = "foreach" /\ Step(t).kind = "foreach" => s = t /\ ~Step(s).together

(* Only the main walker ever waits for its loop. *)
LEMMA SingleIsOne ==
    ASSUME IInv, Chained, SingleLoop
    PROVE  Awaited /\ OneLoop
<1>1. Awaited
  BY DEF SingleLoop, Awaited
<1>2. ASSUME NEW p \in DOMAIN walkers, Looping(p) PROVE p = Main /\ Sequential(p)
  <2>1. p \in Path /\ walkers[p].at \in Steps /\ \A k \in 1..Len(p) : p[k][1] # walkers[p].at
    BY <1>2 DEF IInv, AllSound, Sound, AtStep, Looping
  <2>2. ASSUME p # Main PROVE FALSE
    <3>1. 0 \in 0..Len(p) - 1 /\ 1 \in 1..Len(p) /\ 0 + 1 = 1
      BY <2>1, <2>2 DEF Path, Main
    <3>2. Awaits(Up(p, 0), p[1][1])
      BY <1>1, <3>1, NoneLoose DEF Chained, Chain
    <3>3. p[1][1] \in Steps /\ Step(p[1][1]).kind = "foreach"
      BY <3>2 DEF Awaits, Chained, Chain, IInv, AllSound, Sound, AtStep, SingleLoop
    <3> QED BY <1>2, <2>1, <3>1, <3>3 DEF Looping, SingleLoop
  <2> QED BY <1>2, <2>1, <2>2 DEF Looping, Sequential, SingleLoop
<1> QED BY <1>1, <1>2 DEF OneLoop

(* On a definition with one loop, a sequential one, and no parallel steps,    *)
(* every call in the loop gets the item of its own iteration, in the first    *)
(* execution and in those that follow a crash.                                *)
THEOREM SingleLoopKeepsItsItem == Spec => [](SingleLoop => ItemIsOwn)
<1>1. Init => Items
  BY DEF Init, Items, NoWalkers, ItemIsOwn
<1>2. /\ IInv /\ Families /\ Chained /\ AllReported /\ (IInv /\ Families /\ Chained)'
      /\ (SingleLoop => Items) /\ [Next]_vars
      => (SingleLoop => Items)'
  <2> SUFFICES ASSUME IInv, Families, Chained, (IInv /\ Chained)', SingleLoop => Items, [Next]_vars, SingleLoop'
               PROVE  Items'
    OBVIOUS
  <2>1. SingleLoop
    BY SameDefinition DEF SingleLoop, Step
  <2>2. Awaited /\ OneLoop
    BY <2>1, SingleIsOne
  <2>3. OneLoop'
    <3>1. IInv' /\ Chained' /\ SingleLoop' => OneLoop'
      BY SingleIsOne, PTL
    <3> QED BY <3>1
  <2> QED BY <2>1, <2>2, <2>3, ItemsStep
<1>3. (SingleLoop => Items) => (SingleLoop => ItemIsOwn)
  BY DEF Items
<1> QED BY <1>1, <1>2, <1>3, ReportedAlways, PTL DEF Spec

=============================================================================

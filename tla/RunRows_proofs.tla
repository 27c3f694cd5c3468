--------------------------- MODULE RunRows_proofs ---------------------------
(* Proofs about RunRows, for any set of steps and under any bounds.          *)
EXTENDS RunRows, FiniteSetTheorems, TLAPS

-----------------------------------------------------------------------------
(* Types.                                                                    *)

LEMMA MainWalks == Main \in Walkers /\ Steps \subseteq Walkers
BY DEF Walkers

LEMMA RunFields ==
    ASSUME NEW r \in Run
    PROVE  r.status \in Status /\ r.context \in SUBSET Steps /\ r.step \in [Steps -> StepStatus]
BY DEF Run

LEMMA NewRunType == NewRun \in Run
BY DEF NewRun, Run, Status, StepStatus

LEMMA PutFields ==
    ASSUME NEW p \in Put
    PROVE  p.kind \in {"none", "insert", "update", "gone"} /\ p.by \in Walkers /\ p.status \in StepStatus
BY DEF Put

LEMMA NoPutType == NoPut \in Put /\ NoPut.kind = "none"
BY MainWalks DEF NoPut, Put, StepStatus

LEMMA SaveFields ==
    ASSUME NEW x \in Save
    PROVE  /\ x.pc \in {"none", "begin", "wait", "look"} /\ x.base \in Row \cup {NoRow} /\ x.versioned \in BOOLEAN
           /\ x.status \in Status /\ x.context \in SUBSET Steps
           /\ x.todo \in SUBSET Steps /\ x.puts \in [Steps -> Put]
BY DEF Save

(* A save that has not begun, or has just been called, prepares nothing. *)
FreshSave == [NoSave EXCEPT !.pc = "begin"]

LEMMA NoSaveType ==
    /\ NoSave \in Save /\ FreshSave \in Save
    /\ NoSave.pc = "none" /\ NoSave.base = NoRow /\ \A s \in Steps : NoSave.puts[s] = NoPut
    /\ FreshSave.pc = "begin" /\ FreshSave.base = NoRow /\ \A s \in Steps : FreshSave.puts[s] = NoPut
<1> DEFINE none == [s \in Steps |-> NoPut]
<1>1. none \in [Steps -> Put] /\ \A s \in Steps : none[s] = NoPut
  BY NoPutType
<1> HIDE DEF none
<1>2. NoSave = [pc |-> "none", base |-> NoRow, versioned |-> FALSE, status |-> "pending",
                context |-> {}, todo |-> {}, puts |-> none]
  BY DEF NoSave, none
<1>3. NoSave \in Save
  BY <1>1, <1>2 DEF Save, Status
<1>4. FreshSave \in Save /\ FreshSave.pc = "begin" /\ FreshSave.base = NoSave.base /\ FreshSave.puts = NoSave.puts
  BY <1>3 DEF FreshSave, Save
<1> QED BY <1>1, <1>2, <1>3, <1>4

LEMMA NoSavesType == NoSaves \in [Walkers -> Save] /\ \A w \in Walkers : NoSaves[w] = NoSave
BY NoSaveType DEF NoSaves

LEMMA RowFields ==
    ASSUME NEW r \in Row
    PROVE  r # NoRow /\ r.status \in Status /\ r.context \in SUBSET Steps /\ r.versioned \in BOOLEAN
<1>1. r.status \in Status /\ r.context \in SUBSET Steps /\ r.versioned \in BOOLEAN
  BY DEF Row
<1>2. NoRow.status \notin Status
  BY DEF NoRow, Status
<1> QED BY <1>1, <1>2

LEMMA NoRowFields == NoRow.status = "none" /\ NoRow.context = {} /\ NoRow.versioned = FALSE
BY DEF NoRow

LEMMA AsleepType ==
    /\ Asleep \in [Walkers -> WalkerPc]
    /\ \A pc \in WalkerPc : [Asleep EXCEPT ![Main] = pc] \in [Walkers -> WalkerPc]
    /\ \A w \in Walkers : Asleep[w] = IF w = Main THEN "new" ELSE "off"
BY MainWalks DEF Asleep, WalkerPc

LEMMA NoRowsType ==
    NoRows \in [Steps -> [Walkers -> StepStatus]] /\ \A s \in Steps, w \in Walkers : NoRows[s][w] = "none"
BY DEF NoRows, StepStatus

-----------------------------------------------------------------------------
(* What the parts of a save do.                                              *)

(* A row to insert when there is none, else one of those there are to change. *)
LEMMA PutShape ==
    ASSUME TypeOK, NEW w \in Walkers, NEW s \in Steps
    PROVE  /\ PutOf(w, s) \in Put
           /\ RowsOf(s) = {} => PutOf(w, s).kind = "insert" /\ PutOf(w, s).by = w
           /\ RowsOf(s) # {} /\ PutOf(w, s).kind # "none" =>
                 PutOf(w, s).kind = "update" /\ PutOf(w, s).by \in RowsOf(s)
           /\ PutOf(w, s).kind # "none" => PutOf(w, s).status = run.step[s]
<1>1. run.step[s] \in StepStatus
  BY RunFields DEF TypeOK
<1>2. CASE RowsOf(s) = {}
  BY <1>1, <1>2 DEF PutOf, Put
<1>3. CASE RowsOf(s) # {}
  <2> DEFINE old == CHOOSE v \in Walkers : v \in RowsOf(s)
  <2>1. old \in Walkers /\ old \in RowsOf(s)
    BY <1>3 DEF RowsOf
  <2>2. PutOf(w, s) = IF rows[s][old] = run.step[s] THEN NoPut
                      ELSE [kind |-> "update", by |-> old, status |-> run.step[s]]
    BY <1>3 DEF PutOf
  <2> HIDE DEF old
  <2>3. CASE rows[s][old] = run.step[s]
    BY <1>3, <2>2, <2>3, NoPutType
  <2>4. CASE rows[s][old] # run.step[s]
    <3>1. PutOf(w, s) = [kind |-> "update", by |-> old, status |-> run.step[s]]
      BY <2>2, <2>4
    <3> QED BY <1>1, <1>3, <2>1, <3>1 DEF Put
  <2> QED BY <2>3, <2>4
<1> QED BY <1>2, <1>3

(* One turn of the loop over the steps that does not raise, *)
Looked(w, s) ==
    /\ save[w].pc = "look" /\ ~Doubled(s)
    /\ save' = [save EXCEPT ![w].todo = @ \ {s}, ![w].puts[s] = PutOf(w, s)]
    /\ UNCHANGED <<row, rows, run, walker, overlapped, storeFrame>>

(* a save that raises, *)
Raised(w) ==
    /\ save[w].pc = "look" /\ Raise(w) /\ (Refused(w) \/ \E s \in Steps : Doubled(s))
    /\ UNCHANGED <<row, rows, overlapped, storeFrame>>

(* and one that commits. *)
Committed(w) ==
    /\ save[w].pc = "look" /\ save[w].todo = {} /\ ~Refused(w)
    /\ row' = Written(w) /\ rows' = WrittenSteps(w)
    /\ save' = [save EXCEPT ![w] = NoSave]
    /\ UNCHANGED <<run, walker, overlapped, storeFrame>>

(* A look prepares one step and leaves the rest. *)
LEMMA LookedShape ==
    ASSUME TypeOK, NEW w \in Walkers, NEW s \in Steps, Looked(w, s)
    PROVE  /\ save' \in [Walkers -> Save] /\ save'[w].pc = "look" /\ save'[w].base = save[w].base
           /\ save'[w].versioned = save[w].versioned /\ save'[w].status = save[w].status
           /\ save'[w].context = save[w].context /\ save'[w].todo = save[w].todo \ {s}
           /\ save'[w].puts[s] = PutOf(w, s)
           /\ \A t \in Steps : t # s => save'[w].puts[t] = save[w].puts[t]
           /\ \A v \in Walkers : v # w => save'[v] = save[v]
<1> DEFINE x == save[w]
           y == [x EXCEPT !.todo = @ \ {s}, !.puts[s] = PutOf(w, s)]
<1>1. x \in Save /\ save \in [Walkers -> Save] /\ PutOf(w, s) \in Put /\ x.pc = "look"
  BY PutShape DEF TypeOK, Looked
<1>2. save' = [save EXCEPT ![w] = y]
  BY <1>1 DEF Looked
<1> HIDE DEF x
<1>3. /\ y.pc = x.pc /\ y.base = x.base /\ y.versioned = x.versioned /\ y.status = x.status
      /\ y.context = x.context /\ y.todo = x.todo \ {s} /\ y.puts = [x.puts EXCEPT ![s] = PutOf(w, s)] /\ y \in Save
  BY <1>1 DEF Save
<1>4. x.puts \in [Steps -> Put]
  BY <1>1, SaveFields
<1> HIDE DEF y
<1> QED BY <1>1, <1>2, <1>3, <1>4 DEF x

(* An exception ends the save, or begins that of FAILED. *)
LEMMA RaisedShape ==
    ASSUME TypeOK, NEW w \in Walkers, Raised(w)
    PROVE  /\ save' = [save EXCEPT ![w] = NoSave] \/ save' = [save EXCEPT ![w] = FreshSave]
           /\ save' \in [Walkers -> Save]
           /\ \E pc \in {"failing", "lost", "raised"} : walker' = [walker EXCEPT ![w] = pc]
           /\ run' \in Run /\ run'.context = run.context /\ run'.step = run.step
<1>1. run \in Run /\ save \in [Walkers -> Save]
  BY DEF TypeOK
<1>2. CASE walker[w] = "ending"
  <2>1. /\ run' = [run EXCEPT !.status = "failed"] /\ walker' = [walker EXCEPT ![w] = "failing"]
        /\ save' = [save EXCEPT ![w] = FreshSave]
    BY <1>2 DEF Raised, Raise, FreshSave
  <2>2. run' \in Run /\ run'.context = run.context /\ run'.step = run.step
    BY <1>1, <2>1 DEF Run, Status
  <2> QED BY <1>1, <2>1, <2>2, NoSaveType
<1>3. CASE walker[w] # "ending"
  BY <1>1, <1>3, NoSaveType DEF Raised, Raise
<1> QED BY <1>2, <1>3

(* The step rows after a commit: those there were, and what was prepared. *)
LEMMA WrittenShape ==
    ASSUME TypeOK, NEW w \in Walkers
    PROVE  /\ WrittenSteps(w) \in [Steps -> [Walkers -> StepStatus]]
           /\ \A s \in Steps, v \in Walkers :
                 \/ WrittenSteps(w)[s][v] = rows[s][v]
                 \/ /\ save[w].puts[s].kind \in {"insert", "update"} /\ save[w].puts[s].by = v
                    /\ WrittenSteps(w)[s][v] = save[w].puts[s].status
<1> DEFINE put(s) == save[w].puts[s]
           f(s) == IF put(s).kind \in {"insert", "update"}
                   THEN [rows[s] EXCEPT ![put(s).by] = put(s).status] ELSE rows[s]
<1>1. ASSUME NEW s \in Steps PROVE put(s) \in Put
  <2>1. save[w] \in Save
    BY DEF TypeOK
  <2> QED BY <2>1, SaveFields
<1>2. WrittenSteps(w) = [s \in Steps |-> f(s)]
  BY DEF WrittenSteps
<1> HIDE DEF put
<1>3. ASSUME NEW s \in Steps
      PROVE  /\ f(s) \in [Walkers -> StepStatus]
             /\ \A v \in Walkers :
                  \/ f(s)[v] = rows[s][v]
                  \/ put(s).kind \in {"insert", "update"} /\ put(s).by = v /\ f(s)[v] = put(s).status
  <2>1. rows[s] \in [Walkers -> StepStatus] /\ put(s).by \in Walkers /\ put(s).status \in StepStatus
    BY <1>1, PutFields DEF TypeOK
  <2> QED BY <2>1
<1> HIDE DEF f
<1>4. \A s \in Steps : WrittenSteps(w)[s] = f(s)
  BY <1>2
<1>5. WrittenSteps(w) \in [Steps -> [Walkers -> StepStatus]]
  BY <1>2, <1>3
<1> QED BY <1>3, <1>4, <1>5 DEF put

-----------------------------------------------------------------------------
(* The steps of the component, sorted by what they do to a save.             *)

(* A run that has not started has nothing, and one that has not forked no    *)
(* branches; a branch that may turn to its step has a round left.            *)
Phase ==
    /\ walker[Main] = "new" => run = NewRun /\ save[Main] = NoSave
    /\ walker[Main] \in {"new", "created", "started"} =>
          \A b \in Steps : walker[b] = "off" /\ rounds[b] = 0 /\ save[b] = NoSave
    /\ \A b \in Steps : walker[b] \in {"head", "entered", "calling", "answered"} => rounds[b] < MaxRounds

(* A walker that changes the run and calls save_run.                         *)
Turn(w, r, pc) ==
    /\ ~Saving(w) /\ Saves(w, r, pc)
    /\ r \in Run /\ pc \in WalkerPc \ {"new"}
    /\ deployed' = deployed /\ UNCHANGED stops /\ resumed' \subseteq Steps

(* The turns of a branch: all its steps but the answer of the plugin. *)
BranchTurn(b) == Head(b) \/ StartStep(b) \/ Settle(b)

(* Turns of the main walker and of the branches. *)
LEMMA Turns ==
    ASSUME TypeOK, Phase, Create \/ Execute \/ Join \/ \E b \in Steps : BranchTurn(b)
    PROVE  \E w \in Walkers, r \in Run, pc \in WalkerPc :
             /\ Turn(w, r, pc)
             /\ \/ /\ w = Main /\ UNCHANGED rounds
                   /\ walker[Main] \in {"new", "created"} \/ pc \in {"failing", "ending"}
                \/ /\ w \in Steps /\ walker[w] # "off" /\ rounds' \in [Steps -> 0..MaxRounds]
                   /\ \A b \in Steps \ {w} : rounds'[b] = rounds[b]
                   /\ pc \in {"head", "entered", "calling", "answered"} => rounds'[w] < MaxRounds
<1> USE MainWalks
<1>0. run \in Run /\ resumed \subseteq Steps
  BY DEF TypeOK
<1>1. CASE Create
  <2>1. /\ Turn(Main, NewRun, "created") /\ UNCHANGED rounds
        /\ walker[Main] \in {"new", "created"}
    BY <1>0, <1>1, NewRunType DEF Create, At, Turn, Phase, storeFrame, WalkerPc, NewRun
  <2> QED BY <2>1, NewRunType DEF WalkerPc
<1>2. CASE Execute
  <2> DEFINE r == [run EXCEPT !.status = "running"]
  <2>1. r \in Run /\ r.context = run.context /\ r.step = run.step
    BY <1>0 DEF Run, Status
  <2>2. /\ ~Saving(Main) /\ Saves(Main, r, "started") /\ UNCHANGED <<deployed, rounds, stops>>
        /\ resumed' \subseteq Steps /\ walker[Main] = "created"
    BY <1>2 DEF Execute, At
  <2> HIDE DEF r
  <2>3. Turn(Main, r, "started")
    BY <2>1, <2>2 DEF Turn, WalkerPc
  <2> QED BY <2>1, <2>2, <2>3 DEF WalkerPc
<1>3. CASE Join
  <2>1. PICK st \in {"failed", "success"}, pc \in {"failing", "ending"} :
          Saves(Main, [run EXCEPT !.status = st], pc)
    BY <1>3 DEF Join
  <2> DEFINE r == [run EXCEPT !.status = st]
  <2>2. r \in Run /\ r.context = run.context /\ r.step = run.step
    BY <1>0 DEF Run, Status
  <2>3. ~Saving(Main) /\ UNCHANGED storeFrame /\ Saves(Main, r, pc)
    BY <1>3, <2>1 DEF Join, At
  <2> HIDE DEF r
  <2>4. Turn(Main, r, pc) /\ UNCHANGED rounds
    BY <1>0, <2>2, <2>3 DEF Turn, WalkerPc, storeFrame
  <2> QED BY <2>2, <2>4 DEF WalkerPc
<1>4. ASSUME NEW b \in Steps, BranchTurn(b)
      PROVE  \E r \in Run, pc \in WalkerPc :
               /\ Turn(b, r, pc)
               /\ walker[b] # "off" /\ rounds' \in [Steps -> 0..MaxRounds]
               /\ \A c \in Steps \ {b} : rounds'[c] = rounds[c]
               /\ pc \in {"head", "entered", "calling", "answered"} => rounds'[b] < MaxRounds
  <2>0. rounds \in [Steps -> 0..MaxRounds] /\ MaxRounds \in Nat /\ b \in Walkers
    BY BoundsAssumption DEF TypeOK
  <2>1. CASE Head(b)
    <3>1. PICK pc \in {"over", "entered"} : Saves(b, run, pc) /\ walker[b] = "head" /\ ~Saving(b) /\ UNCHANGED storeFrame
      BY <2>1 DEF Head, At
    <3>2. Turn(b, run, pc) /\ UNCHANGED rounds /\ rounds[b] < MaxRounds
      BY <1>0, <3>1 DEF Turn, storeFrame, WalkerPc, Phase
    <3> QED BY <1>0, <2>0, <3>1, <3>2 DEF WalkerPc
  <2>2. CASE StartStep(b)
    <3> DEFINE r == [run EXCEPT !.step[b] = "running"]
    <3>1. r \in Run /\ r.context = run.context /\ r.step = [run.step EXCEPT ![b] = "running"]
      BY <1>0 DEF Run, StepStatus
    <3>2. Saves(b, r, "calling") /\ walker[b] = "entered" /\ ~Saving(b) /\ UNCHANGED storeFrame
      BY <2>2 DEF StartStep, At
    <3> HIDE DEF r
    <3>3. Turn(b, r, "calling") /\ UNCHANGED rounds /\ rounds[b] < MaxRounds
      BY <1>0, <3>1, <3>2 DEF Turn, storeFrame, WalkerPc, Phase
    <3> QED BY <2>0, <3>1, <3>2, <3>3 DEF WalkerPc
  <2>3. CASE At(b, "answered") /\ Settle(b)
    <3>1. PICK pc \in IF rounds[b] + 1 < MaxRounds THEN {"head", "over"} ELSE {"over"} : Saves(b, run, pc)
      BY <2>3 DEF Settle, At
    <3>2. /\ walker[b] = "answered" /\ ~Saving(b) /\ UNCHANGED <<deployed, resumed, stops>>
          /\ rounds' = [rounds EXCEPT ![b] = @ + 1]
      BY <2>3 DEF Settle, At
    <3>3. pc \in WalkerPc \ {"new"}
      BY <3>1 DEF WalkerPc
    <3>4. Turn(b, run, pc)
      BY <1>0, <3>1, <3>2, <3>3 DEF Turn
    <3>5. rounds[b] < MaxRounds
      BY <3>2 DEF Phase
    <3>6. rounds' \in [Steps -> 0..MaxRounds] /\ (\A c \in Steps \ {b} : rounds'[c] = rounds[c])
      BY <2>0, <3>2, <3>5
    <3>7. pc \in {"head", "entered", "calling", "answered"} => rounds'[b] < MaxRounds
      BY <2>0, <3>1, <3>2
    <3>8. pc # "answered"
      BY <3>1
    <3> QED BY <1>0, <3>2, <3>3, <3>4, <3>6, <3>7, <3>8
  <2>4. CASE At(b, "refused") /\ Settle(b)
    <3>1. Saves(b, run, "raised") /\ walker[b] = "refused" /\ ~Saving(b) /\ UNCHANGED storeFrame
      BY <2>4 DEF Settle, At
    <3>2. Turn(b, run, "raised") /\ UNCHANGED rounds
      BY <1>0, <3>1 DEF Turn, storeFrame, WalkerPc
    <3> QED BY <1>0, <2>0, <3>1, <3>2 DEF WalkerPc
  <2> QED BY <1>4, <2>1, <2>2, <2>3, <2>4 DEF BranchTurn, Settle
<1>5. CASE \E b \in Steps : BranchTurn(b)
  BY <1>4, <1>5
<1> QED BY <1>1, <1>2, <1>3, <1>5

(* What a turn does to the saves. *)
LEMMA TurnShape ==
    ASSUME TypeOK, NEW w \in Walkers, NEW r, NEW pc, Turn(w, r, pc)
    PROVE  /\ save' = [save EXCEPT ![w] = FreshSave] /\ save' \in [Walkers -> Save]
           /\ walker' = [walker EXCEPT ![w] = pc] /\ run' = r /\ UNCHANGED <<row, rows>>
           /\ overlapped' = (overlapped \/ \E v \in Walkers \ {w} : Saving(v))
BY NoSaveType DEF Turn, Saves, FreshSave, TypeOK

(* Every step is one of these. *)
LEMMA Kinds ==
    ASSUME TypeOK, Phase, [Next]_vars
    PROVE  \/ \E w \in Walkers : Begin(w) \/ Take(w) \/ Raised(w) \/ Committed(w) \/ \E s \in Steps : Looked(w, s)
           \/ Create \/ Execute \/ Join \/ \E b \in Steps : BranchTurn(b)
           \/ \E b \in Steps, st \in {"success", "failed"} : Answer(b, st)
           \/ Fork \/ End \/ Delete \/ Restart
           \/ UNCHANGED vars
<1>1. ASSUME NEW w \in Walkers, Look(w)
      PROVE  Raised(w) \/ \E s \in Steps : Looked(w, s)
  <2>1. save[w].todo \subseteq Steps
    <3>1. save[w] \in Save
      BY DEF TypeOK
    <3> QED BY <3>1, SaveFields
  <2> QED BY <1>1, <2>1 DEF Look, Raised, Looked
<1>2. ASSUME NEW w \in Walkers, Commit(w)
      PROVE  Raised(w) \/ Committed(w)
  BY <1>2 DEF Commit, Raised, Committed
<1> QED BY <1>1, <1>2 DEF Next, Store, Branch, BranchTurn, Rest

(* The save that begins takes down the row and the run. *)
LEMMA BeginShape ==
    ASSUME TypeOK, NEW w \in Walkers, Begin(w)
    PROVE  /\ save' \in [Walkers -> Save] /\ save'[w].pc \in {"wait", "look"} /\ save'[w].base = row
           /\ save'[w].versioned = deployed /\ save'[w].status = run.status /\ save'[w].context = run.context
           /\ save'[w].todo = {s \in Steps : run.step[s] # "none"}
           /\ \A s \in Steps : save'[w].puts[s].kind = "none"
           /\ \A v \in Walkers : v # w => save'[v] = save[v]
<1> DEFINE todo == {s \in Steps : run.step[s] # "none"}
           x == [NoSave EXCEPT !.pc = "look", !.base = row, !.versioned = deployed,
                               !.status = run.status, !.context = run.context, !.todo = todo]
           y == IF Changes(x) THEN [x EXCEPT !.pc = "wait"] ELSE x
<1>1. /\ run.status \in Status /\ run.context \in SUBSET Steps
      /\ row \in Row \cup {NoRow} /\ deployed \in BOOLEAN /\ todo \in SUBSET Steps
  BY RunFields DEF TypeOK
<1>2. save' = [save EXCEPT ![w] = y] /\ save \in [Walkers -> Save]
  BY DEF Begin, TypeOK
<1> HIDE DEF todo
<1>3. /\ x \in Save /\ x.pc = "look" /\ x.base = row /\ x.puts = NoSave.puts
      /\ x.versioned = deployed /\ x.status = run.status /\ x.context = run.context /\ x.todo = todo
  BY <1>1, NoSaveType DEF Save
<1> HIDE DEF x
<1>4. \A s \in Steps : x.puts[s].kind = "none"
  BY <1>3, NoSaveType, NoPutType
<1>5. /\ [x EXCEPT !.pc = "wait"] \in Save /\ [x EXCEPT !.pc = "wait"].pc = "wait"
      /\ LET z == [x EXCEPT !.pc = "wait"] IN
         /\ z.base = x.base /\ z.puts = x.puts /\ z.versioned = x.versioned
         /\ z.status = x.status /\ z.context = x.context /\ z.todo = x.todo
  BY <1>3 DEF Save
<1>6. /\ y \in Save /\ y.pc \in {"wait", "look"} /\ y.base = row /\ y.puts = x.puts
      /\ y.versioned = deployed /\ y.status = run.status /\ y.context = run.context /\ y.todo = todo
  <2>1. y = x \/ y = [x EXCEPT !.pc = "wait"]
    OBVIOUS
  <2> HIDE DEF y
  <2> QED BY <1>3, <1>5, <2>1
<1> HIDE DEF y
<1> QED BY <1>2, <1>4, <1>6 DEF todo

(* The save that has waited for the row goes on. *)
LEMMA TakeShape ==
    ASSUME TypeOK, NEW w \in Walkers, Take(w)
    PROVE  /\ save' \in [Walkers -> Save] /\ save[w].pc = "wait" /\ save'[w].pc = "look"
           /\ \A v \in Walkers : v # w => save'[v] = save[v]
           /\ \A v \in Walkers :
                 /\ save'[v].base = save[v].base /\ save'[v].versioned = save[v].versioned
                 /\ save'[v].status = save[v].status /\ save'[v].context = save[v].context
                 /\ save'[v].todo = save[v].todo /\ save'[v].puts = save[v].puts
<1> DEFINE x == save[w]
           y == [x EXCEPT !.pc = "look"]
<1>1. x \in Save /\ save \in [Walkers -> Save] /\ x.pc = "wait" /\ save' = [save EXCEPT ![w] = y]
  BY DEF TypeOK, Take
<1> HIDE DEF x
<1>2. /\ y \in Save /\ y.pc = "look" /\ y.base = x.base /\ y.versioned = x.versioned /\ y.status = x.status
      /\ y.context = x.context /\ y.todo = x.todo /\ y.puts = x.puts
  BY <1>1 DEF Save
<1> HIDE DEF y
<1> QED BY <1>1, <1>2 DEF x

(* The answer of the plugin changes the run and no save. *)
LEMMA AnswerShape ==
    ASSUME TypeOK, NEW b \in Steps, NEW st \in {"success", "failed"}, Answer(b, st)
    PROVE  /\ run' \in Run /\ run'.status = run.status /\ run'.step = [run.step EXCEPT ![b] = st]
           /\ run.context \subseteq run'.context /\ (st = "success" => b \in run'.context)
           /\ walker[b] = "calling" /\ ~Saving(b)
           /\ walker' = [walker EXCEPT ![b] = IF st = "success" THEN "answered" ELSE "refused"]
           /\ walker' \in [Walkers -> WalkerPc]
           /\ UNCHANGED <<row, rows, save, overlapped, deployed, resumed, rounds, stops>>
<1> DEFINE co == IF st = "success" THEN run.context \cup {b} ELSE run.context
<1>1. run \in Run /\ run.context \in SUBSET Steps /\ run.step \in [Steps -> StepStatus]
  BY RunFields DEF TypeOK
<1>2. run' = [run EXCEPT !.step[b] = st, !.context = co] /\ co \in SUBSET Steps
  BY <1>1 DEF Answer
<1>3. run.context \subseteq co /\ (st = "success" => b \in co) /\ [run.step EXCEPT ![b] = st] \in [Steps -> StepStatus]
  BY <1>1 DEF StepStatus
<1> HIDE DEF co
<1>4. run' \in Run /\ run'.status = run.status /\ run'.step = [run.step EXCEPT ![b] = st] /\ run'.context = co
  BY <1>1, <1>2, <1>3 DEF Run
<1>5. /\ walker' = [walker EXCEPT ![b] = IF st = "success" THEN "answered" ELSE "refused"]
      /\ walker[b] = "calling" /\ ~Saving(b)
      /\ UNCHANGED <<row, rows, save, overlapped, deployed, resumed, rounds, stops>>
  BY DEF Answer, At, storeFrame
<1>6. walker' \in [Walkers -> WalkerPc]
  BY <1>5 DEF TypeOK, WalkerPc
<1> QED BY <1>3, <1>4, <1>5, <1>6

(* The save that commits writes a row, or finds that nothing has changed. *)
LEMMA WrittenRow ==
    ASSUME TypeOK, NEW w \in Walkers, ~Refused(w)
    PROVE  /\ save[w].base = NoRow => row = NoRow /\ Written(w) \in Row /\ Written(w).context = save[w].context
           /\ save[w].base # NoRow /\ row # NoRow =>
                 /\ Written(w) \in Row
                 /\ Written(w).context = IF save[w].context # save[w].base.context
                                          THEN save[w].context ELSE row.context
           /\ save[w].base # NoRow /\ row = NoRow =>
                 Written(w) = NoRow /\ \A s \in Steps : save[w].puts[s].kind \notin {"insert", "gone"}
<1> DEFINE x == save[w]
<1>1. /\ x.base \in Row \cup {NoRow} /\ x.versioned \in BOOLEAN /\ x.status \in Status
      /\ row \in Row \cup {NoRow} /\ x.context \in SUBSET Steps
  BY SaveFields DEF TypeOK
<1>2. CASE x.base = NoRow
  <2>1. row = NoRow
    BY <1>2 DEF Refused
  <2>2. Written(w) = [status |-> x.status, context |-> x.context, versioned |-> x.versioned]
    BY <1>2 DEF Written
  <2> HIDE DEF x
  <2>3. Written(w) \in Row /\ Written(w).context = x.context
    BY <1>1, <2>2 DEF Row
  <2> QED BY <1>2, <2>1, <2>3 DEF x
<1>3. CASE x.base # NoRow
  <2> DEFINE st == IF x.status # x.base.status THEN x.status ELSE row.status
             co == IF x.context # x.base.context THEN x.context ELSE row.context
  <2>1. Written(w) = [row EXCEPT !.status = st, !.context = co]
    BY <1>3 DEF Written
  <2>2. CASE row # NoRow
    <3>1. row \in Row /\ st \in Status /\ co \in SUBSET Steps
      BY <1>1, <2>2, RowFields
    <3> HIDE DEF st, co
    <3>2. Written(w) \in Row /\ Written(w).context = co
      BY <2>1, <3>1 DEF Row
    <3> QED BY <1>3, <2>2, <3>2 DEF co
  <2>3. CASE row = NoRow
    <3>1. ~Changes(x) /\ ~Has(w, "insert") /\ ~Has(w, "gone")
      BY <1>3, <2>3 DEF Refused
    <3>2. st = row.status /\ co = row.context
      BY <1>3, <3>1 DEF Changes
    <3> HIDE DEF st, co
    <3>3. Written(w) = NoRow
      BY <2>1, <2>3, <3>2 DEF NoRow
    <3> QED BY <1>3, <2>3, <3>1, <3>3 DEF Has
  <2> QED BY <2>2, <2>3
<1> QED BY <1>2, <1>3

(* A run that is loaded again is what its rows say. *)
LEMMA LoadedShape ==
    ASSUME row \in Row, NEW r \in Loaded
    PROVE  /\ r \in Run /\ r.context = row.context /\ r.status = row.status
           /\ \A s \in Steps : r.step[s] = "success" => \E w \in Walkers : rows[s][w] = "success"
<1>1. PICK f \in [Steps -> StepStatus] :
        /\ \A s \in Steps : IF RowsOf(s) = {} THEN f[s] = "none" ELSE \E w \in RowsOf(s) : f[s] = rows[s][w]
        /\ r = [status |-> row.status, context |-> row.context, step |-> f]
  BY DEF Loaded
<1>2. r \in Run /\ r.context = row.context /\ r.status = row.status /\ r.step = f
  BY <1>1, RowFields DEF Run
<1> QED BY <1>1, <1>2 DEF RowsOf

LEMMA RestartShape ==
    ASSUME TypeOK, Restart
    PROVE  /\ save' = NoSaves /\ UNCHANGED <<deployed, row, rows, resumed, overlapped>>
           /\ stops' \in 0..MaxStops /\ rounds' = [s \in Steps |-> 0]
           /\ \E pc \in {"created", "lost"} : walker' = [Asleep EXCEPT ![Main] = pc]
           /\ run' = run \/ (row \in Row /\ run' \in Loaded)
<1>1. row.status = "running" => row \in Row
  BY NoRowFields DEF TypeOK
<1>2. stops' \in 0..MaxStops
  BY BoundsAssumption DEF TypeOK, Restart
<1> QED BY <1>1, <1>2 DEF Restart

(* The deletion takes the rows, unless the run has lost its version. *)
LEMMA DeleteShape ==
    ASSUME TypeOK, Delete
    PROVE  /\ deployed' = FALSE /\ UNCHANGED <<run, walker, resumed, rounds, stops, overlapped>>
           /\ save' \in [Walkers -> Save]
           /\ \A w \in Walkers : /\ save'[w].pc = save[w].pc /\ save'[w].base = save[w].base
                                 /\ save'[w].status = save[w].status /\ save'[w].todo = save[w].todo
                                 /\ save'[w].context = save[w].context
           /\ \/ UNCHANGED <<row, rows, save>>
              \/ /\ row' = NoRow /\ rows' = NoRows
                 /\ \A w \in Walkers, s \in Steps :
                       \/ save'[w].puts[s] = save[w].puts[s] /\ save[w].puts[s].kind # "update"
                       \/ save'[w].puts[s].kind = "gone"
<1>1. CASE row.versioned
  <2> DEFINE x(w) == save[w]
             gone(w) == [s \in Steps |-> IF x(w).puts[s].kind = "update"
                                        THEN [x(w).puts[s] EXCEPT !.kind = "gone"] ELSE x(w).puts[s]]
             y(w) == [x(w) EXCEPT !.puts = gone(w)]
  <2>1. save' = [w \in Walkers |-> y(w)]
    BY <1>1 DEF Delete
  <2>2. ASSUME NEW w \in Walkers
        PROVE  /\ gone(w) \in [Steps -> Put]
               /\ \A s \in Steps : \/ gone(w)[s] = x(w).puts[s] /\ x(w).puts[s].kind # "update"
                                   \/ gone(w)[s].kind = "gone"
    <3>1. x(w).puts \in [Steps -> Put]
      BY SaveFields DEF TypeOK
    <3> HIDE DEF x
    <3>2. \A p \in Put : [p EXCEPT !.kind = "gone"] \in Put /\ [p EXCEPT !.kind = "gone"].kind = "gone"
      BY DEF Put
    <3> QED BY <3>1, <3>2
  <2> HIDE DEF gone
  <2>3. ASSUME NEW w \in Walkers
        PROVE  /\ y(w) \in Save /\ y(w).pc = x(w).pc /\ y(w).base = x(w).base /\ y(w).puts = gone(w)
               /\ y(w).status = x(w).status /\ y(w).todo = x(w).todo /\ y(w).context = x(w).context
    <3>1. x(w) \in Save
      BY DEF TypeOK
    <3> HIDE DEF x
    <3> QED BY <2>2, <3>1 DEF Save
  <2> HIDE DEF y
  <2>4. \A w \in Walkers : save'[w] = y(w)
    BY <2>1
  <2>5. save' \in [Walkers -> Save]
    BY <2>1, <2>3
  <2>6. \A w \in Walkers, s \in Steps :
          \/ save'[w].puts[s] = save[w].puts[s] /\ save[w].puts[s].kind # "update"
          \/ save'[w].puts[s].kind = "gone"
    BY <2>2, <2>3, <2>4 DEF x
  <2>7. \A w \in Walkers : /\ save'[w].pc = save[w].pc /\ save'[w].base = save[w].base
                            /\ save'[w].status = save[w].status /\ save'[w].todo = save[w].todo
                            /\ save'[w].context = save[w].context
    BY <2>3, <2>4 DEF x
  <2>8. row' = NoRow /\ rows' = NoRows
    BY <1>1 DEF Delete
  <2> QED BY <2>5, <2>6, <2>7, <2>8 DEF Delete
<1>2. CASE ~row.versioned
  BY <1>2 DEF Delete, TypeOK
<1> QED BY <1>1, <1>2

-----------------------------------------------------------------------------
LEMMA InitInv == Init => TypeOK /\ Phase
<1> SUFFICES ASSUME Init PROVE TypeOK /\ Phase
  OBVIOUS
<1>1. save \in [Walkers -> Save] /\ run \in Run /\ rows \in [Steps -> [Walkers -> StepStatus]]
  BY NoSavesType, NewRunType, NoRowsType DEF Init
<1>2. walker \in [Walkers -> WalkerPc]
  BY AsleepType DEF Init
<1>3. rounds \in [Steps -> 0..MaxRounds] /\ stops \in 0..MaxStops
  BY BoundsAssumption DEF Init
<1>4. TypeOK
  BY <1>1, <1>2, <1>3 DEF Init, TypeOK
<1>5. \A b \in Steps : walker[b] = "off"
  BY AsleepType, MainWalks, MainAssumption DEF Init
<1>6. Phase
  BY <1>5, NoSavesType, MainWalks DEF Init, Phase
<1> QED BY <1>4, <1>6

(* Every step keeps the types and the phases. *)
LEMMA TypeStep == TypeOK /\ Phase /\ [Next]_vars => TypeOK'
<1> SUFFICES ASSUME TypeOK, Phase, [Next]_vars PROVE TypeOK'
  OBVIOUS
<1>t. /\ deployed \in BOOLEAN /\ overlapped \in BOOLEAN /\ row \in Row \cup {NoRow}
      /\ rows \in [Steps -> [Walkers -> StepStatus]] /\ run \in Run /\ walker \in [Walkers -> WalkerPc]
      /\ save \in [Walkers -> Save] /\ resumed \subseteq Steps
      /\ rounds \in [Steps -> 0..MaxRounds] /\ stops \in 0..MaxStops
  BY DEF TypeOK
<1>1. ASSUME NEW w \in Walkers, Begin(w) PROVE TypeOK'
  BY <1>t, <1>1, BeginShape DEF Begin, storeFrame, TypeOK
<1>2. ASSUME NEW w \in Walkers, Raised(w) PROVE TypeOK'
  <2>1. walker' \in [Walkers -> WalkerPc]
    BY <1>t, <1>2, RaisedShape DEF WalkerPc
  <2> QED BY <1>t, <1>2, <2>1, RaisedShape DEF Raised, storeFrame, TypeOK
<1>3. ASSUME NEW w \in Walkers, Committed(w) PROVE TypeOK'
  <2>1. row' \in Row \cup {NoRow}
    BY <1>3, WrittenRow DEF Committed
  <2>2. rows' \in [Steps -> [Walkers -> StepStatus]]
    BY <1>3, WrittenShape DEF Committed
  <2> QED BY <1>t, <1>3, <2>1, <2>2, NoSaveType DEF Committed, storeFrame, TypeOK
<1>4. ASSUME NEW w \in Walkers, NEW s \in Steps, Looked(w, s) PROVE TypeOK'
  BY <1>t, <1>4, LookedShape DEF Looked, storeFrame, TypeOK
<1>5. CASE Create \/ Execute \/ Join \/ \E b \in Steps : BranchTurn(b)
  <2>1. PICK w \in Walkers, r \in Run, pc \in WalkerPc :
          Turn(w, r, pc) /\ rounds' \in [Steps -> 0..MaxRounds]
    BY <1>t, <1>5, Turns
  <2>2. /\ walker' \in [Walkers -> WalkerPc] /\ run' \in Run /\ save' \in [Walkers -> Save]
        /\ UNCHANGED <<row, rows>>
    BY <1>t, <2>1, TurnShape
  <2>3. overlapped' \in BOOLEAN
    BY <2>1 DEF Turn, Saves
  <2> QED BY <1>t, <2>1, <2>2, <2>3 DEF Turn, TypeOK
<1>6. CASE Fork \/ End
  <2>1. walker' \in [Walkers -> WalkerPc]
    BY <1>t, <1>6 DEF Fork, End, WalkerPc
  <2> QED BY <1>t, <1>6, <2>1 DEF Fork, End, storeFrame, TypeOK
<1>7. CASE Delete
  <2>1. row' \in Row \cup {NoRow} /\ rows' \in [Steps -> [Walkers -> StepStatus]]
    BY <1>t, <1>7, DeleteShape, NoRowsType
  <2> QED BY <1>t, <1>7, <2>1, DeleteShape DEF TypeOK
<1>8. CASE Restart
  <2>1. run' \in Run
    BY <1>t, <1>8, RestartShape, LoadedShape
  <2>2. walker' \in [Walkers -> WalkerPc]
    BY <1>8, RestartShape, AsleepType DEF WalkerPc
  <2>3. rounds' \in [Steps -> 0..MaxRounds]
    BY <1>8, RestartShape, BoundsAssumption
  <2> QED BY <1>t, <1>8, <2>1, <2>2, <2>3, RestartShape, NoSavesType DEF TypeOK
<1>9. CASE UNCHANGED vars
  BY <1>t, <1>9 DEF vars, TypeOK
<1>10. ASSUME NEW w \in Walkers, Take(w) PROVE TypeOK'
  BY <1>t, <1>10, TakeShape DEF Take, storeFrame, TypeOK
<1>11. ASSUME NEW b \in Steps, NEW st \in {"success", "failed"}, Answer(b, st) PROVE TypeOK'
  BY <1>t, <1>11, AnswerShape DEF TypeOK
<1> QED BY <1>1, <1>2, <1>3, <1>4, <1>5, <1>6, <1>7, <1>8, <1>9, <1>10, <1>11, Kinds

LEMMA PhaseStep == TypeOK /\ Phase /\ [Next]_vars => Phase'
<1> SUFFICES ASSUME TypeOK, Phase, [Next]_vars PROVE Phase'
  OBVIOUS
<1> USE MainWalks, MainAssumption
<1>t. /\ walker \in [Walkers -> WalkerPc] /\ save \in [Walkers -> Save]
      /\ rounds \in [Steps -> 0..MaxRounds]
  BY DEF TypeOK
(* A walker of which there is no save to see to has not been reset. *)
<1>a. ASSUME NEW w \in Walkers, save[w].pc # "none",
             \A v \in Walkers : v # w => save'[v] = save[v], UNCHANGED rounds,
             \/ walker' = walker /\ run' = run
             \/ \E pc \in {"failing", "lost", "raised"} : walker' = [walker EXCEPT ![w] = pc]
      PROVE  Phase'
  <2>1. save[w] # NoSave
    BY <1>a, NoSaveType
  <2>2. w \in Steps => walker[Main] \notin {"new", "created", "started"}
    BY <2>1 DEF Phase
  <2>3. w = Main => walker[Main] # "new"
    BY <2>1 DEF Phase
  <2>4. w = Main \/ w \in Steps
    BY DEF Walkers
  <2>5. CASE walker' = walker /\ run' = run
    BY <1>a, <2>2, <2>3, <2>4, <2>5 DEF Phase
  <2>6. ASSUME NEW pc \in {"failing", "lost", "raised"}, walker' = [walker EXCEPT ![w] = pc] PROVE Phase'
    BY <1>t, <1>a, <2>2, <2>3, <2>4, <2>6 DEF Phase
  <2> QED BY <1>a, <2>5, <2>6
<1>1. ASSUME NEW w \in Walkers, Begin(w) PROVE Phase'
  BY <1>1, <1>a, BeginShape DEF Begin, storeFrame
<1>2. ASSUME NEW w \in Walkers, Raised(w) PROVE Phase'
  <2>1. \A v \in Walkers : v # w => save'[v] = save[v]
    BY <1>t, <1>2, RaisedShape
  <2> QED BY <1>2, <1>a, <2>1, RaisedShape DEF Raised, storeFrame
<1>3. ASSUME NEW w \in Walkers, Committed(w) PROVE Phase'
  BY <1>t, <1>3, <1>a DEF Committed, storeFrame
<1>4. ASSUME NEW w \in Walkers, NEW s \in Steps, Looked(w, s) PROVE Phase'
  BY <1>4, <1>a, LookedShape DEF Looked, storeFrame
<1>5. CASE Create \/ Execute \/ Join \/ \E b \in Steps : BranchTurn(b)
  <2>1. PICK w \in Walkers, r \in Run, pc \in WalkerPc :
          /\ Turn(w, r, pc)
          /\ \/ /\ w = Main /\ UNCHANGED rounds
                /\ walker[Main] \in {"new", "created"} \/ pc \in {"failing", "ending"}
             \/ /\ w \in Steps /\ walker[w] # "off" /\ rounds' \in [Steps -> 0..MaxRounds]
                /\ \A b \in Steps \ {w} : rounds'[b] = rounds[b]
                /\ pc \in {"head", "entered", "calling", "answered"} => rounds'[w] < MaxRounds
    BY <1>5, Turns
  <2>2. /\ walker' = [walker EXCEPT ![w] = pc] /\ pc # "new"
        /\ save' = [save EXCEPT ![w] = FreshSave]
    BY <2>1, TurnShape DEF Turn
  <2>3. CASE w = Main
    BY <1>t, <2>1, <2>2, <2>3 DEF Phase
  <2>4. CASE w \in Steps
    <3>1. walker[Main] \notin {"new", "created", "started"} /\ w # Main
      BY <2>1, <2>4 DEF Phase
    <3> QED BY <1>t, <2>1, <2>2, <2>4, <3>1 DEF Phase
  <2> QED BY <2>3, <2>4 DEF Walkers
<1>6. CASE Fork
  <2>1. /\ walker' = [w \in Walkers |-> IF w = Main THEN "join" ELSE "head"]
        /\ UNCHANGED <<save, rounds>> /\ walker[Main] = "started"
    BY <1>6 DEF Fork, At, storeFrame
  <2> QED BY <2>1, BoundsAssumption DEF Phase
<1>7. CASE End
  BY <1>t, <1>7 DEF End, Phase, storeFrame
<1>8. CASE Delete
  <2>1. ASSUME NEW w \in Walkers, save[w] = NoSave PROVE save'[w] = NoSave
    <3>1. CASE row.versioned
      <4> DEFINE f == [s \in Steps |-> IF save[w].puts[s].kind = "update"
                            THEN [save[w].puts[s] EXCEPT !.kind = "gone"] ELSE save[w].puts[s]]
      <4>1. save'[w] = [save[w] EXCEPT !.puts = f]
        BY <1>8, <3>1 DEF Delete
      <4>2. f = [s \in Steps |-> NoPut]
        BY <2>1, NoSaveType, NoPutType
      <4>3. f = save[w].puts
        BY <2>1, <4>2 DEF NoSave
      <4> HIDE DEF f
      <4>4. save[w] \in Save => [save[w] EXCEPT !.puts = save[w].puts] = save[w]
        BY DEF Save
      <4> QED BY <1>t, <2>1, <4>1, <4>3, <4>4
    <3> QED BY <1>8, <2>1, <3>1 DEF Delete
  <2> QED BY <1>8, <2>1 DEF Delete, Phase
<1>9. CASE Restart
  <2>1. PICK pc \in {"created", "lost"} : walker' = [Asleep EXCEPT ![Main] = pc]
    BY <1>9, RestartShape
  <2>2. walker'[Main] = pc /\ \A b \in Steps : walker'[b] = "off"
    BY <2>1, AsleepType
  <2>3. save' = NoSaves /\ rounds' = [s \in Steps |-> 0]
    BY <1>9, RestartShape
  <2> QED BY <2>2, <2>3, NoSavesType DEF Phase
<1>10. CASE UNCHANGED vars
  BY <1>10 DEF vars, Phase
<1>11. ASSUME NEW w \in Walkers, Take(w) PROVE Phase'
  BY <1>11, <1>a, TakeShape DEF Take, storeFrame
<1>12. ASSUME NEW b \in Steps, NEW st \in {"success", "failed"}, Answer(b, st) PROVE Phase'
  <2>1. /\ walker' = [walker EXCEPT ![b] = IF st = "success" THEN "answered" ELSE "refused"]
        /\ walker[b] = "calling" /\ UNCHANGED <<rounds, save>> /\ b # Main
    BY <1>12, AnswerShape
  <2>2. walker[Main] \notin {"new", "created", "started"} /\ walker'[Main] = walker[Main] /\ rounds[b] < MaxRounds
    BY <1>t, <2>1 DEF Phase
  <2> QED BY <1>t, <2>1, <2>2 DEF Phase
<1> QED BY <1>1, <1>2, <1>3, <1>4, <1>5, <1>6, <1>7, <1>8, <1>9, <1>10, <1>11, <1>12, Kinds

(* The variables of RunRows keep their types. *)
THEOREM TypeCorrect == Spec => []TypeOK
<1> QED BY InitInv, TypeStep, PhaseStep, PTL DEF Spec

-----------------------------------------------------------------------------
(* As long as no two saves have overlapped: one walker saves at most, a step *)
(* has one row at most, and what a save has prepared fits the rows there are.*)
OneSaves == \A v, w \in Walkers : Saving(v) /\ Saving(w) => v = w
OneRow == \A s \in Steps, v, w \in Walkers : rows[s][v] # "none" /\ rows[s][w] # "none" => v = w
Fitting ==
    \A w \in Walkers, s \in Steps : Saving(w) =>
        /\ save[w].puts[s].kind = "insert" => save[w].puts[s].by = w /\ RowsOf(s) = {}
        /\ save[w].puts[s].kind = "update" => save[w].puts[s].by \in RowsOf(s)

Orderly == ~overlapped => OneSaves /\ OneRow /\ Fitting

LEMMA OrderlyInit == Init => Orderly
BY NoSavesType, NoSaveType, NoRowsType DEF Init, Orderly, OneSaves, OneRow, Fitting, Saving

LEMMA OrderlyStep == TypeOK /\ Phase /\ Orderly /\ [Next]_vars => Orderly'
<1> SUFFICES ASSUME TypeOK, Phase, Orderly, [Next]_vars, ~overlapped'
             PROVE  (OneSaves /\ OneRow /\ Fitting)'
  BY DEF Orderly
<1>t. save \in [Walkers -> Save] /\ rows \in [Steps -> [Walkers -> StepStatus]]
  BY DEF TypeOK
<1>0. ~overlapped => OneSaves /\ OneRow /\ Fitting
  BY DEF Orderly
<1>1. ASSUME NEW w \in Walkers, Begin(w) PROVE (OneSaves /\ OneRow /\ Fitting)'
  <2>1. /\ \A v \in Walkers : v # w => save'[v] = save[v]
        /\ \A s \in Steps : save'[w].puts[s].kind = "none"
        /\ Saving(w) /\ UNCHANGED <<rows, overlapped>>
    BY <1>1, BeginShape DEF Begin, Saving
  <2> QED BY <1>0, <2>1 DEF OneSaves, OneRow, Fitting, Saving, RowsOf
<1>2. ASSUME NEW w \in Walkers, Raised(w) PROVE (OneSaves /\ OneRow /\ Fitting)'
  <2>1. /\ \A v \in Walkers : v # w => save'[v] = save[v]
        /\ \A s \in Steps : save'[w].puts[s].kind = "none"
    BY <1>t, <1>2, RaisedShape, NoSaveType, NoPutType
  <2> QED BY <1>0, <1>2, <2>1 DEF Raised, OneSaves, OneRow, Fitting, Saving, RowsOf
<1>3. ASSUME NEW w \in Walkers, Committed(w) PROVE (OneSaves /\ OneRow /\ Fitting)'
  <2>1. /\ ~overlapped /\ Saving(w) /\ save' = [save EXCEPT ![w] = NoSave] /\ rows' = WrittenSteps(w)
    BY <1>3 DEF Committed, Saving
  <2>2. \A v \in Walkers : ~(save'[v].pc # "none")
    BY <1>t, <1>0, <2>1, NoSaveType DEF OneSaves, Saving
  <2>3. ASSUME NEW s \in Steps, NEW u \in Walkers, NEW v \in Walkers, rows'[s][u] # "none", rows'[s][v] # "none"
        PROVE  u = v
    <3>1. OneRow /\ Fitting
      BY <1>0, <2>1
    <3> DEFINE put == save[w].puts[s]
    <3>2. ASSUME NEW x \in Walkers, rows'[s][x] # "none"
          PROVE  rows[s][x] # "none" \/ (put.kind \in {"insert", "update"} /\ put.by = x)
      BY <2>1, <3>2, WrittenShape
    <3>3. CASE put.kind = "insert"
      <4>1. put.by = w /\ \A x \in Walkers : rows[s][x] = "none"
        BY <2>1, <3>1, <3>3 DEF Fitting, RowsOf
      <4> QED BY <2>3, <3>2, <4>1
    <3>4. CASE put.kind = "update"
      <4>1. put.by \in Walkers /\ rows[s][put.by] # "none"
        BY <2>1, <3>1, <3>4 DEF Fitting, RowsOf
      <4>2. rows[s][u] # "none" /\ rows[s][v] # "none"
        BY <2>3, <3>2, <4>1
      <4> QED BY <3>1, <4>2 DEF OneRow
    <3>5. CASE put.kind \notin {"insert", "update"}
      BY <2>3, <3>1, <3>2, <3>5 DEF OneRow
    <3> QED BY <3>3, <3>4, <3>5
  <2> QED BY <2>2, <2>3 DEF OneSaves, OneRow, Fitting, Saving
<1>4. ASSUME NEW w \in Walkers, NEW s \in Steps, Looked(w, s) PROVE (OneSaves /\ OneRow /\ Fitting)'
  <2>1. ~overlapped /\ UNCHANGED rows /\ save[w].pc = "look"
    BY <1>4 DEF Looked
  <2>2. OneSaves' /\ OneRow'
    BY <1>0, <1>4, <2>1, LookedShape DEF OneSaves, OneRow, Saving
  <2>3. ASSUME NEW v \in Walkers, NEW t \in Steps, save'[v].pc # "none"
        PROVE  /\ save'[v].puts[t].kind = "insert" => save'[v].puts[t].by = v /\ RowsOf(t)' = {}
               /\ save'[v].puts[t].kind = "update" => save'[v].puts[t].by \in RowsOf(t)'
    <3>1. RowsOf(t)' = RowsOf(t) /\ Fitting
      BY <1>0, <2>1 DEF RowsOf
    <3>2. CASE v = w /\ t = s
      BY <1>4, <3>1, <3>2, LookedShape, PutShape
    <3>3. CASE ~(v = w /\ t = s)
      BY <1>4, <2>1, <2>3, <3>1, <3>3, LookedShape DEF Fitting, Saving
    <3> QED BY <3>2, <3>3
  <2> QED BY <2>2, <2>3 DEF Fitting, Saving
<1>5. CASE Create \/ Execute \/ Join \/ \E b \in Steps : BranchTurn(b)
  <2>1. PICK w \in Walkers, r \in Run, pc \in WalkerPc : Turn(w, r, pc)
    BY <1>5, Turns
  <2>2. /\ save' = [save EXCEPT ![w] = FreshSave] /\ UNCHANGED <<row, rows>>
        /\ ~overlapped /\ \A v \in Walkers : v # w => ~Saving(v)
    BY <2>1, TurnShape
  <2>3. \A s \in Steps : save'[w].puts[s].kind = "none"
    BY <1>t, <2>2, NoSaveType, NoPutType
  <2> QED BY <1>t, <1>0, <2>2, <2>3 DEF OneSaves, OneRow, Fitting, Saving
<1>6. CASE Fork \/ End \/ UNCHANGED vars
  BY <1>0, <1>6 DEF Fork, End, vars, OneSaves, OneRow, Fitting, Saving, RowsOf
<1>7. CASE Delete
  <2>1. OneSaves'
    BY <1>0, <1>7, DeleteShape DEF OneSaves, Saving
  <2>2. CASE UNCHANGED <<row, rows, save>>
    BY <1>0, <1>7, <2>1, <2>2, DeleteShape DEF OneRow, Fitting, Saving, RowsOf
  <2>3. CASE rows' = NoRows /\ \A w \in Walkers, s \in Steps :
               \/ save'[w].puts[s] = save[w].puts[s] /\ save[w].puts[s].kind # "update"
               \/ save'[w].puts[s].kind = "gone"
    <3>1. Fitting /\ \A w \in Walkers : save'[w].pc = save[w].pc
      BY <1>0, <1>7, DeleteShape
    <3>2. \A s \in Steps : RowsOf(s)' = {}
      BY <2>3, NoRowsType DEF RowsOf
    <3> QED BY <2>1, <2>3, <3>1, <3>2, NoRowsType DEF OneRow, Fitting, Saving
  <2> QED BY <1>7, <2>2, <2>3, DeleteShape
<1>8. CASE Restart
  BY <1>0, <1>8, RestartShape, NoSavesType, NoSaveType DEF OneSaves, OneRow, Fitting, Saving
<1>9. ASSUME NEW w \in Walkers, Take(w) PROVE (OneSaves /\ OneRow /\ Fitting)'
  <2>1. /\ \A v \in Walkers : (Saving(v)' <=> Saving(v)) /\ save'[v].puts = save[v].puts
        /\ UNCHANGED <<rows, overlapped>>
    BY <1>9, TakeShape DEF Take, Saving
  <2> QED BY <1>0, <2>1 DEF OneSaves, OneRow, Fitting, RowsOf
<1>10. ASSUME NEW b \in Steps, NEW st \in {"success", "failed"}, Answer(b, st)
       PROVE  (OneSaves /\ OneRow /\ Fitting)'
  <2>1. UNCHANGED <<rows, save, overlapped>>
    BY <1>10, AnswerShape
  <2> QED BY <1>0, <2>1 DEF OneSaves, OneRow, Fitting, Saving, RowsOf
<1> QED BY <1>1, <1>2, <1>3, <1>4, <1>5, <1>6, <1>7, <1>8, <1>9, <1>10, Kinds

(* A step of a run has a second row only where two saves have overlapped.    *)
THEOREM DoubledByOverlap == Spec => []DoubledOnlyByOverlap
<1>1. TypeOK /\ Orderly => DoubledOnlyByOverlap
  <2> SUFFICES ASSUME Orderly, ~overlapped, NEW s \in Steps PROVE ~Doubled(s)
    BY DEF DoubledOnlyByOverlap
  <2>1. \A v, w \in RowsOf(s) : v = w
    BY DEF Orderly, OneRow, RowsOf
  <2>2. CASE RowsOf(s) = {}
    BY <2>2, FS_EmptySet DEF Doubled
  <2>3. CASE RowsOf(s) # {}
    <3>1. PICK w : w \in RowsOf(s)
      BY <2>3
    <3>2. RowsOf(s) = {w}
      BY <2>1, <3>1
    <3> QED BY <3>2, FS_Singleton DEF Doubled
  <2> QED BY <2>2, <2>3
<1> QED BY <1>1, InitInv, TypeStep, PhaseStep, OrderlyInit, OrderlyStep, PTL DEF Spec

-----------------------------------------------------------------------------
(* Whose turn it is: the branches move and save while the main walker waits   *)
(* for them, the main walker saves before and after; a branch that is over has *)
(* its step done, one that a resumption skips does not touch it, and any other *)
(* has put its result into the run.                                            *)
InTurn ==
    /\ \A b \in Steps :
          walker[b] \in {"head", "entered", "calling", "answered", "refused"} \/ Saving(b) => walker[Main] = "join"
    /\ Saving(Main) => walker[Main] \in {"created", "started", "ending", "failing"}
    /\ walker[Main] = "ending" => \A b \in Steps : walker[b] = "over"
    /\ \A b \in Steps : walker[b] \in {"answered", "over"} => run.step[b] = "success"
    /\ \A b \in Steps : walker[b] \in {"answered", "over"} /\ b \notin resumed => b \in run.context
    /\ walker[Main] \in {"started", "join"} =>
          \A b \in resumed :
             run.step[b] = "success" /\ walker[b] \notin {"entered", "calling", "answered", "refused"}

(* What a turn leaves behind. *)
LEMMA SavesShape ==
    ASSUME TypeOK, NEW w \in Walkers, NEW r, NEW pc, Saves(w, r, pc)
    PROVE  /\ run' = r /\ walker'[w] = pc /\ save'[w].pc = "begin" /\ UNCHANGED <<row, rows>>
           /\ \A s \in Steps : save'[w].puts[s].kind = "none"
           /\ \A v \in Walkers : v # w => walker'[v] = walker[v] /\ save'[v] = save[v]
<1>1. save' = [save EXCEPT ![w] = FreshSave] /\ save \in [Walkers -> Save]
  BY DEF Saves, FreshSave, TypeOK
<1> QED BY <1>1, NoSaveType, NoPutType DEF Saves, TypeOK

(* The walkers whose saves go on, and what a raise makes of them. *)
LEMMA RaiseTurns ==
    ASSUME TypeOK, InTurn, NEW w \in Walkers, Raised(w)
    PROVE  /\ \A v \in Walkers : v # w => walker'[v] = walker[v] /\ save'[v] = save[v]
           /\ save'[w].pc \in {"none", "begin"} /\ \A s \in Steps : save'[w].puts[s].kind = "none"
           /\ run'.step = run.step /\ run'.context = run.context /\ run'.status \in {run.status, "failed"}
           /\ w # Main => save'[w].pc = "none" \/ walker[w] = "ending"
           /\ \/ walker[w] = "ending" /\ walker'[w] = "failing" /\ run'.status = "failed"
              \/ walker[w] # "ending" /\ run' = run /\ walker'[w] = (IF w = Main THEN "lost" ELSE "raised")
                 /\ save'[w].pc = "none"
<1>0. save \in [Walkers -> Save] /\ walker \in [Walkers -> WalkerPc] /\ run \in Run
  BY DEF TypeOK
<1>1. CASE walker[w] = "ending"
  <2>1. /\ run' = [run EXCEPT !.status = "failed"] /\ walker' = [walker EXCEPT ![w] = "failing"]
        /\ save' = [save EXCEPT ![w] = FreshSave]
    BY <1>1 DEF Raised, Raise, FreshSave
  <2>2. run'.step = run.step /\ run'.context = run.context /\ run'.status = "failed"
    BY <1>0, <2>1 DEF Run
  <2> QED BY <1>0, <1>1, <2>1, <2>2, NoSaveType, NoPutType
<1>2. CASE walker[w] # "ending"
  <2>1. /\ UNCHANGED run /\ walker' = [walker EXCEPT ![w] = IF w = Main THEN "lost" ELSE "raised"]
        /\ save' = [save EXCEPT ![w] = NoSave]
    BY <1>2 DEF Raised, Raise
  <2> QED BY <1>0, <1>2, <2>1, NoSaveType, NoPutType
<1> QED BY <1>1, <1>2

LEMMA InTurnInit == Init => InTurn
<1> USE MainWalks, MainAssumption
<1>1. Init => (\A w \in Walkers : walker[w] \in {"new", "off"}) /\ \A w \in Walkers : ~Saving(w)
  BY AsleepType, NoSavesType, NoSaveType DEF Init, Saving
<1> QED BY <1>1 DEF InTurn

LEMMA InTurnStep == TypeOK /\ Phase /\ InTurn /\ [Next]_vars => InTurn'
<1> SUFFICES ASSUME TypeOK, Phase, InTurn, [Next]_vars PROVE InTurn'
  OBVIOUS
<1> USE MainWalks, MainAssumption
<1>t. /\ walker \in [Walkers -> WalkerPc] /\ save \in [Walkers -> Save] /\ run \in Run /\ resumed \subseteq Steps
      /\ run.step \in [Steps -> StepStatus]
  BY RunFields DEF TypeOK
<1>1. ASSUME NEW w \in Walkers, Begin(w) PROVE InTurn'
  <2>1. \A v \in Walkers : Saving(v)' <=> Saving(v)
    BY <1>1, BeginShape DEF Begin, Saving
  <2> QED BY <1>1, <2>1 DEF Begin, InTurn, storeFrame
<1>2. ASSUME NEW w \in Walkers, Raised(w) PROVE InTurn'
  <2>1. UNCHANGED resumed /\ Saving(w)
    BY <1>2 DEF Raised, storeFrame, Saving
  <2>2. CASE w = Main
    <3>1. \A b \in Steps : walker'[b] = walker[b] /\ save'[b] = save[b]
      BY <1>2, <2>2, RaiseTurns
    <3>2. run'.step = run.step /\ run'.context = run.context
      BY <1>2, RaiseTurns
    <3>3. walker[Main] # "join" /\ walker'[Main] \in {"lost", "failing"} /\ (Saving(Main)' => walker'[Main] = "failing")
      BY <1>2, <2>1, <2>2, RaiseTurns DEF InTurn, Saving
    <3> QED BY <2>1, <3>1, <3>2, <3>3 DEF InTurn, Saving
  <2>3. CASE w # Main
    <3>1. w \in Steps /\ walker[Main] = "join" /\ walker'[Main] = "join" /\ save'[Main] = save[Main]
      BY <1>2, <2>1, <2>3, RaiseTurns DEF InTurn, Walkers
    <3>2. walker'[w] \in {"failing", "raised"} /\ \A b \in Steps : b # w => walker'[b] = walker[b]
      BY <1>2, <2>3, RaiseTurns
    <3>3. run'.step = run.step /\ run'.context = run.context
      BY <1>2, RaiseTurns
    <3> QED BY <1>t, <2>1, <3>1, <3>2, <3>3 DEF InTurn, Saving
  <2> QED BY <2>2, <2>3
<1>3. ASSUME NEW w \in Walkers, Committed(w) PROVE InTurn'
  <2>1. \A v \in Walkers : Saving(v)' => Saving(v)
    BY <1>t, <1>3, NoSaveType DEF Committed, Saving
  <2> QED BY <1>3, <2>1 DEF Committed, InTurn, storeFrame
<1>4. ASSUME NEW w \in Walkers, NEW s \in Steps, Looked(w, s) PROVE InTurn'
  <2>1. \A v \in Walkers : Saving(v)' <=> Saving(v)
    BY <1>4, LookedShape DEF Looked, Saving
  <2> QED BY <1>4, <2>1 DEF Looked, InTurn, storeFrame
<1>5. CASE Create \/ Execute
  <2>1. walker[Main] \in {"new", "created"} /\ \A b \in Steps : walker[b] = "off" /\ save[b] = NoSave
    BY <1>5 DEF Create, Execute, At, Phase
  <2>2. \E r \in Run, pc \in {"created", "started"} :
           /\ Saves(Main, r, pc)
           /\ pc = "started" => resumed' = {s \in Steps : run.step[s] = "success"} /\ r.step = run.step
    <3>1. [run EXCEPT !.status = "running"] \in Run /\ [run EXCEPT !.status = "running"].step = run.step
      BY <1>t DEF Run, Status
    <3> QED BY <1>5, <3>1, NewRunType DEF Create, Execute
  <2>3. PICK r \in Run, pc \in {"created", "started"} :
           /\ Saves(Main, r, pc)
           /\ pc = "started" => resumed' = {s \in Steps : run.step[s] = "success"} /\ r.step = run.step
    BY <2>2
  <2>4. walker'[Main] = pc /\ run' = r /\ \A b \in Steps : walker'[b] = "off" /\ save'[b].pc = "none"
    BY <2>1, <2>3, SavesShape, NoSaveType
  <2> QED BY <2>3, <2>4 DEF InTurn, Saving
<1>6. CASE Join
  <2>1. PICK st \in {"failed", "success"}, pc \in {"failing", "ending"} :
          /\ Saves(Main, [run EXCEPT !.status = st], pc)
          /\ pc = "ending" => ~\E b \in Steps : walker[b] = "raised"
    BY <1>6 DEF Join
  <2> DEFINE r == [run EXCEPT !.status = st]
  <2>2. Saves(Main, r, pc) /\ r.step = run.step /\ r.context = run.context
    BY <1>t, <2>1 DEF Run
  <2> HIDE DEF r
  <2>3. \A b \in Steps : walker[b] \in {"over", "raised"} /\ ~Saving(b)
    BY <1>6 DEF Join, Joined, At
  <2>4. /\ walker'[Main] = pc /\ run'.step = run.step /\ run'.context = run.context /\ UNCHANGED resumed
        /\ \A b \in Steps : walker'[b] = walker[b] /\ save'[b] = save[b]
    BY <1>6, <2>2, SavesShape DEF Join, storeFrame
  <2> QED BY <2>1, <2>3, <2>4 DEF InTurn, Saving
<1>7. ASSUME NEW b \in Steps, BranchTurn(b) PROVE InTurn'
  <2>1. /\ walker[b] \in {"head", "entered", "answered", "refused"} /\ walker[Main] = "join"
        /\ b \in Walkers /\ b # Main /\ UNCHANGED resumed
    BY <1>7 DEF BranchTurn, Head, StartStep, Settle, At, InTurn, storeFrame
  <2>2. ASSUME NEW r, NEW pc, Saves(b, r, pc), \A s \in Steps : s # b => r.step[s] = run.step[s],
               r.context = run.context,
               pc \in {"entered", "calling"} => b \notin resumed,
               pc = "over" => r.step[b] = "success" /\ (b \in resumed \/ b \in run.context),
               pc \notin {"answered", "refused"},
               b \in resumed => r.step[b] = "success"
        PROVE  InTurn'
    <3>0. /\ run' = r /\ walker'[b] = pc
          /\ \A v \in Walkers : v # b => walker'[v] = walker[v] /\ save'[v] = save[v]
      BY <2>1, <2>2, SavesShape
    <3>1. /\ walker'[Main] = "join" /\ save'[Main] = save[Main]
          /\ \A c \in Steps : c # b => walker'[c] = walker[c]
      BY <2>1, <3>0
    <3> QED BY <1>t, <2>1, <2>2, <3>0, <3>1 DEF InTurn, Saving
  <2>3. b \in resumed => run.step[b] = "success" /\ walker[b] \notin {"entered", "calling", "answered", "refused"}
    BY <2>1 DEF InTurn
  <2>4. CASE Head(b)
    BY <2>2, <2>3, <2>4 DEF Head
  <2>5. CASE StartStep(b)
    <3> DEFINE r == [run EXCEPT !.step[b] = "running"]
    <3>1. r.step = [run.step EXCEPT ![b] = "running"] /\ r.context = run.context
      BY <1>t DEF Run
    <3>2. Saves(b, r, "calling") /\ walker[b] = "entered"
      BY <2>5 DEF StartStep, At
    <3> HIDE DEF r
    <3>3. \A s \in Steps : s # b => r.step[s] = run.step[s]
      BY <1>t, <3>1
    <3> QED BY <2>2, <2>3, <3>1, <3>2, <3>3
  <2>6. CASE At(b, "answered") /\ Settle(b)
    <3>1. PICK pc \in {"head", "over"} : Saves(b, run, pc)
      BY <2>6 DEF Settle, At
    <3>2. run.step[b] = "success" /\ (b \in resumed \/ b \in run.context)
      BY <2>6 DEF InTurn, At
    <3> QED BY <2>2, <3>1, <3>2
  <2>7. CASE At(b, "refused") /\ Settle(b)
    <3>1. Saves(b, run, "raised") /\ walker[b] = "refused"
      BY <2>7 DEF Settle, At
    <3> QED BY <2>2, <2>3, <3>1
  <2> QED BY <1>7, <2>4, <2>5, <2>6, <2>7 DEF BranchTurn, Settle
<1>8. CASE Fork
  <2>1. /\ walker' = [w \in Walkers |-> IF w = Main THEN "join" ELSE "head"]
        /\ UNCHANGED <<save, run, resumed>> /\ walker[Main] = "started" /\ ~Saving(Main)
    BY <1>8 DEF Fork, At, storeFrame
  <2>2. walker'[Main] = "join" /\ \A b \in Steps : walker'[b] = "head"
    BY <2>1
  <2> QED BY <1>t, <2>1, <2>2 DEF InTurn, Saving
<1>9. CASE End
  <2>1. /\ walker' = [walker EXCEPT ![Main] = "ended"] /\ ~Saving(Main) /\ walker[Main] \in {"ending", "failing"}
        /\ UNCHANGED <<save, run, resumed>>
    BY <1>9 DEF End, At, storeFrame
  <2> QED BY <1>t, <2>1 DEF InTurn, Saving
<1>10. CASE Delete
  BY <1>10, DeleteShape DEF InTurn, Saving
<1>11. CASE Restart
  <2>1. walker'[Main] \in {"created", "lost"} /\ \A b \in Steps : walker'[b] = "off"
    BY <1>11, RestartShape, AsleepType
  <2>2. \A w \in Walkers : ~Saving(w)'
    BY <1>11, RestartShape, NoSavesType, NoSaveType DEF Saving
  <2> QED BY <2>1, <2>2 DEF InTurn
<1>12. CASE UNCHANGED vars
  BY <1>12 DEF vars, InTurn, Saving
<1>13. ASSUME NEW w \in Walkers, Take(w) PROVE InTurn'
  <2>1. \A v \in Walkers : Saving(v)' <=> Saving(v)
    BY <1>13, TakeShape DEF Saving
  <2> QED BY <1>13, <2>1 DEF Take, InTurn, storeFrame
<1>14. ASSUME NEW b \in Steps, NEW st \in {"success", "failed"}, Answer(b, st) PROVE InTurn'
  <2>1. /\ run'.step = [run.step EXCEPT ![b] = st] /\ run.context \subseteq run'.context
        /\ (st = "success" => b \in run'.context) /\ walker[b] = "calling" /\ UNCHANGED <<save, resumed>>
        /\ walker' = [walker EXCEPT ![b] = IF st = "success" THEN "answered" ELSE "refused"]
    BY <1>14, AnswerShape
  <2>2. walker[Main] = "join" /\ b \notin resumed /\ b # Main /\ b \in Walkers
    BY <2>1 DEF InTurn
  <2>3. /\ walker'[b] = (IF st = "success" THEN "answered" ELSE "refused") /\ run'.step[b] = st
        /\ \A v \in Walkers : v # b => walker'[v] = walker[v]
        /\ \A c \in Steps : c # b => run'.step[c] = run.step[c]
    BY <1>t, <2>1, <2>2
  <2>4. walker'[Main] = "join" /\ \A v \in Walkers : Saving(v)' <=> Saving(v)
    BY <2>1, <2>2, <2>3 DEF Saving
  <2> QED BY <2>1, <2>2, <2>3, <2>4 DEF InTurn
<1> QED BY <1>1, <1>2, <1>3, <1>4, <1>5, <1>6, <1>7, <1>8, <1>9, <1>10, <1>11, <1>12, <1>13, <1>14, Kinds

-----------------------------------------------------------------------------
(* A save that has read the row of the run and taken down the run. *)
Begun(w) == save[w].pc \in {"wait", "look"}

(* SUCCESS is for the last save of the main walker to write, and once it is   *)
(* written nobody saves any more.                                             *)
LastSave ==
    /\ run.status = "success" => walker[Main] \in {"ending", "ended", "lost"}
    /\ walker[Main] = "ending" => run.status = "success"
    /\ \A w \in Walkers : Begun(w) /\ save[w].status = "success" => w = Main /\ walker[Main] = "ending"
    /\ row.status = "success" => walker[Main] \in {"ending", "ended", "lost"} /\ ~Saving(Main)

(* A commit writes its own status or leaves the one there is. *)
LEMMA WrittenStatus ==
    ASSUME TypeOK, NEW w \in Walkers, ~Refused(w)
    PROVE  /\ Written(w).status \in {save[w].status, row.status}
           /\ Written(w) # NoRow /\ ~Written(w).versioned =>
                 \/ save[w].base = NoRow /\ ~save[w].versioned
                 \/ row # NoRow /\ ~row.versioned
<1>1. CASE save[w].base = NoRow
  BY <1>1 DEF Written
<1>2. CASE save[w].base # NoRow
  <2> DEFINE st == IF save[w].status # save[w].base.status THEN save[w].status ELSE row.status
             co == IF save[w].context # save[w].base.context THEN save[w].context ELSE row.context
  <2>1. Written(w) = [row EXCEPT !.status = st, !.context = co] /\ st \in {save[w].status, row.status}
    BY <1>2 DEF Written
  <2> HIDE DEF st, co
  <2>2. CASE row # NoRow
    <3>1. row \in Row
      BY <2>2 DEF TypeOK
    <3> QED BY <2>1, <2>2, <3>1 DEF Row
  <2>3. CASE row = NoRow
    BY <2>1, <2>3, <1>2, WrittenRow
  <2> QED BY <2>2, <2>3
<1> QED BY <1>1, <1>2

(* Nobody but the walkers whose turn it is has a save. *)
LEMMA SaverTurn ==
    ASSUME InTurn, NEW w \in Walkers, Saving(w)
    PROVE  \/ w = Main /\ walker[Main] \in {"created", "started", "ending", "failing"}
           \/ w # Main /\ walker[Main] = "join"
BY DEF InTurn, Walkers

LEMMA LastSaveInit == Init => LastSave
BY MainWalks, AsleepType, NoSavesType, NoSaveType, NoRowFields DEF Init, NewRun, LastSave, Begun

LEMMA LastSaveStep == TypeOK /\ Phase /\ InTurn /\ LastSave /\ [Next]_vars => LastSave'
<1> SUFFICES ASSUME TypeOK, Phase, InTurn, LastSave, [Next]_vars PROVE LastSave'
  OBVIOUS
<1> USE MainWalks, MainAssumption
<1>t. /\ walker \in [Walkers -> WalkerPc] /\ save \in [Walkers -> Save] /\ run \in Run
  BY DEF TypeOK
<1>1. ASSUME NEW w \in Walkers, Begin(w) PROVE LastSave'
  <2>1. /\ \A v \in Walkers : v # w => save'[v] = save[v]
        /\ save'[w].pc \in {"wait", "look"} /\ save'[w].status = run.status /\ UNCHANGED <<row, run, walker>> /\ Saving(w)
    BY <1>1, BeginShape DEF Begin, Saving
  <2>2. run.status = "success" => w = Main /\ walker[Main] = "ending"
    BY <2>1, SaverTurn DEF LastSave
  <2>3. row.status = "success" => w # Main
    BY <2>1 DEF LastSave
  <2> QED BY <2>1, <2>2, <2>3 DEF LastSave, Begun, Saving
<1>2. ASSUME NEW w \in Walkers, Raised(w) PROVE LastSave'
  <2>1. Saving(w) /\ UNCHANGED row
    BY <1>2 DEF Raised, Saving
  <2>2. /\ \A v \in Walkers : v # w => walker'[v] = walker[v] /\ save'[v] = save[v]
        /\ save'[w].pc \notin {"wait", "look"}
    BY <1>2, RaiseTurns
  <2>3. walker[Main] = "ending" => w = Main
    BY <2>1, SaverTurn
  <2>4. row.status = "success" => w # Main
    BY <2>1 DEF LastSave
  <2>5. row.status = "success" => ~Saving(w)
    BY <2>4, SaverTurn DEF LastSave
  <2>6. run'.status = "success" => run.status = "success" /\ walker[w] # "ending" /\ w = Main
    <3>1. run'.status = "success" => run.status = "success" /\ walker[w] # "ending"
      BY <1>2, RaiseTurns
    <3> QED BY <2>1, <3>1, SaverTurn DEF LastSave
  <2>7. run'.status # "success"
    BY <2>1, <2>6, SaverTurn DEF LastSave
  <2>8. walker'[Main] # "ending"
    BY <1>2, <2>2, <2>3, RaiseTurns
  <2>9. \A v \in Walkers : Begun(v)' /\ save'[v].status = "success" => FALSE
    BY <2>2, <2>3 DEF LastSave, Begun
  <2> QED BY <2>1, <2>5, <2>7, <2>8, <2>9 DEF LastSave
<1>3. ASSUME NEW w \in Walkers, Committed(w) PROVE LastSave'
  <2>1. /\ \A v \in Walkers : v # w => save'[v] = save[v]
        /\ save'[w].pc = "none" /\ UNCHANGED <<run, walker>> /\ row' = Written(w) /\ ~Refused(w)
        /\ save[w].pc = "look"
    BY <1>t, <1>3, NoSaveType DEF Committed
  <2>2. row'.status = "success" =>
           \/ w = Main /\ walker[Main] = "ending"
           \/ row.status = "success"
    BY <2>1, WrittenStatus DEF LastSave, Begun
  <2> QED BY <2>1, <2>2 DEF LastSave, Begun, Saving
<1>4. ASSUME NEW w \in Walkers, NEW s \in Steps, Looked(w, s) PROVE LastSave'
  <2>1. \A v \in Walkers : save'[v].pc = save[v].pc /\ save'[v].status = save[v].status
    BY <1>4, LookedShape DEF Looked
  <2> QED BY <1>4, <2>1 DEF Looked, LastSave, Begun, Saving
<1>5. ASSUME Create \/ Execute \/ Join \/ \E b \in Steps : BranchTurn(b) PROVE LastSave'
  <2>1. walker[Main] \in {"new", "created", "join"}
    BY <1>5 DEF Create, Execute, Join, BranchTurn, Head, StartStep, Settle, At, InTurn
  <2>2. PICK w \in Walkers, r \in Run, pc \in WalkerPc : Turn(w, r, pc)
    BY <1>5, Turns
  <2>3. /\ \A v \in Walkers : v # w => save'[v] = save[v]
        /\ save'[w].pc = "begin" /\ UNCHANGED row
    BY <2>2, SavesShape DEF Turn
  <2>4. /\ row.status # "success" /\ run.status # "success"
        /\ \A v \in Walkers : Begun(v) => save[v].status # "success"
    BY <2>1 DEF LastSave
  <2>5. \/ run'.status # "success" /\ walker'[Main] # "ending"
        \/ run'.status = "success" /\ walker'[Main] = "ending"
    <3>1. CASE Create
      BY <1>t, <3>1 DEF Create, Saves, NewRun
    <3>2. CASE Execute
      BY <1>t, <3>2 DEF Execute, Saves, Run
    <3>3. CASE Join
      <4>1. \/ run' = [run EXCEPT !.status = "failed"] /\ walker' = [walker EXCEPT ![Main] = "failing"]
            \/ run' = [run EXCEPT !.status = "success"] /\ walker' = [walker EXCEPT ![Main] = "ending"]
        BY <3>3 DEF Join, Saves
      <4> QED BY <1>t, <4>1 DEF Run
    <3>4. ASSUME NEW b \in Steps, BranchTurn(b) PROVE run'.status = run.status /\ walker'[Main] = walker[Main]
      <4>1. b # Main /\ \E to : walker' = [walker EXCEPT ![b] = to]
        BY <3>4 DEF BranchTurn, Head, StartStep, Settle, Saves
      <4>2. \/ run' = run
            \/ \E st \in StepStatus : run' = [run EXCEPT !.step[b] = st]
        BY <3>4 DEF BranchTurn, Head, StartStep, Settle, Saves, StepStatus
      <4> QED BY <1>t, <4>1, <4>2 DEF Run
    <3> QED BY <1>5, <2>1, <2>4, <3>1, <3>2, <3>3, <3>4
  <2>6. \A v \in Walkers : Begun(v)' => save'[v].status # "success"
    BY <2>3, <2>4 DEF Begun
  <2> QED BY <2>3, <2>4, <2>5, <2>6 DEF LastSave
<1>6. CASE Fork \/ End
  <2>1. /\ UNCHANGED <<row, run, save>> /\ ~Saving(Main)
        /\ \/ walker[Main] = "started" /\ walker'[Main] = "join"
           \/ walker[Main] \in {"ending", "failing"} /\ walker'[Main] = "ended"
    BY <1>t, <1>6 DEF Fork, End, At
  <2> QED BY <2>1 DEF LastSave, Begun, Saving
<1>7. CASE Delete
  <2>1. row' = row \/ row' = NoRow
    BY <1>7, DeleteShape
  <2> QED BY <1>7, <2>1, DeleteShape, NoRowFields DEF LastSave, Begun, Saving
<1>8. CASE Restart
  <2>1. \A w \in Walkers : save'[w].pc = "none"
    BY <1>8, RestartShape, NoSavesType, NoSaveType
  <2>2. UNCHANGED row
    BY <1>8, RestartShape
  <2>3. CASE row.status = "running" /\ row.versioned
    <3>1. run' \in Loaded /\ row \in Row /\ walker'[Main] = "created"
      BY <1>8, <2>3, AsleepType, NoRowFields DEF Restart, TypeOK, WalkerPc
    <3>2. run'.status = "running"
      BY <2>3, <3>1, LoadedShape
    <3> QED BY <2>1, <2>2, <2>3, <3>1, <3>2 DEF LastSave, Begun
  <2>4. CASE ~(row.status = "running" /\ row.versioned)
    <3>1. walker'[Main] = "lost" /\ UNCHANGED run
      BY <1>8, <2>4, AsleepType DEF Restart, WalkerPc
    <3> QED BY <2>1, <2>2, <3>1 DEF LastSave, Begun, Saving
  <2> QED BY <2>3, <2>4
<1>9. CASE UNCHANGED vars
  BY <1>9 DEF vars, LastSave, Begun, Saving
<1>10. ASSUME NEW w \in Walkers, Take(w) PROVE LastSave'
  <2>1. \A v \in Walkers :
           /\ Begun(v)' <=> Begun(v)
           /\ Saving(v)' <=> Saving(v)
           /\ save'[v].status = save[v].status
    BY <1>10, TakeShape DEF Begun, Saving
  <2>2. UNCHANGED <<row, run, walker>>
    BY <1>10 DEF Take
  <2> QED BY <2>1, <2>2 DEF LastSave
<1>11. ASSUME NEW b \in Steps, NEW st \in {"success", "failed"}, Answer(b, st) PROVE LastSave'
  <2>1. /\ run'.status = run.status /\ walker[b] = "calling" /\ UNCHANGED <<row, save>> /\ b # Main
        /\ walker' = [walker EXCEPT ![b] = IF st = "success" THEN "answered" ELSE "refused"]
    BY <1>11, AnswerShape
  <2>2. walker'[Main] = walker[Main]
    BY <1>t, <2>1
  <2> QED BY <2>1, <2>2 DEF LastSave, Begun, Saving
<1> QED BY <1>1, <1>2, <1>3, <1>4, <1>5, <1>6, <1>7, <1>8, <1>9, <1>10, <1>11, Kinds

-----------------------------------------------------------------------------
(* The last save of a run that ends as a success: what it has looked at fits  *)
(* the rows there are, and makes each of them a success; or the deletion has  *)
(* taken the row, and it will be refused.  Nobody changes the context of the  *)
(* run, or of its row, under it.                                              *)
Finishes(s) ==
    LET put == save[Main].puts[s] IN
    \/ put.kind = "insert" /\ put.by = Main /\ put.status = "success" /\ RowsOf(s) = {}
    \/ put.kind = "update" /\ put.status = "success" /\ RowsOf(s) = {put.by}
    \/ put.kind = "none" /\ \E w \in Walkers : RowsOf(s) = {w} /\ rows[s][w] = "success"

EndingSave ==
    walker[Main] = "ending" /\ Begun(Main) =>
       /\ save[Main].status = "success" /\ save[Main].base.status # "success"
       /\ save[Main].context = run.context
       /\ save[Main].base = NoRow => row = NoRow
       /\ save[Main].base # NoRow /\ row # NoRow => row.context = save[Main].base.context
       /\ \/ row = NoRow /\ save[Main].base # NoRow
          \/ \A s \in Steps \ save[Main].todo : Finishes(s)

(* A step without a second row has at most one. *)
LEMMA NotDoubled ==
    ASSUME NEW s \in Steps, ~Doubled(s), NEW w \in RowsOf(s)
    PROVE  RowsOf(s) = {w}
<1>1. IsFiniteSet(Walkers)
  BY StepsAssumption, FS_AddElement DEF Walkers
<1>2. IsFiniteSet(RowsOf(s))
  BY <1>1, FS_Subset DEF RowsOf
<1>3. ASSUME NEW v \in RowsOf(s), v # w PROVE FALSE
  <2>1. Cardinality({w}) = 1 /\ IsFiniteSet({w})
    BY FS_Singleton
  <2>2. Cardinality({w} \cup {v}) = 2 /\ IsFiniteSet({w} \cup {v})
    <3>1. v \notin {w}
      BY <1>3
    <3>2. Cardinality({w} \cup {v}) = Cardinality({w}) + 1 /\ IsFiniteSet({w} \cup {v})
      BY <2>1, <3>1, FS_AddElement
    <3> QED BY <2>1, <3>2
  <2>3. Cardinality({w} \cup {v}) <= Cardinality(RowsOf(s))
    BY <1>2, <1>3, FS_Subset
  <2>4. Cardinality(RowsOf(s)) \in Nat
    BY <1>2, FS_CardinalityType
  <2> QED BY <2>2, <2>3, <2>4 DEF Doubled
<1> QED BY <1>3

(* Looking at a step that is done finishes it. *)
LEMMA PutFinishes ==
    ASSUME TypeOK, NEW s \in Steps, ~Doubled(s), run.step[s] = "success"
    PROVE  LET put == PutOf(Main, s) IN
           \/ put.kind = "insert" /\ put.by = Main /\ put.status = "success" /\ RowsOf(s) = {}
           \/ put.kind = "update" /\ put.status = "success" /\ RowsOf(s) = {put.by}
           \/ put.kind = "none" /\ \E w \in Walkers : RowsOf(s) = {w} /\ rows[s][w] = "success"
<1>1. CASE RowsOf(s) = {}
  BY <1>1 DEF PutOf
<1>2. CASE RowsOf(s) # {}
  <2> DEFINE old == CHOOSE v \in Walkers : v \in RowsOf(s)
  <2>1. old \in Walkers /\ old \in RowsOf(s)
    BY <1>2 DEF RowsOf
  <2>2. PutOf(Main, s) = IF rows[s][old] = run.step[s] THEN NoPut
                         ELSE [kind |-> "update", by |-> old, status |-> run.step[s]]
    BY <1>2 DEF PutOf
  <2> HIDE DEF old
  <2>3. RowsOf(s) = {old}
    BY <2>1, NotDoubled
  <2>4. CASE rows[s][old] = "success"
    BY <2>1, <2>2, <2>3, <2>4, NoPutType
  <2>5. CASE rows[s][old] # "success"
    <3>1. PutOf(Main, s) = [kind |-> "update", by |-> old, status |-> "success"]
      BY <2>2, <2>5
    <3> QED BY <2>3, <3>1
  <2> QED BY <2>4, <2>5
<1> QED BY <1>1, <1>2

LEMMA EndingInit == Init => EndingSave /\ SuccessIsWhole
BY MainWalks, AsleepType, NoRowFields DEF Init, EndingSave, SuccessIsWhole

LEMMA EndingStep == TypeOK /\ Phase /\ InTurn /\ LastSave /\ EndingSave /\ [Next]_vars => EndingSave'
<1> SUFFICES ASSUME TypeOK, Phase, InTurn, LastSave, EndingSave, [Next]_vars PROVE EndingSave'
  OBVIOUS
<1> USE MainWalks, MainAssumption
<1>t. save \in [Walkers -> Save] /\ walker \in [Walkers -> WalkerPc] /\ run \in Run
  BY DEF TypeOK
<1>0. walker[Main] = "ending" => \A s \in Steps : run.step[s] = "success"
  BY DEF InTurn
<1>1. ASSUME NEW w \in Walkers, Begin(w) PROVE EndingSave'
  <2>1. /\ save'[w].base = row /\ save'[w].status = run.status /\ UNCHANGED <<row, run, walker>> /\ Saving(w)
        /\ save'[w].context = run.context
        /\ save'[w].todo = {s \in Steps : run.step[s] # "none"}
    BY <1>1, BeginShape DEF Begin, Saving
  <2>2. walker[Main] = "ending" => w = Main /\ run.status = "success"
    BY <2>1, SaverTurn DEF LastSave
  <2>3. w = Main => row.status # "success"
    BY <2>1 DEF LastSave
  <2>4. walker[Main] = "ending" => Steps \ save'[Main].todo = {}
    BY <1>0, <2>1, <2>2
  <2> QED BY <2>1, <2>2, <2>3, <2>4 DEF EndingSave
<1>2. ASSUME NEW w \in Walkers, Raised(w) PROVE EndingSave'
  <2>1. walker[Main] = "ending" => w = Main
    BY <1>2, SaverTurn DEF Raised, Saving
  <2>2. walker'[Main] # "ending"
    BY <1>2, <2>1, RaiseTurns
  <2> QED BY <2>2 DEF EndingSave
<1>3. ASSUME NEW w \in Walkers, Committed(w) PROVE EndingSave'
  <2>1. walker[Main] = "ending" => w = Main
    BY <1>3, SaverTurn DEF Committed, Saving
  <2>2. save'[w].pc = "none" /\ UNCHANGED walker
    BY <1>t, <1>3, NoSaveType DEF Committed
  <2> QED BY <2>1, <2>2 DEF EndingSave, Begun
<1>4. ASSUME NEW w \in Walkers, NEW s \in Steps, Looked(w, s) PROVE EndingSave'
  <2> SUFFICES ASSUME walker[Main] = "ending"
               PROVE  /\ save'[Main].status = "success" /\ save'[Main].base.status # "success"
                      /\ save'[Main].context = run'.context
                      /\ save'[Main].base = NoRow => row' = NoRow
                      /\ save'[Main].base # NoRow /\ row' # NoRow => row'.context = save'[Main].base.context
                      /\ \/ row' = NoRow /\ save'[Main].base # NoRow
                         \/ \A t \in Steps \ save'[Main].todo : Finishes(t)'
    BY <1>4 DEF Looked, EndingSave
  <2>1. w = Main /\ save[Main].pc = "look" /\ ~Doubled(s) /\ UNCHANGED <<row, rows, run>>
    BY <1>4, SaverTurn DEF Looked, Saving
  <2>2. /\ save'[Main].status = save[Main].status /\ save'[Main].base = save[Main].base
        /\ save'[Main].context = save[Main].context
        /\ save'[Main].todo = save[Main].todo \ {s} /\ save'[Main].puts[s] = PutOf(Main, s)
        /\ \A t \in Steps : t # s => save'[Main].puts[t] = save[Main].puts[t]
    BY <1>4, <2>1, LookedShape
  <2>3. \A t \in Steps : RowsOf(t)' = RowsOf(t)
    BY <2>1 DEF RowsOf
  <2>4. Finishes(s)'
    BY <1>0, <2>1, <2>2, <2>3, PutFinishes DEF Finishes
  <2>5. \A t \in Steps : t # s /\ Finishes(t) => Finishes(t)'
    BY <2>1, <2>2, <2>3 DEF Finishes
  <2> QED BY <2>1, <2>2, <2>4, <2>5 DEF EndingSave, Begun
<1>5. ASSUME Create \/ Execute \/ Join \/ \E b \in Steps : BranchTurn(b) PROVE EndingSave'
  <2>1. walker[Main] \in {"new", "created", "join"}
    BY <1>5 DEF Create, Execute, Join, BranchTurn, Head, StartStep, Settle, At, InTurn
  <2>2. PICK w \in Walkers, r \in Run, pc \in WalkerPc : Turn(w, r, pc)
    BY <1>5, Turns
  <2>3. /\ \A v \in Walkers : v # w => walker'[v] = walker[v]
        /\ save'[w].pc = "begin"
    BY <2>2, SavesShape DEF Turn
  <2> QED BY <2>1, <2>3 DEF EndingSave, Begun
<1>6. CASE Fork \/ End
  <2>1. walker'[Main] \in {"join", "ended"}
    BY <1>t, <1>6 DEF Fork, End
  <2> QED BY <2>1 DEF EndingSave
<1>7. CASE Delete
  <2> SUFFICES ASSUME walker[Main] = "ending", Begun(Main)
               PROVE  /\ save'[Main].status = "success" /\ save'[Main].base.status # "success"
                      /\ save'[Main].context = run'.context
                      /\ save'[Main].base = NoRow => row' = NoRow
                      /\ save'[Main].base # NoRow /\ row' # NoRow => row'.context = save'[Main].base.context
                      /\ \/ row' = NoRow /\ save'[Main].base # NoRow
                         \/ \A t \in Steps \ save'[Main].todo : Finishes(t)'
    BY <1>7, DeleteShape DEF EndingSave, Begun
  <2>1. /\ save'[Main].base = save[Main].base /\ save'[Main].status = save[Main].status
        /\ save'[Main].todo = save[Main].todo /\ save'[Main].context = save[Main].context /\ UNCHANGED run
    BY <1>7, DeleteShape
  <2>2. CASE ~row.versioned
    <3>1. UNCHANGED <<row, rows, save>>
      BY <1>7, <2>2 DEF Delete
    <3>2. \A t \in Steps : RowsOf(t)' = RowsOf(t)
      BY <3>1 DEF RowsOf
    <3>3. \A t \in Steps : Finishes(t)' = Finishes(t)
      BY <3>1, <3>2 DEF Finishes
    <3> QED BY <2>1, <3>1, <3>3 DEF EndingSave
  <2>3. CASE row.versioned
    <3>1. row # NoRow /\ row' = NoRow
      BY <1>7, <2>3, NoRowFields DEF Delete
    <3>2. save[Main].base # NoRow
      BY <3>1 DEF EndingSave
    <3> QED BY <2>1, <3>1, <3>2 DEF EndingSave
  <2> QED BY <2>2, <2>3
<1>8. CASE Restart
  BY <1>8, RestartShape, NoSavesType, NoSaveType DEF EndingSave, Begun
<1>9. CASE UNCHANGED vars
  <2>1. \A t \in Steps : RowsOf(t)' = RowsOf(t)
    BY <1>9 DEF vars, RowsOf
  <2>2. \A t \in Steps : Finishes(t)' = Finishes(t)
    BY <1>9, <2>1 DEF vars, Finishes
  <2> QED BY <1>9, <2>2 DEF vars, EndingSave, Begun
<1>10. ASSUME NEW w \in Walkers, Take(w) PROVE EndingSave'
  <2>1. /\ Begun(Main)' <=> Begun(Main)
        /\ save'[Main].base = save[Main].base /\ save'[Main].status = save[Main].status
        /\ save'[Main].context = save[Main].context /\ save'[Main].todo = save[Main].todo
        /\ save'[Main].puts = save[Main].puts
    BY <1>10, TakeShape DEF Begun
  <2>2. UNCHANGED <<row, rows, run, walker>>
    BY <1>10 DEF Take
  <2>3. \A t \in Steps : RowsOf(t)' = RowsOf(t)
    BY <2>2 DEF RowsOf
  <2>4. \A t \in Steps : Finishes(t)' = Finishes(t)
    BY <2>1, <2>2, <2>3 DEF Finishes
  <2> QED BY <2>1, <2>2, <2>4 DEF EndingSave
<1>11. ASSUME NEW b \in Steps, NEW st \in {"success", "failed"}, Answer(b, st) PROVE EndingSave'
  <2>1. /\ walker[b] = "calling" /\ b # Main
        /\ walker' = [walker EXCEPT ![b] = IF st = "success" THEN "answered" ELSE "refused"]
    BY <1>11, AnswerShape
  <2>2. walker'[Main] # "ending"
    BY <1>t, <2>1 DEF InTurn
  <2> QED BY <2>2 DEF EndingSave
<1> QED BY <1>1, <1>2, <1>3, <1>4, <1>5, <1>6, <1>7, <1>8, <1>9, <1>10, <1>11, Kinds

(* The commit that makes it a success writes a whole run. *)
LEMMA WholeCommit ==
    ASSUME TypeOK, InTurn, LastSave, EndingSave, row.status # "success",
           NEW w \in Walkers, Committed(w), row'.status = "success"
    PROVE  SuccessIsWhole'
<1> USE MainWalks, MainAssumption
<1>1. save[w].pc = "look" /\ save[w].todo = {} /\ ~Refused(w) /\ row' = Written(w) /\ rows' = WrittenSteps(w)
      /\ UNCHANGED <<run, resumed>>
  BY DEF Committed, storeFrame
<1>2. w = Main /\ walker[Main] = "ending" /\ Begun(Main)
  BY <1>1, WrittenStatus DEF LastSave, Begun
<1>3. save[Main].status = "success" /\ save[Main].base.status # "success"
      /\ (\/ row = NoRow /\ save[Main].base # NoRow
          \/ \A s \in Steps : Finishes(s))
  BY <1>1, <1>2 DEF EndingSave
<1>4. \A s \in Steps : Finishes(s)
  BY <1>1, <1>2, <1>3 DEF Refused, Changes
<1>5. Steps \ resumed' \subseteq row'.context
  <2>1. Steps \ resumed \subseteq run.context /\ save[Main].context = run.context
    BY <1>2 DEF InTurn, EndingSave
  <2>2. row'.context = save[Main].context
    <3>1. CASE save[Main].base = NoRow
      BY <1>1, <1>2, <3>1, WrittenRow
    <3>2. CASE save[Main].base # NoRow /\ row # NoRow
      <4>1. row.context = save[Main].base.context
        BY <1>2, <3>2 DEF EndingSave
      <4> QED BY <1>1, <1>2, <3>2, <4>1, WrittenRow
    <3>3. CASE save[Main].base # NoRow /\ row = NoRow
      BY <1>1, <1>2, <1>3, <3>3 DEF Refused, Changes
    <3> QED BY <3>1, <3>2, <3>3
  <2> QED BY <1>1, <2>1, <2>2
<1>6. ASSUME NEW s \in Steps PROVE \E v \in Walkers : RowsOf(s)' = {v} /\ rows'[s][v] = "success"
  <2> DEFINE put == save[Main].puts[s]
  <2>1. rows[s] \in [Walkers -> StepStatus] /\ put.by \in Walkers
    <3>1. save[Main] \in Save
      BY DEF TypeOK
    <3> QED BY <3>1, SaveFields, PutFields DEF TypeOK
  <2>2. rows'[s] = IF put.kind \in {"insert", "update"} THEN [rows[s] EXCEPT ![put.by] = put.status] ELSE rows[s]
    BY <1>1, <1>2 DEF WrittenSteps
  <2> HIDE DEF put
  <2>3. CASE put.kind \in {"insert", "update"} /\ put.status = "success" /\ RowsOf(s) \subseteq {put.by}
    <3>1. rows'[s][put.by] = "success" /\ \A v \in Walkers : v # put.by => rows'[s][v] = "none"
      BY <2>1, <2>2, <2>3 DEF RowsOf
    <3> QED BY <2>1, <3>1 DEF RowsOf
  <2>4. CASE put.kind = "none" /\ \E v \in Walkers : RowsOf(s) = {v} /\ rows[s][v] = "success"
    <3>1. rows'[s] = rows[s]
      BY <2>2, <2>4
    <3> QED BY <2>4, <3>1 DEF RowsOf
  <2> QED BY <1>4, <2>3, <2>4 DEF Finishes, put
<1> QED BY <1>5, <1>6 DEF SuccessIsWhole

(* Whatever overlaps, is deleted or dies: a run that is stored as SUCCESS has  *)
(* one row for each of its steps, each a SUCCESS, and the results of all that  *)
(* the execution which ended it has run: no save of a branch is forgotten, and *)
(* none comes after the last one of the run.                                   *)
THEOREM SuccessAlwaysWhole == Spec => []SuccessIsWhole
<1>1. TypeOK /\ Phase /\ InTurn /\ LastSave /\ EndingSave /\ SuccessIsWhole /\ [Next]_vars => SuccessIsWhole'
  <2> SUFFICES ASSUME TypeOK, Phase, InTurn, LastSave, EndingSave, SuccessIsWhole, [Next]_vars
               PROVE  SuccessIsWhole'
    OBVIOUS
  <2>1. CASE UNCHANGED <<row, rows, resumed>>
    <3>1. \A s \in Steps : RowsOf(s)' = RowsOf(s)
      BY <2>1 DEF RowsOf
    <3> QED BY <2>1, <3>1 DEF SuccessIsWhole
  <2>2. ASSUME NEW w \in Walkers, Committed(w) PROVE SuccessIsWhole'
    <3>1. CASE row.status = "success"
      BY <2>2, <3>1, SaverTurn DEF LastSave, Committed, Saving
    <3>2. CASE row.status # "success"
      BY <2>2, <3>2, WholeCommit DEF SuccessIsWhole
    <3> QED BY <3>1, <3>2
  <2>3. CASE Delete
    <3>1. UNCHANGED <<row, rows, resumed>> \/ row' = NoRow
      BY <2>3, DeleteShape
    <3> QED BY <2>1, <3>1, NoRowFields DEF SuccessIsWhole
  <2>4. CASE Create \/ Execute \/ Join \/ \E b \in Steps : BranchTurn(b)
    <3>1. UNCHANGED row
      BY <2>4 DEF Create, Execute, Join, BranchTurn, Head, StartStep, Settle, Saves
    <3>2. walker[Main] \in {"new", "created", "join"}
      BY <2>4 DEF Create, Execute, Join, BranchTurn, Head, StartStep, Settle, At, InTurn
    <3> QED BY <3>1, <3>2 DEF LastSave, SuccessIsWhole
  <2>5. CASE Fork \/ End \/ Restart \/ UNCHANGED vars \/ \E w \in Walkers :
               Begin(w) \/ Take(w) \/ Raised(w) \/ \E s \in Steps : Looked(w, s)
    <3>1. UNCHANGED <<row, rows, resumed>>
      BY <2>5 DEF Fork, End, Restart, vars, Begin, Take, Raised, Looked, storeFrame
    <3> QED BY <2>1, <3>1
  <2>6. CASE \E b \in Steps, st \in {"success", "failed"} : Answer(b, st)
    <3>1. UNCHANGED <<row, rows, resumed>>
      BY <2>6 DEF Answer, storeFrame
    <3> QED BY <2>1, <3>1
  <2> QED BY <2>2, <2>3, <2>4, <2>5, <2>6, Kinds
<1> QED BY <1>1, InitInv, TypeStep, PhaseStep, InTurnInit, InTurnStep, LastSaveInit, LastSaveStep, EndingInit,
           EndingStep, PTL DEF Spec

-----------------------------------------------------------------------------
(* What a save did not find, the deletion has taken: the version, the row it  *)
(* was to change, and - nobody saves while the main walker does - the row of   *)
(* the run.                                                                   *)
Causes ==
    /\ \A w \in Walkers : Begun(w) /\ ~save[w].versioned => ~deployed
    /\ row # NoRow /\ ~row.versioned => ~deployed
    /\ \A w \in Walkers, s \in Steps : save[w].puts[s].kind = "gone" => ~deployed
    /\ Begun(Main) /\ save[Main].base # row => ~deployed

LEMMA CausesInit == Init => Causes /\ StuckHasCause
BY MainWalks, AsleepType, NoSavesType, NoSaveType, NoPutType, NoRowFields DEF Init, Causes, Begun, StuckHasCause

LEMMA CausesStep == TypeOK /\ Phase /\ InTurn /\ Causes /\ [Next]_vars => Causes'
<1> SUFFICES ASSUME TypeOK, Phase, InTurn, Causes, [Next]_vars PROVE Causes'
  OBVIOUS
<1> USE MainWalks, MainAssumption
<1>t. save \in [Walkers -> Save]
  BY DEF TypeOK
<1>1. ASSUME NEW w \in Walkers, Begin(w) PROVE Causes'
  <2>1. /\ \A v \in Walkers : v # w => save'[v] = save[v]
        /\ save'[w].base = row /\ save'[w].versioned = deployed /\ UNCHANGED <<row, deployed>>
        /\ \A s \in Steps : save'[w].puts[s].kind = "none"
    BY <1>1, BeginShape DEF Begin, storeFrame
  <2> QED BY <2>1 DEF Causes, Begun
<1>2. ASSUME NEW w \in Walkers, Raised(w) PROVE Causes'
  <2>1. /\ \A v \in Walkers : v # w => save'[v] = save[v]
        /\ save'[w].pc \notin {"wait", "look"} /\ \A s \in Steps : save'[w].puts[s].kind = "none"
        /\ UNCHANGED <<row, deployed>>
    BY <1>2, RaiseTurns DEF Raised, storeFrame
  <2> QED BY <2>1 DEF Causes, Begun
<1>3. ASSUME NEW w \in Walkers, Committed(w) PROVE Causes'
  <2>1. /\ \A v \in Walkers : v # w => save'[v] = save[v]
        /\ save'[w].pc = "none" /\ (\A s \in Steps : save'[w].puts[s].kind = "none")
        /\ row' = Written(w) /\ ~Refused(w) /\ UNCHANGED deployed /\ save[w].pc = "look"
    BY <1>t, <1>3, NoSaveType, NoPutType DEF Committed, storeFrame
  <2>2. w # Main => ~Saving(Main)
    BY <2>1, SaverTurn DEF Saving
  <2>3. row' # NoRow /\ ~row'.versioned => ~deployed
    BY <2>1, WrittenStatus DEF Causes, Begun
  <2> QED BY <2>1, <2>2, <2>3 DEF Causes, Begun, Saving
<1>4. ASSUME NEW w \in Walkers, NEW s \in Steps, Looked(w, s) PROVE Causes'
  <2>1. /\ \A v \in Walkers : v # w => save'[v] = save[v]
        /\ save'[w].base = save[w].base /\ save'[w].versioned = save[w].versioned
        /\ save'[w].puts[s] = PutOf(w, s) /\ \A t \in Steps : t # s => save'[w].puts[t] = save[w].puts[t]
    BY <1>4, LookedShape
  <2>2. PutOf(w, s).kind # "gone"
    BY PutShape
  <2>3. UNCHANGED <<row, deployed>>
    BY <1>4 DEF Looked, storeFrame
  <2>4. save[w].pc = "look"
    BY <1>4 DEF Looked
  <2> QED BY <2>1, <2>2, <2>3, <2>4 DEF Causes, Begun
<1>5. CASE Create \/ Execute \/ Join \/ \E b \in Steps : BranchTurn(b)
  <2>1. PICK w \in Walkers, r \in Run, pc \in WalkerPc : Turn(w, r, pc)
    BY <1>5, Turns
  <2>2. /\ \A v \in Walkers : v # w => save'[v] = save[v]
        /\ save'[w].pc = "begin" /\ (\A s \in Steps : save'[w].puts[s].kind = "none")
        /\ UNCHANGED <<row, deployed>>
    BY <2>1, SavesShape DEF Turn
  <2> QED BY <2>2 DEF Causes, Begun
<1>6. CASE Fork \/ End \/ UNCHANGED vars
  BY <1>6 DEF Fork, End, vars, storeFrame, Causes, Begun
<1>7. CASE Delete
  BY <1>7 DEF Delete, Causes
<1>8. CASE Restart
  BY <1>8, RestartShape, NoSavesType, NoSaveType, NoPutType DEF Causes, Begun
<1>9. ASSUME NEW w \in Walkers, Take(w) PROVE Causes'
  <2>1. \A v \in Walkers :
           /\ Begun(v)' <=> Begun(v)
           /\ save'[v].base = save[v].base /\ save'[v].versioned = save[v].versioned /\ save'[v].puts = save[v].puts
    BY <1>9, TakeShape DEF Begun
  <2>2. UNCHANGED <<row, deployed>>
    BY <1>9 DEF Take, storeFrame
  <2> QED BY <2>1, <2>2 DEF Causes
<1>10. ASSUME NEW b \in Steps, NEW st \in {"success", "failed"}, Answer(b, st) PROVE Causes'
  <2>1. UNCHANGED <<row, save, deployed>>
    BY <1>10, AnswerShape
  <2> QED BY <2>1 DEF Causes, Begun
<1> QED BY <1>1, <1>2, <1>3, <1>4, <1>5, <1>6, <1>7, <1>8, <1>9, <1>10, Kinds

(* For any number of branches, rounds and deaths of the process: a run whose   *)
(* row still says RUNNING is given up for no other reason than a step with two *)
(* rows, over which every save of the run then stumbles, or the deletion of    *)
(* its workflow; no other refusal of a save leaves a run behind.               *)
THEOREM StuckOnlyByCause == Spec => []StuckHasCause
<1>1. TypeOK /\ Phase /\ InTurn /\ Causes /\ StuckHasCause /\ [Next]_vars => StuckHasCause'
  <2> SUFFICES ASSUME TypeOK, Phase, InTurn, Causes, StuckHasCause, [Next]_vars,
                      walker'[Main] = "lost", row'.status = "running", deployed'
               PROVE  (\E s \in Steps : Doubled(s))'
    BY DEF StuckHasCause
  <2> USE MainWalks, MainAssumption
  <2>t. walker \in [Walkers -> WalkerPc]
    BY DEF TypeOK
  <2>0. UNCHANGED rows => (\E s \in Steps : Doubled(s)) = (\E s \in Steps : Doubled(s))'
    BY DEF Doubled, RowsOf
  <2>1. ASSUME NEW w \in Walkers, Raised(w) PROVE (\E s \in Steps : Doubled(s))'
    <3>1. UNCHANGED <<row, rows, deployed>> /\ save[w].pc = "look" /\ (Refused(w) \/ \E s \in Steps : Doubled(s))
      BY <2>1 DEF Raised, storeFrame
    <3>2. CASE w = Main
      <4>1. ~Refused(Main)
        BY <3>1, <3>2 DEF Refused, Causes, Begun, Has
      <4> QED BY <2>0, <3>1, <3>2, <4>1
    <3>3. CASE w # Main
      BY <2>1, <3>1, <3>3, RaiseTurns, SaverTurn DEF Saving
    <3> QED BY <3>2, <3>3
  <2>2. ASSUME NEW w \in Walkers, Committed(w) PROVE FALSE
    <3>1. Saving(w) /\ walker[Main] = "lost"
      BY <2>2 DEF Committed, Saving
    <3> QED BY <3>1, SaverTurn
  <2>3. CASE Restart
    <3>1. UNCHANGED <<row, rows, deployed>>
      BY <2>3 DEF Restart
    <3>2. CASE row.status = "running" /\ row.versioned
      <4>1. walker' = [Asleep EXCEPT ![Main] = "created"]
        BY <2>3, <3>2 DEF Restart
      <4> QED BY <4>1, AsleepType
    <3>3. CASE ~(row.status = "running" /\ row.versioned)
      BY <3>1, <3>3, NoRowFields DEF Causes
    <3> QED BY <3>2, <3>3
  <2>4. ASSUME UNCHANGED <<row, rows, deployed>>, walker[Main] = "lost" PROVE (\E s \in Steps : Doubled(s))'
    BY <2>0, <2>4 DEF StuckHasCause
  <2>5. CASE Create \/ Execute \/ Join \/ \E b \in Steps : BranchTurn(b)
    <3>1. walker[Main] \in {"new", "created", "join"} /\ walker'[Main] \in {"created", "started", "ending", "failing", "join"}
      BY <2>t, <2>5 DEF Create, Execute, Join, BranchTurn, Head, StartStep, Settle, At, Saves, InTurn
    <3> QED BY <3>1
  <2>6. CASE Fork \/ End \/ Delete
    BY <2>t, <2>6 DEF Fork, End, Delete
  <2>7. CASE UNCHANGED vars \/ \E w \in Walkers : Begin(w) \/ Take(w) \/ \E s \in Steps : Looked(w, s)
    BY <2>4, <2>7 DEF vars, Begin, Take, Looked, storeFrame
  <2>8. ASSUME NEW b \in Steps, NEW st \in {"success", "failed"}, Answer(b, st) PROVE FALSE
    <3>1. walker[b] = "calling" /\ walker[Main] = "join" /\ b # Main
      BY <2>8, AnswerShape DEF InTurn
    <3> QED BY <2>t, <2>8, <3>1, AnswerShape
  <2> QED BY <2>1, <2>2, <2>3, <2>5, <2>6, <2>7, <2>8, Kinds
<1> QED BY <1>1, InitInv, TypeStep, PhaseStep, InTurnInit, InTurnStep, CausesInit, CausesStep, PTL DEF Spec

=============================================================================

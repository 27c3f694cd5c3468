------------------------------- MODULE RunRows -------------------------------
(***************************************************************************)
(* The rows of one run, and the save_run calls that write them.            *)
(*                                                                         *)
(* The branches of a parallel step share one WorkflowRun and save it at    *)
(* every turn.  A save reads the row of the run and, one after the other,  *)
(* those of its steps, prepares an INSERT or an UPDATE of what differs,    *)
(* and commits; other saves, and the deletion of the workflow, go on in    *)
(* between.  Nothing makes (run_id, step_id) unique.                       *)
(*                                                                         *)
(* Transactions read what is committed.  A session sends what has been     *)
(* assigned before its next select: the row of the run is written as the   *)
(* run was when the save began, the rows of the steps as each was when its *)
(* turn came, and no later change of the live run is seen.  Who writes the *)
(* row of the run has it until the commit.  A step row stands for its      *)
(* status: its other columns are compared and written the same way, each   *)
(* on its own.                                                             *)
(*                                                                         *)
(* Definitions named Bug... are faults put in the place of the definition  *)
(* that follows them, to see that the properties notice.                   *)
(***************************************************************************)
EXTENDS Naturals, FiniteSets

CONSTANTS
    Steps,      \* the action steps, each in a branch of its own
    Main,       \* the walker that forks the branches and waits for them
    MaxRounds,  \* bound: how often a branch loops over its step
    MaxStops    \* bound: deaths of the process

ASSUME StepsAssumption == IsFiniteSet(Steps)
ASSUME MainAssumption == Main \notin Steps
ASSUME BoundsAssumption == MaxRounds \in Nat \ {0} /\ MaxStops \in Nat

Walkers == Steps \cup {Main}
Status == {"pending", "running", "success", "failed"}
StepStatus == {"none", "running", "success", "failed"}

\* context stands for context["steps"], the steps that have a result
Row == [status : Status, context : SUBSET Steps, versioned : BOOLEAN]
NoRow == [status |-> "none", context |-> {}, versioned |-> FALSE]
Run == [status : Status, context : SUBSET Steps, step : [Steps -> StepStatus]]
NewRun == [status |-> "pending", context |-> {}, step |-> [s \in Steps |-> "none"]]

VARIABLES
    deployed,   \* the flow has its rows
    row,        \* the row of the run
    rows,       \* the step rows: rows[s][w] is the one that a save of w inserted
    run,        \* the WorkflowRun all walkers share
    walker,     \* how far each walker is; it goes on when its save is over
    save,       \* the save_run under way of each walker
    resumed,    \* resumed_success_ids
    rounds,     \* how often each branch has looped
    stops,      \* how much of MaxStops is used
    overlapped  \* history: two saves have been under way at once

vars == <<deployed, row, rows, run, walker, save, resumed, rounds, stops, overlapped>>

\* What a save will do to a step: insert a row, or update the one of by, which
\* may be gone when it does.
Put == [kind : {"none", "insert", "update", "gone"}, by : Walkers, status : StepStatus]
NoPut == [kind |-> "none", by |-> Main, status |-> "none"]

\* base is the row of the run as read, versioned whether a version was found;
\* status and context are what is assigned to it
Save == [pc : {"none", "begin", "wait", "look"}, base : Row \cup {NoRow}, versioned : BOOLEAN,
         status : Status, context : SUBSET Steps, todo : SUBSET Steps, puts : [Steps -> Put]]
NoSave == [pc |-> "none", base |-> NoRow, versioned |-> FALSE, status |-> "pending",
           context |-> {}, todo |-> {}, puts |-> [s \in Steps |-> NoPut]]

WalkerPc == {"off", "head", "entered", "calling", "answered", "refused", "over", "raised",
             "new", "created", "started", "join", "ending", "failing", "ended", "lost"}

TypeOK ==
    /\ deployed \in BOOLEAN /\ overlapped \in BOOLEAN
    /\ row \in Row \cup {NoRow} /\ rows \in [Steps -> [Walkers -> StepStatus]]
    /\ run \in Run
    /\ walker \in [Walkers -> WalkerPc] /\ save \in [Walkers -> Save]
    /\ resumed \subseteq Steps
    /\ rounds \in [Steps -> 0..MaxRounds] /\ stops \in 0..MaxStops

Asleep == [w \in Walkers |-> IF w = Main THEN "new" ELSE "off"]
NoRows == [s \in Steps |-> [w \in Walkers |-> "none"]]
NoSaves == [w \in Walkers |-> NoSave]

Init ==
    /\ deployed = TRUE
    /\ row = NoRow /\ rows = NoRows
    /\ run = NewRun
    /\ walker = Asleep /\ save = NoSaves
    /\ resumed = {} /\ rounds = [s \in Steps |-> 0]
    /\ stops = 0 /\ overlapped = FALSE

-----------------------------------------------------------------------------
(* save_run, statement by statement.                                       *)

RowsOf(s) == {w \in Walkers : rows[s][w] # "none"}
Doubled(s) == Cardinality(RowsOf(s)) > 1
Saving(w) == save[w].pc # "none"

storeFrame == <<deployed, resumed, rounds, stops>>

(* Whether there is a row to UPDATE and something to change in it. *)
Changes(x) == x.base # NoRow /\ (x.status # x.base.status \/ x.context # x.base.context)

(* The save has written the row of the run and not committed yet. *)
Holds(w) == save[w].pc = "look" /\ Changes(save[w])

(* The select of the version, session.get, and what follows without a wait:
   the assignments to the row of the run, the list of the steps, and the
   autoflush that the first select of a step brings about. *)
Begin(w) ==
    /\ save[w].pc = "begin"
    /\ LET x == [NoSave EXCEPT !.pc = "look", !.base = row, !.versioned = deployed,
                               !.status = run.status, !.context = run.context,
                               !.todo = {s \in Steps : run.step[s] # "none"}]
       IN save' = [save EXCEPT ![w] = IF Changes(x) THEN [x EXCEPT !.pc = "wait"] ELSE x]
    /\ UNCHANGED <<row, rows, run, walker, overlapped, storeFrame>>

(* The UPDATE goes through when nobody else has the row. *)
Take(w) ==
    /\ save[w].pc = "wait" /\ \A v \in Walkers : ~Holds(v)
    /\ save' = [save EXCEPT ![w].pc = "look"]
    /\ UNCHANGED <<row, rows, run, walker, overlapped, storeFrame>>

(* An exception leaves save_run.  In a branch the gather collects it; the save
   of SUCCESS is inside the try of _execute, the others of Main are not. *)
Raise(w) ==
    IF walker[w] = "ending"
       THEN /\ run' = [run EXCEPT !.status = "failed"]
            /\ walker' = [walker EXCEPT ![w] = "failing"]
            /\ save' = [save EXCEPT ![w] = [NoSave EXCEPT !.pc = "begin"]]
       ELSE /\ walker' = [walker EXCEPT ![w] = IF w = Main THEN "lost" ELSE "raised"]
            /\ save' = [save EXCEPT ![w] = NoSave]
            /\ UNCHANGED run

BugPutOf(w, s) == [kind |-> "insert", by |-> w, status |-> run.step[s]]
BugPutOnce(w, s) ==
    IF RowsOf(s) = {} THEN [kind |-> "insert", by |-> w, status |-> run.step[s]] ELSE NoPut
PutOf(w, s) ==
    IF RowsOf(s) = {}
       THEN [kind |-> "insert", by |-> w, status |-> run.step[s]]
       ELSE LET old == CHOOSE v \in Walkers : v \in RowsOf(s) IN
            IF rows[s][old] = run.step[s] THEN NoPut
               ELSE [kind |-> "update", by |-> old, status |-> run.step[s]]

(* One turn of the loop over the steps; scalar_one_or_none raises on two rows. *)
Look(w) ==
    /\ save[w].pc = "look"
    /\ \E s \in save[w].todo :
          \/ Doubled(s) /\ Raise(w)
          \/ /\ ~Doubled(s)
             /\ save' = [save EXCEPT ![w].todo = @ \ {s}, ![w].puts[s] = PutOf(w, s)]
             /\ UNCHANGED <<run, walker>>
    /\ UNCHANGED <<row, rows, overlapped, storeFrame>>

Has(w, kind) == \E s \in Steps : save[w].puts[s].kind = kind

(* The primary key, the foreign keys, or a row that is no longer there. *)
Refused(w) ==
    \/ save[w].base = NoRow /\ (row # NoRow \/ (save[w].versioned /\ ~deployed))
    \/ save[w].base # NoRow /\ row = NoRow /\ (Changes(save[w]) \/ Has(w, "insert"))
    \/ Has(w, "gone")

(* The columns that differ from the row as it was read. *)
Written(w) ==
    LET x == save[w] IN
    IF x.base = NoRow
       THEN [status |-> x.status, context |-> x.context, versioned |-> x.versioned]
       ELSE [row EXCEPT !.status = IF x.status # x.base.status THEN x.status ELSE @,
                        !.context = IF x.context # x.base.context THEN x.context ELSE @]

WrittenSteps(w) ==
    [s \in Steps |->
       LET put == save[w].puts[s] IN
       IF put.kind \in {"insert", "update"} THEN [rows[s] EXCEPT ![put.by] = put.status] ELSE rows[s]]

Commit(w) ==
    /\ save[w].pc = "look" /\ save[w].todo = {}
    /\ \/ /\ Refused(w) /\ Raise(w)
          /\ UNCHANGED <<row, rows>>
       \/ /\ ~Refused(w)
          /\ row' = Written(w)
          /\ rows' = WrittenSteps(w)
          /\ save' = [save EXCEPT ![w] = NoSave]
          /\ UNCHANGED <<run, walker>>
    /\ UNCHANGED <<overlapped, storeFrame>>

-----------------------------------------------------------------------------
(* The walkers: each changes the run and saves it.                         *)

At(w, pc) == walker[w] = pc /\ ~Saving(w)

Saves(w, r, pc) ==
    /\ run' = r
    /\ walker' = [walker EXCEPT ![w] = pc]
    /\ save' = [save EXCEPT ![w] = [NoSave EXCEPT !.pc = "begin"]]
    /\ overlapped' = (overlapped \/ \E v \in Walkers \ {w} : Saving(v))
    /\ UNCHANGED <<row, rows>>

Create ==
    /\ deployed
    /\ At(Main, "new") /\ Saves(Main, NewRun, "created")
    /\ UNCHANGED storeFrame

(* Main's saves up to the fork have nobody to overlap: one stands for them. *)
Execute ==
    /\ At(Main, "created") /\ Saves(Main, [run EXCEPT !.status = "running"], "started")
    /\ resumed' = {s \in Steps : run.step[s] = "success"}
    /\ UNCHANGED <<deployed, rounds, stops>>

Fork ==
    /\ At(Main, "started")
    /\ walker' = [w \in Walkers |-> IF w = Main THEN "join" ELSE "head"]
    /\ UNCHANGED <<row, rows, run, save, overlapped, storeFrame>>

(* The head of the loop of _run_from_step saves before the step is dispatched,
   and skipped when it is one of the resumed ones. *)
Head(b) ==
    /\ At(b, "head") /\ Saves(b, run, IF b \in resumed THEN "over" ELSE "entered")
    /\ UNCHANGED storeFrame

StartStep(b) ==
    /\ At(b, "entered") /\ Saves(b, [run EXCEPT !.step[b] = "running"], "calling")
    /\ UNCHANGED storeFrame

(* The plugin has answered: the step and, when it succeeded, the context have
   changed, and the event of the answer goes out before they are saved. *)
Answer(b, status) ==
    /\ At(b, "calling")
    /\ run' = [run EXCEPT !.step[b] = status, !.context = IF status = "success" THEN @ \cup {b} ELSE @]
    /\ walker' = [walker EXCEPT ![b] = IF status = "success" THEN "answered" ELSE "refused"]
    /\ UNCHANGED <<row, rows, save, overlapped, storeFrame>>

(* The finally of _run_action.  In a loop the branch may turn to its step again. *)
Settle(b) ==
    \/ /\ At(b, "answered")
       /\ \E pc \in IF rounds[b] + 1 < MaxRounds THEN {"head", "over"} ELSE {"over"} : Saves(b, run, pc)
       /\ rounds' = [rounds EXCEPT ![b] = @ + 1]
       /\ UNCHANGED <<deployed, resumed, stops>>
    \/ At(b, "refused") /\ Saves(b, run, "raised") /\ UNCHANGED storeFrame

(* gather, and the end of _execute. *)
Joined == \A b \in Steps : At(b, "over") \/ At(b, "raised")

Join ==
    /\ At(Main, "join") /\ Joined
    /\ IF \E b \in Steps : walker[b] = "raised"
          THEN Saves(Main, [run EXCEPT !.status = "failed"], "failing")
          ELSE Saves(Main, [run EXCEPT !.status = "success"], "ending")
    /\ UNCHANGED storeFrame

End ==
    /\ At(Main, "ending") \/ At(Main, "failing")
    /\ walker' = [walker EXCEPT ![Main] = "ended"]
    /\ UNCHANGED <<row, rows, run, save, overlapped, storeFrame>>

-----------------------------------------------------------------------------
(* delete_definition, which waits for the row of the run too.  Its statements
   are one step here: a save that commits between them makes it raise and leave
   everything as it was. *)
Delete ==
    /\ deployed /\ deployed' = FALSE
    /\ row.versioned => \A w \in Walkers : ~Holds(w)
    /\ IF row.versioned
          THEN /\ row' = NoRow /\ rows' = NoRows
               /\ save' = [w \in Walkers |->
                     [save[w] EXCEPT !.puts = [s \in Steps |->
                         IF @[s].kind = "update" THEN [@[s] EXCEPT !.kind = "gone"] ELSE @[s]]]]
          ELSE UNCHANGED <<row, rows, save>>
    /\ UNCHANGED <<run, walker, resumed, rounds, stops, overlapped>>

(* get_run: of several rows of a step, any is the last of the dictionary. *)
Loaded == {[status |-> row.status, context |-> row.context, step |-> f] :
             f \in {f \in [Steps -> StepStatus] : \A s \in Steps :
                      IF RowsOf(s) = {} THEN f[s] = "none" ELSE \E w \in RowsOf(s) : f[s] = rows[s][w]}}

(* The process dies and is loaded again; open transactions are rolled back.  A
   row that is RUNNING is resumed, unless it has lost its version: get_run then
   has no workflow_name to build a WorkflowRun with. *)
BugRestartAlways ==
    /\ stops < MaxStops /\ stops' = stops + 1
    /\ save' = NoSaves
    /\ run' \in Loaded /\ walker' = [Asleep EXCEPT ![Main] = "created"]
    /\ rounds' = [s \in Steps |-> 0]
    /\ UNCHANGED <<deployed, row, rows, resumed, overlapped>>

BugRestartForgets ==
    /\ stops < MaxStops /\ stops' = stops + 1
    /\ save' = NoSaves
    /\ walker' = [Asleep EXCEPT ![Main] = "lost"]
    /\ rounds' = [s \in Steps |-> 0]
    /\ UNCHANGED <<deployed, row, rows, run, resumed, overlapped>>

Restart ==
    /\ stops < MaxStops /\ stops' = stops + 1
    /\ save' = NoSaves
    /\ IF row.status = "running" /\ row.versioned
          THEN run' \in Loaded /\ walker' = [Asleep EXCEPT ![Main] = "created"]
          ELSE walker' = [Asleep EXCEPT ![Main] = "lost"] /\ UNCHANGED run
    /\ rounds' = [s \in Steps |-> 0]
    /\ UNCHANGED <<deployed, row, rows, resumed, overlapped>>

Rest ==
    /\ walker[Main] \in {"ended", "lost"} \/ (walker[Main] = "new" /\ ~deployed)
    /\ \A w \in Walkers : ~Saving(w)
    /\ UNCHANGED vars

Branch(b) == Head(b) \/ StartStep(b) \/ (\E st \in {"success", "failed"} : Answer(b, st)) \/ Settle(b)
Store(w) == Begin(w) \/ Take(w) \/ Look(w) \/ Commit(w)

Next ==
    \/ \E w \in Walkers : Store(w)
    \/ Create \/ Execute \/ Fork \/ Join \/ End
    \/ \E b \in Steps : Branch(b)
    \/ Delete \/ Restart \/ Rest

Spec == Init /\ [][Next]_vars

-----------------------------------------------------------------------------
(* Properties.                                                             *)

(* A run stored as SUCCESS has one row for each of its steps, all SUCCESS, and
   the results of all the steps that the execution which ended it has run: no
   save of a branch is missing or came too late.  The steps that a resumption
   skips are another matter, see ResultsKept. *)
SuccessIsWhole ==
    row.status = "success" =>
        /\ Steps \ resumed \subseteq row.context
        /\ \A s \in Steps : \E w \in Walkers : RowsOf(s) = {w} /\ rows[s][w] = "success"

(* A step has a second row only where two saves have overlapped. *)
DoubledOnlyByOverlap ==
    (\E s \in Steps : Doubled(s)) => overlapped

(* A run is given up while its row says RUNNING only because of a step with
   two rows, or of the deletion of its workflow. *)
StuckHasCause ==
    walker[Main] = "lost" /\ row.status = "running" => ~deployed \/ \E s \in Steps : Doubled(s)

(* What crash recovery and the steps after a fork are written for: a run that
   ends as SUCCESS, resumed or not, has the results of all its branches. *)
ResultsKept == deployed /\ row.status = "success" => row.context = Steps

(* save_run's scalar_one_or_none: a step of a run has one row at most. *)
OneRowPerStep == \A s \in Steps : ~Doubled(s)

=============================================================================

----------------------------- MODULE Composites -----------------------------
(***************************************************************************)
(* The composite nodes of a tenant: registering, deleting and reading one  *)
(* of them, and its expansion into the steps of a workflow.                *)
(*                                                                         *)
(* Requests interleave between their select and their commit.  The         *)
(* identifier of a step or of an instance is the sequence of its words:    *)
(* what expand_composite joins with "_" is joined here.                    *)
(*                                                                         *)
(* Definitions named Bug... are faults put in the place of the definition  *)
(* that follows them, to see that the properties notice.                   *)
(***************************************************************************)
EXTENDS Naturals, Sequences

CONSTANTS
    Ids,          \* identifiers of steps
    Instances,    \* identifiers of instances
    Inputs,       \* names of inputs
    None,         \* no target
    Definitions,  \* what is registered
    Ops,          \* concurrent requests
    MaxCreates,   \* bound: registrations
    MaxDeletes,   \* bound: deletions
    MaxCuts       \* bound: deaths of the process

ASSUME BoundsAssumption == MaxCreates \in Nat /\ MaxDeletes \in Nat /\ MaxCuts \in Nat
ASSUME WordsAssumption ==
    /\ \A i \in Ids \cup Instances : i \in Seq(STRING) /\ i # <<>>
    /\ None \notin Seq(STRING)

\* next and fail are on_success and on_failure; to are the targets that only
\* its kind of step has: of a condition, a switch, a parallel or a foreach
Target == Ids \cup {None}
Step == [next : Target, fail : Target, to : SUBSET Ids]

\* first is the first of the steps, given (input_mappings) the inputs of each
\* step, out the source of the output
Definition(d) ==
    /\ d.first \in DOMAIN d.step /\ DOMAIN d.step \subseteq Ids
    /\ \A s \in DOMAIN d.step : d.step[s] \in Step
    /\ d.given \in [DOMAIN d.step -> SUBSET Inputs] /\ d.out \in Ids

ASSUME DefinitionsAssumption == \A d \in Definitions : Definition(d)

VARIABLES
    row,        \* the row of the composite
    op,         \* the requests under way
    accepted,   \* history: <<version, definition>> of each registration answered with success
    deleted,    \* history: a deletion was answered with success
    disturbed,  \* history: registrations or deletions overlapped or were cut
    creates, deletes, cuts  \* how much of each bound is used

bounds == <<creates, deletes, cuts>>
vars == <<row, op, accepted, deleted, disturbed, bounds>>

Version == 0..MaxCreates
Row == [active : BOOLEAN, version : Version, def : Definitions]
NoRow == [active |-> FALSE]

\* seen is the row the request has read, def what it registers
NoOp == [pc |-> "idle"]
Op == {NoOp} \cup [pc : {"create", "delete"}, seen : Row \cup {NoRow}, def : Definitions]

TypeOK ==
    /\ row \in Row \cup {NoRow}
    /\ op \in [Ops -> Op]
    /\ accepted \in Seq(Version \X Definitions)
    /\ deleted \in BOOLEAN /\ disturbed \in BOOLEAN
    /\ creates \in 0..MaxCreates /\ deletes \in 0..MaxDeletes /\ cuts \in 0..MaxCuts

Init ==
    /\ row = NoRow /\ op = [o \in Ops |-> NoOp]
    /\ accepted = <<>> /\ deleted = FALSE /\ disturbed = FALSE
    /\ creates = 0 /\ deletes = 0 /\ cuts = 0

-----------------------------------------------------------------------------
(* The requests: a select, then a commit.                                  *)

Busy == \E o \in Ops : op[o] # NoOp

Select(o, pc, d) ==
    /\ op[o] = NoOp
    /\ op' = [op EXCEPT ![o] = [pc |-> pc, seen |-> row, def |-> d]]
    /\ disturbed' = (disturbed \/ Busy)
    /\ UNCHANGED <<row, accepted, deleted>>

Create(o, d) ==
    /\ creates < MaxCreates /\ creates' = creates + 1
    /\ Select(o, "create", d)
    /\ UNCHANGED <<deletes, cuts>>

Delete(o) ==
    /\ row # NoRow  \* else the answer is that there is none
    /\ deletes < MaxDeletes /\ deletes' = deletes + 1
    /\ \E d \in Definitions : d = row.def /\ Select(o, "delete", d)
    /\ UNCHANGED <<creates, cuts>>

(* The middle number of the version; a new composite has the one it came with. *)
BugBumpTwice(seen) == IF seen = NoRow THEN 0 ELSE seen.version + 2
BugBump(seen) == IF seen.active THEN seen.version + 1 ELSE 0
Bump(seen) == IF seen = NoRow THEN 0 ELSE seen.version + 1

(* An update leaves is_active as it is; of two first registrations the unique
   constraint refuses the second. *)
Registered(o) ==
    IF op[o].seen = NoRow
       THEN [active |-> TRUE, version |-> Bump(NoRow), def |-> op[o].def]
       ELSE [row EXCEPT !.version = Bump(op[o].seen), !.def = op[o].def]

CommitCreate(o) ==
    /\ op[o].pc = "create"
    /\ op' = [op EXCEPT ![o] = NoOp]
    /\ IF op[o].seen = NoRow /\ row # NoRow
          THEN UNCHANGED <<row, accepted>>
          ELSE row' = Registered(o) /\ accepted' = Append(accepted, <<Bump(op[o].seen), op[o].def>>)
    /\ UNCHANGED <<deleted, disturbed, bounds>>

CommitDelete(o) ==
    /\ op[o].pc = "delete"
    /\ op' = [op EXCEPT ![o] = NoOp]
    /\ row' = [row EXCEPT !.active = FALSE] /\ deleted' = TRUE
    /\ UNCHANGED <<accepted, disturbed, bounds>>

(* The process dies with requests under way; their transactions are undone. *)
Cut ==
    /\ Busy /\ cuts < MaxCuts /\ cuts' = cuts + 1
    /\ op' = [o \in Ops |-> NoOp] /\ disturbed' = TRUE
    /\ UNCHANGED <<row, accepted, deleted, creates, deletes>>

Rest == creates = MaxCreates /\ ~Busy /\ UNCHANGED vars

Next ==
    \/ \E o \in Ops : Delete(o) \/ CommitCreate(o) \/ CommitDelete(o) \/ \E d \in Definitions : Create(o, d)
    \/ Cut \/ Rest

Spec == Init /\ [][Next]_vars

-----------------------------------------------------------------------------
(* get and expand_composite.                                               *)

Served == row.active

Join(i, s) == i \o s
Prefixed(i, t) == IF t = None THEN None ELSE Join(i, t)

(* The steps get new identifiers, and so do the targets of on_success and
   on_failure, whatever they are; the other targets stay as they are. *)
BugExpandedStep(d, i, s, inputs) ==
    [id |-> Join(i, s), next |-> Prefixed(i, d.step[s].next), fail |-> d.step[s].fail,
     to |-> d.step[s].to, given |-> d.given[s] \cap inputs]

ExpandedStep(d, i, s, inputs) ==
    [id |-> Join(i, s), next |-> Prefixed(i, d.step[s].next), fail |-> Prefixed(i, d.step[s].fail),
     to |-> d.step[s].to, given |-> d.given[s] \cap inputs]

Expand(d, i, inputs) ==
    [steps |-> {ExpandedStep(d, i, s, inputs) : s \in DOMAIN d.step},
     entry |-> Join(i, d.first), out |-> Join(i, d.out)]

IdsOf(e) == {t.id : t \in e.steps}
StepOf(e, id) == CHOOSE t \in e.steps : t.id = id

-----------------------------------------------------------------------------
(* Properties.                                                             *)

(* Routed by on_success and on_failure to steps of its own, or to no step. *)
SelfContained(d) ==
    /\ d.out \in DOMAIN d.step
    /\ \A s \in DOMAIN d.step : d.step[s].to = {} /\ {d.step[s].next, d.step[s].fail} \subseteq DOMAIN d.step \cup {None}

(* What is reached from the entry by n routes. *)
After(e, n) ==
    LET f[k \in 0..n] == IF k = 0 THEN {e.entry}
                         ELSE UNION {{StepOf(e, t).next, StepOf(e, t).fail} \ {None} : t \in f[k - 1] \cap IdsOf(e)}
    IN f[n]

Routed(d, n) ==
    LET f[k \in 0..n] == IF k = 0 THEN {d.first}
                         ELSE UNION {{d.step[s].next, d.step[s].fail} \ {None} : s \in f[k - 1]}
    IN f[n]

(* The expansion of a self-contained composite leads through the same steps
   as the composite, with the same inputs, and never out of the expansion. *)
ExpansionKeepsFlow ==
    Served /\ SelfContained(row.def) =>
        \A i \in Instances :
            LET e == Expand(row.def, i, Inputs) IN
            /\ \A n \in 0..3 : After(e, n) = {Join(i, s) : s \in Routed(row.def, n)}
            /\ \A s \in DOMAIN row.def.step : StepOf(e, Join(i, s)).given = row.def.given[s]
            /\ e.out \in IdsOf(e)

Shared(d, i, j) == IdsOf(Expand(d, i, Inputs)) \cap IdsOf(Expand(d, j, Inputs))

(* What the prefix is there for (INTEGRATION.md:596): no step of one instance
   has the identifier of a step of another.  It does not hold: step "b_a" of
   instance "x" and step "a" of instance "x_b" are both "x_b_a". *)
InstancesApart == Served => \A i, j \in Instances : i # j => Shared(row.def, i, j) = {}

(* As long as requests came one after the other: no version is given twice, not
   even to a composite that was deleted and registered again, and until it is
   deleted the composite that was registered last is the one that is served. *)
RegistrationsHold ==
    ~disturbed =>
        /\ \A i, j \in DOMAIN accepted : accepted[i][1] = accepted[j][1] => i = j
        /\ ~deleted /\ accepted # <<>> => Served /\ <<row.version, row.def>> = accepted[Len(accepted)]

=============================================================================

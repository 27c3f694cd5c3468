-------------------------- MODULE Composites_proofs --------------------------
(* Proofs about Composites, for any steps, definitions and concurrent        *)
(* requests and under any bounds: what is registered, and what an expansion  *)
(* leads through, by induction over the number of routes.                    *)
EXTENDS Composites, SequenceTheorems, WellFoundedInduction, TLAPS

Some(r) == r # NoRow

(* Every registration has its number, those under way leave room for theirs. *)
Counted ==
    /\ Some(row) => row.version < creates
    /\ \A o \in Ops : op[o] # NoOp =>
          /\ Some(op[o].seen) => Some(row)
          /\ op[o].pc = "delete" => Some(row)
          /\ op[o].pc = "create" =>
                /\ 0 < creates
                /\ Some(op[o].seen) => op[o].seen.version + 1 < creates

TInv == TypeOK /\ Counted

(* A row that was registered has its fields, *)
LEMMA RowFields ==
    ASSUME NEW r \in Row
    PROVE  Some(r) /\ r.active \in BOOLEAN /\ r.version \in Version /\ r.def \in Definitions
<1>1. r.active \in BOOLEAN /\ r.version \in Version /\ r.def \in Definitions
  BY DEF Row
<1>2. r # NoRow
  BY DEF Row, NoRow
<1> QED BY <1>1, <1>2 DEF Some

(* and is one without its place among the served. *)
LEMMA InactiveRow ==
    ASSUME NEW r \in Row
    PROVE  [r EXCEPT !.active = FALSE] \in Row /\ [r EXCEPT !.active = FALSE].version = r.version
BY DEF Row

(* A request under way has its fields. *)
LEMMA OpFields ==
    ASSUME NEW x \in Op, x # NoOp
    PROVE  /\ x.pc \in {"create", "delete"}
           /\ x.seen \in Row \cup {NoRow} /\ x.def \in Definitions
BY DEF Op

(* What a registration commits is a row whose number is in its bound. *)
LEMMA RegisteredRow ==
    ASSUME TInv, NEW o \in Ops, op[o].pc = "create", op[o] # NoOp,
           Some(op[o].seen) \/ ~Some(row)
    PROVE  /\ Registered(o) \in Row /\ Bump(op[o].seen) \in Version /\ op[o].def \in Definitions
           /\ Registered(o).version = Bump(op[o].seen) /\ Registered(o).def = op[o].def
           /\ Registered(o).version < creates
           /\ Some(op[o].seen) => Some(row) /\ Registered(o).active = row.active
           /\ ~Some(op[o].seen) => Registered(o).active = TRUE
<1>1. op[o] \in Op /\ creates \in 0..MaxCreates
  BY DEF TInv, TypeOK
<1>2. op[o].seen \in Row \cup {NoRow} /\ op[o].def \in Definitions
  BY <1>1, OpFields
<1>3. 0 < creates /\ (Some(op[o].seen) => op[o].seen.version + 1 < creates /\ Some(row))
  BY DEF TInv, Counted
<1>4. CASE ~Some(op[o].seen)
  <2>1. Bump(op[o].seen) = 0 /\ Bump(NoRow) = 0
    BY <1>4 DEF Bump, Some
  <2>2. Registered(o) = [active |-> TRUE, version |-> 0, def |-> op[o].def]
    BY <1>4, <2>1 DEF Registered, Some
  <2>3. 0 \in Version
    BY BoundsAssumption DEF Version
  <2>4. Registered(o) \in Row
    BY <1>2, <2>2, <2>3 DEF Row
  <2>5. Registered(o).version = 0 /\ Registered(o).def = op[o].def /\ Registered(o).active = TRUE
    BY <2>2
  <2> QED BY <1>2, <1>3, <1>4, <2>1, <2>3, <2>4, <2>5
<1>5. CASE Some(op[o].seen)
  <2>1. op[o].seen \in Row /\ row \in Row
    BY <1>2, <1>3, <1>5 DEF TInv, TypeOK, Some
  <2>2. op[o].seen.version \in Version /\ Bump(op[o].seen) = op[o].seen.version + 1
    BY <1>5, <2>1, RowFields DEF Bump, Some
  <2>3. Bump(op[o].seen) \in Version
    BY <1>1, <1>3, <1>5, <2>2, BoundsAssumption DEF Version
  <2>4. Registered(o) = [row EXCEPT !.version = Bump(op[o].seen), !.def = op[o].def]
    BY <1>5 DEF Registered, Some
  <2>5. Registered(o) = [active |-> row.active, version |-> Bump(op[o].seen), def |-> op[o].def]
    BY <2>1, <2>4 DEF Row
  <2> QED BY <1>2, <1>3, <1>5, <2>1, <2>2, <2>3, <2>5, RowFields DEF Row
<1> QED BY <1>4, <1>5

LEMMA TypeInit == Init => TInv
<1> SUFFICES ASSUME Init PROVE TInv
  OBVIOUS
<1>1. TypeOK
  <2>1. op \in [Ops -> Op] /\ accepted \in Seq(Version \X Definitions)
    BY DEF Init, Op
  <2>2. row \in Row \cup {NoRow} /\ deleted \in BOOLEAN /\ disturbed \in BOOLEAN
    BY DEF Init
  <2>3. creates \in 0..MaxCreates /\ deletes \in 0..MaxDeletes /\ cuts \in 0..MaxCuts
    BY BoundsAssumption DEF Init
  <2> QED BY <2>1, <2>2, <2>3 DEF TypeOK
<1>2. Counted
  BY DEF Init, Counted, Some
<1> QED BY <1>1, <1>2 DEF TInv

(* Every action keeps the types and the numbers. *)
LEMMA TypeStep == TInv /\ [Next]_vars => TInv'
<1> SUFFICES ASSUME TInv, [Next]_vars PROVE TInv'
  OBVIOUS
<1>t. TypeOK /\ Counted
  BY DEF TInv
<1>b. creates \in Nat /\ (row \in Row => row.version \in Nat)
  <2>1. creates \in Nat
    BY <1>t, BoundsAssumption DEF TypeOK
  <2>2. ASSUME row \in Row PROVE row.version \in Nat
    BY <2>2, BoundsAssumption, RowFields DEF Version
  <2> QED BY <2>1, <2>2
<1>1. ASSUME NEW o \in Ops, NEW d \in Definitions, Create(o, d) PROVE TInv'
  <2> DEFINE new == [pc |-> "create", seen |-> row, def |-> d]
  <2>1. /\ op' = [op EXCEPT ![o] = new] /\ creates' = creates + 1 /\ creates < MaxCreates
        /\ UNCHANGED <<row, accepted, deleted, deletes, cuts>>
        /\ disturbed' = (disturbed \/ Busy)
    BY <1>1 DEF Create, Select
  <2>2. new \in Op /\ new # NoOp
    BY <1>t DEF Op, TypeOK, NoOp
  <2>3. TypeOK'
    BY <1>t, <2>1, <2>2, BoundsAssumption DEF TypeOK, Busy
  <2>4. Some(row) => row.version \in Nat /\ row.version < creates
    BY <1>t, <1>b DEF Counted, TypeOK, Some
  <2>5. ASSUME NEW p \in Ops, op'[p] # NoOp
        PROVE /\ Some(op'[p].seen) => Some(row)
              /\ op'[p].pc = "delete" => Some(row)
              /\ op'[p].pc = "create" =>
                    /\ 0 < creates'
                    /\ Some(op'[p].seen) => op'[p].seen.version + 1 < creates'
    <3>1. CASE p = o
      BY <1>t, <1>b, <2>1, <2>4, <3>1 DEF TypeOK
    <3>2. CASE p # o
      <4>1. op'[p] = op[p] /\ op[p] \in Op
        BY <1>t, <2>1, <3>2 DEF TypeOK
      <4>2. op[p].seen \in Row \cup {NoRow} /\ (Some(op[p].seen) => op[p].seen.version \in Nat)
        <5>1. op[p].seen \in Row \cup {NoRow}
          BY <2>5, <4>1, OpFields
        <5>2. ASSUME op[p].seen \in Row PROVE op[p].seen.version \in Nat
          BY <5>2, BoundsAssumption, RowFields DEF Version
        <5> QED BY <5>1, <5>2 DEF Some
      <4> QED BY <1>t, <1>b, <2>1, <2>5, <4>1, <4>2 DEF Counted
    <3> QED BY <3>1, <3>2
  <2>6. Counted'
    BY <1>b, <2>1, <2>4, <2>5 DEF Counted, Some
  <2> QED BY <2>3, <2>6 DEF TInv
<1>2. ASSUME NEW o \in Ops, Delete(o) PROVE TInv'
  <2>1. PICK d \in Definitions : d = row.def /\ Select(o, "delete", d)
    BY <1>2 DEF Delete
  <2> DEFINE new == [pc |-> "delete", seen |-> row, def |-> d]
  <2>2. /\ op' = [op EXCEPT ![o] = new] /\ UNCHANGED <<row, accepted, deleted, creates, cuts>>
        /\ disturbed' = (disturbed \/ Busy)
        /\ deletes < MaxDeletes /\ deletes' = deletes + 1 /\ Some(row)
    BY <1>2, <2>1 DEF Delete, Select, Some
  <2>3. new \in Op
    BY <1>t DEF Op, TypeOK
  <2>4. TypeOK'
    BY <1>t, <2>2, <2>3, BoundsAssumption DEF TypeOK, Busy
  <2>5. Counted'
    BY <1>t, <2>2 DEF Counted, TypeOK, Some
  <2> QED BY <2>4, <2>5 DEF TInv
<1>3. ASSUME NEW o \in Ops, CommitCreate(o) PROVE TInv'
  <2>1. op[o].pc = "create" /\ op[o] \in Op /\ op' = [op EXCEPT ![o] = NoOp]
        /\ UNCHANGED <<deleted, disturbed, bounds>>
    BY <1>t, <1>3 DEF CommitCreate, TypeOK
  <2>2. op[o] # NoOp
    BY <2>1 DEF NoOp
  <2>3. CASE op[o].seen = NoRow /\ row # NoRow
    <3>1. UNCHANGED <<row, accepted>>
      BY <1>3, <2>3 DEF CommitCreate
    <3> QED BY <1>t, <2>1, <3>1 DEF TInv, TypeOK, Counted, bounds, Op
  <2>4. CASE ~(op[o].seen = NoRow /\ row # NoRow)
    <3>1. row' = Registered(o) /\ accepted' = Append(accepted, <<Bump(op[o].seen), op[o].def>>)
      BY <1>3, <2>4 DEF CommitCreate
    <3>2. /\ Registered(o) \in Row /\ Registered(o).version < creates
          /\ <<Bump(op[o].seen), op[o].def>> \in Version \X Definitions
      BY <2>1, <2>2, <2>4, RegisteredRow DEF Some
    <3>3. TypeOK'
      BY <1>t, <2>1, <3>1, <3>2 DEF TypeOK, Op, bounds
    <3>4. Some(row')
      BY <3>1, <3>2, RowFields
    <3>5. Counted'
      BY <1>t, <2>1, <3>1, <3>2, <3>4 DEF Counted, TypeOK, bounds, Some
    <3> QED BY <3>3, <3>5 DEF TInv
  <2> QED BY <2>3, <2>4
<1>4. ASSUME NEW o \in Ops, CommitDelete(o) PROVE TInv'
  <2>1. op[o].pc = "delete" /\ op' = [op EXCEPT ![o] = NoOp] /\ deleted' = TRUE
        /\ row' = [row EXCEPT !.active = FALSE] /\ UNCHANGED <<accepted, disturbed, bounds>>
    BY <1>4 DEF CommitDelete
  <2>2. op[o] # NoOp
    BY <2>1 DEF NoOp
  <2>3. row \in Row
    BY <1>t, <2>1, <2>2 DEF Counted, TypeOK, Some
  <2>4. row' \in Row /\ Some(row') /\ row'.version = row.version
    BY <2>1, <2>3, InactiveRow, RowFields
  <2>5. TypeOK'
    BY <1>t, <2>1, <2>4 DEF TypeOK, Op, bounds
  <2>6. Counted'
    BY <1>t, <2>1, <2>3, <2>4, RowFields DEF Counted, TypeOK, bounds, Some
  <2> QED BY <2>5, <2>6 DEF TInv
<1>5. CASE Cut
  BY <1>t, <1>5, BoundsAssumption DEF Cut, TInv, TypeOK, Counted, Op, NoOp, Some
<1>6. CASE UNCHANGED vars
  BY <1>t, <1>6 DEF TInv, TypeOK, Counted, vars, bounds, Some
<1>7. CASE Rest
  BY <1>6, <1>7 DEF Rest
<1> QED BY <1>1, <1>2, <1>3, <1>4, <1>5, <1>6, <1>7 DEF Next

(* The variables of Composites keep their types: the middle number of a      *)
(* version never exceeds the registrations there have been.                  *)
THEOREM TypeCorrect == Spec => []TypeOK
<1>1. TInv => TypeOK
  BY DEF TInv
<1> QED BY <1>1, TypeInit, TypeStep, PTL DEF Spec

-----------------------------------------------------------------------------
(* As long as the requests came one after the other: the one under way still *)
(* has the row of the database, every version that was given is at most that *)
(* of the row, and the row is what was registered last.                      *)
Alone == \A o, p \in Ops : op[o] # NoOp /\ op[p] # NoOp => o = p
UpToDate == \A o \in Ops : op[o] # NoOp => op[o].seen = row
Distinct == \A i, j \in DOMAIN accepted : accepted[i][1] = accepted[j][1] => i = j
Newest ==
    /\ Some(row) => accepted # <<>>
    /\ \A i \in DOMAIN accepted : Some(row) /\ accepted[i][1] <= row.version
Latest == ~deleted /\ accepted # <<>> =>
    Served /\ row.version = accepted[Len(accepted)][1] /\ row.def = accepted[Len(accepted)][2]

Orderly == ~disturbed => Alone /\ UpToDate /\ Distinct /\ Newest /\ Latest

LEMMA OrderlyInit == Init => Orderly
BY DEF Init, Orderly, Alone, UpToDate, Distinct, Newest, Latest, Some

(* A request that starts among no others has the row. *)
LEMMA OrderlySelect ==
    ASSUME TInv, Orderly, NEW o \in Ops, NEW pc, NEW d, Select(o, pc, d)
    PROVE  Orderly'
<1>1. /\ op' = [op EXCEPT ![o] = [pc |-> pc, seen |-> row, def |-> d]] /\ op \in [Ops -> Op]
      /\ UNCHANGED <<row, accepted, deleted>> /\ disturbed' = (disturbed \/ Busy)
  BY DEF Select, TInv, TypeOK
<1> SUFFICES ASSUME ~disturbed' PROVE (Alone /\ UpToDate /\ Distinct /\ Newest /\ Latest)'
  BY DEF Orderly
<1>2. ~disturbed /\ \A p \in Ops : op[p] = NoOp
  BY <1>1 DEF Busy
<1>3. Alone' /\ UpToDate'
  BY <1>1, <1>2 DEF Alone, UpToDate
<1>4. (Distinct /\ Newest /\ Latest)'
  BY <1>1, <1>2 DEF Orderly, Distinct, Newest, Latest, Served, Some
<1> QED BY <1>3, <1>4

(* A registration that commits has the next version. *)
LEMMA OrderlyCommit ==
    ASSUME TInv, Orderly, NEW o \in Ops, CommitCreate(o)
    PROVE  Orderly'
<1>1. /\ op[o].pc = "create" /\ op[o] \in Op /\ op \in [Ops -> Op]
      /\ op' = [op EXCEPT ![o] = NoOp] /\ UNCHANGED <<deleted, disturbed, bounds>>
  BY DEF CommitCreate, TInv, TypeOK
<1>2. op[o] # NoOp
  BY <1>1 DEF NoOp
<1> SUFFICES ASSUME ~disturbed' PROVE (Alone /\ UpToDate /\ Distinct /\ Newest /\ Latest)'
  BY DEF Orderly
<1>3. ~disturbed /\ Alone /\ UpToDate /\ Distinct /\ Newest /\ Latest
  BY <1>1 DEF Orderly
<1>4. op[o].seen = row /\ \A p \in Ops : op'[p] = NoOp
  BY <1>1, <1>2, <1>3 DEF Alone, UpToDate
<1>5. Alone' /\ UpToDate'
  BY <1>4 DEF Alone, UpToDate
<1> DEFINE v == Bump(row)
<1>6. row' = Registered(o) /\ accepted' = Append(accepted, <<v, op[o].def>>)
  BY <1>4 DEF CommitCreate
<1>7. /\ Registered(o) \in Row /\ v \in Nat /\ op[o].def \in Definitions
      /\ Registered(o).version = v /\ Registered(o).def = op[o].def
      /\ Some(row) => Registered(o).active = row.active
      /\ ~Some(row) => Registered(o).active = TRUE
  <2>1. Version \subseteq Nat /\ Bump(op[o].seen) = v
    BY <1>4, BoundsAssumption DEF Version
  <2>2. Some(op[o].seen) \/ ~Some(row)
    BY <1>4
  <2> HIDE DEF v
  <2> QED BY <1>1, <1>2, <1>4, <2>1, <2>2, RegisteredRow
<1>8. Some(row')
  BY <1>6, <1>7, RowFields
<1>9. \A i \in DOMAIN accepted : accepted[i][1] \in Nat /\ accepted[i][1] < v
  <2> TAKE i \in DOMAIN accepted
  <2>1. Some(row) /\ accepted[i][1] <= row.version
    BY <1>3 DEF Newest
  <2>2. row \in Row /\ accepted[i] \in Version \X Definitions
    BY <2>1 DEF TInv, TypeOK, Some
  <2>3. row.version \in Nat /\ accepted[i][1] \in Nat
    BY <2>2, RowFields, BoundsAssumption DEF Version
  <2>4. v = row.version + 1
    BY <2>1 DEF Bump, Some
  <2> QED BY <2>1, <2>3, <2>4
<1>10. accepted \in Seq(Version \X Definitions)
  BY DEF TInv, TypeOK
<1> HIDE DEF v
<1>11. /\ Len(accepted') = Len(accepted) + 1 /\ Len(accepted) \in Nat
       /\ DOMAIN accepted = 1..Len(accepted) /\ DOMAIN accepted' = 1..Len(accepted')
       /\ accepted'[Len(accepted')] = <<v, op[o].def>>
       /\ \A i \in DOMAIN accepted : accepted'[i] = accepted[i]
  BY <1>6, <1>10
<1>12. \A i \in DOMAIN accepted' : i \in DOMAIN accepted \/ (i = Len(accepted') /\ accepted'[i][1] = v)
  BY <1>11
<1>13. Distinct'
  BY <1>3, <1>9, <1>11, <1>12 DEF Distinct
<1>14. Newest'
  <2>1. accepted' # <<>>
    BY <1>11
  <2>2. row'.version = v
    BY <1>6, <1>7
  <2>3. \A i \in DOMAIN accepted' : accepted'[i][1] <= v
    BY <1>7, <1>9, <1>11, <1>12
  <2> QED BY <1>8, <2>1, <2>2, <2>3 DEF Newest, Some
<1>15. Latest'
  <2>1. row'.version = v /\ row'.def = op[o].def
    BY <1>6, <1>7
  <2>2. ~deleted => row'.active
    <3>1. CASE Some(row)
      <4>1. ~deleted => row.active
        BY <1>3, <3>1 DEF Newest, Latest, Served
      <4> QED BY <1>6, <1>7, <3>1, <4>1
    <3> QED BY <1>6, <1>7, <3>1
  <2> QED BY <1>1, <1>11, <2>1, <2>2 DEF Latest, Served
<1> QED BY <1>5, <1>13, <1>14, <1>15

(* A deletion leaves the versions. *)
LEMMA OrderlyDelete ==
    ASSUME TInv, Orderly, NEW o \in Ops, CommitDelete(o)
    PROVE  Orderly'
<1>1. /\ op[o].pc = "delete" /\ op \in [Ops -> Op] /\ op' = [op EXCEPT ![o] = NoOp] /\ deleted' = TRUE
      /\ row' = [row EXCEPT !.active = FALSE] /\ UNCHANGED <<accepted, disturbed, bounds>>
  BY DEF CommitDelete, TInv, TypeOK
<1>2. op[o] # NoOp
  BY <1>1 DEF NoOp
<1>3. row \in Row
  BY <1>1, <1>2 DEF TInv, Counted, TypeOK, Some
<1>4. Some(row) /\ Some(row') /\ row'.version = row.version
  BY <1>1, <1>3, InactiveRow, RowFields
<1>5. ~disturbed => \A p \in Ops : op'[p] = NoOp
  BY <1>1, <1>2 DEF Orderly, Alone
<1> QED BY <1>1, <1>4, <1>5 DEF Orderly, Alone, UpToDate, Distinct, Newest, Latest, Some

LEMMA OrderlyStep == TInv /\ Orderly /\ [Next]_vars => Orderly'
<1> SUFFICES ASSUME TInv, Orderly, [Next]_vars PROVE Orderly'
  OBVIOUS
<1>1. ASSUME NEW o \in Ops, NEW d \in Definitions, Create(o, d) PROVE Orderly'
  BY <1>1, OrderlySelect DEF Create
<1>2. ASSUME NEW o \in Ops, Delete(o) PROVE Orderly'
  BY <1>2, OrderlySelect DEF Delete
<1>3. CASE Cut
  BY <1>3 DEF Cut, Orderly
<1>4. CASE UNCHANGED vars
  BY <1>4 DEF vars, Orderly, Alone, UpToDate, Distinct, Newest, Latest, Served, Some
<1> QED BY <1>1, <1>2, <1>3, <1>4, OrderlyCommit, OrderlyDelete DEF Next, Rest

(* As long as the requests on a composite came one after the other, it is    *)
(* given no version twice, also when it is registered again after a deletion,*)
(* and until then what was registered last is what is served.                *)
THEOREM RegistrationsKept == Spec => []RegistrationsHold
<1>1. TInv /\ Orderly => RegistrationsHold
  <2> SUFFICES ASSUME TInv, Orderly, ~disturbed
               PROVE  Distinct /\ (~deleted /\ accepted # <<>> => Served /\ <<row.version, row.def>> = accepted[Len(accepted)])
    BY DEF RegistrationsHold, Distinct
  <2>1. Distinct /\ Latest
    BY DEF Orderly
  <2>2. accepted # <<>> => accepted[Len(accepted)] \in Version \X Definitions
    BY DEF TInv, TypeOK
  <2> QED BY <2>1, <2>2 DEF Latest
<1> QED BY <1>1, TypeInit, TypeStep, OrderlyInit, OrderlyStep, PTL DEF Spec

-----------------------------------------------------------------------------
(* The expansion of a composite. *)

(* Identifiers of two steps of an instance differ, and so do those of steps   *)
(* of two instances whose names have the same number of words.                *)
LEMMA JoinIs ==
    ASSUME NEW i \in Seq(STRING), NEW s \in Seq(STRING), NEW j \in Seq(STRING), NEW t \in Seq(STRING)
    PROVE  /\ Join(i, s) \in Seq(STRING)
           /\ Join(i, s) = Join(i, t) => s = t
           /\ Len(i) = Len(j) /\ Join(i, s) = Join(j, t) => i = j
<1>1. /\ Join(i, s) \in Seq(STRING)
      /\ \A k \in 1..Len(i) + Len(s) : Join(i, s)[k] = IF k <= Len(i) THEN i[k] ELSE s[k - Len(i)]
      /\ \A k \in 1..Len(j) + Len(t) : Join(j, t)[k] = IF k <= Len(j) THEN j[k] ELSE t[k - Len(j)]
  BY ConcatProperties DEF Join
<1>2. ASSUME Join(i, s) = Join(i, t) PROVE s = t
  <2>1. /\ Len(Join(i, s)) = Len(i) + Len(s) /\ Len(Join(i, t)) = Len(i) + Len(t)
        /\ \A k \in 1..Len(i) + Len(t) : Join(i, t)[k] = IF k <= Len(i) THEN i[k] ELSE t[k - Len(i)]
    BY ConcatProperties DEF Join
  <2>2. Len(i) \in Nat /\ Len(s) \in Nat /\ Len(t) \in Nat
    BY LenProperties
  <2>3. Len(s) = Len(t)
    BY <1>2, <2>1, <2>2
  <2>4. ASSUME NEW k \in 1..Len(s) PROVE s[k] = t[k]
    <3>1. /\ Len(i) + k \in 1..Len(i) + Len(s) /\ Len(i) + k \in 1..Len(i) + Len(t)
          /\ ~(Len(i) + k <= Len(i)) /\ (Len(i) + k) - Len(i) = k
      BY <2>2, <2>3
    <3>2. Join(i, s)[Len(i) + k] = s[k] /\ Join(i, t)[Len(i) + k] = t[k]
      BY <1>1, <2>1, <3>1
    <3> QED BY <1>2, <3>2
  <2> QED BY <2>3, <2>4, SeqEqual
<1>3. ASSUME Len(i) = Len(j), Join(i, s) = Join(j, t) PROVE i = j
  <2>1. Len(i) \in Nat /\ Len(s) \in Nat /\ Len(t) \in Nat
    BY LenProperties
  <2>2. ASSUME NEW k \in 1..Len(i) PROVE i[k] = j[k]
    <3>1. k \in 1..Len(i) + Len(s) /\ k \in 1..Len(j) + Len(t) /\ k <= Len(i) /\ k <= Len(j)
      BY <1>3, <2>1
    <3>2. Join(i, s)[k] = i[k] /\ Join(j, t)[k] = j[k]
      BY <1>1, <3>1
    <3> QED BY <1>3, <3>2
  <2> QED BY <1>3, <2>2, SeqEqual
<1> QED BY <1>1, <1>2, <1>3

(* What a composite consists of, when its routes stay inside it. *)
LEMMA Inside ==
    ASSUME NEW d \in Definitions, SelfContained(d)
    PROVE  /\ DOMAIN d.step \subseteq Seq(STRING) /\ {d.first, d.out} \subseteq DOMAIN d.step
           /\ \A s \in DOMAIN d.step : /\ {d.step[s].next, d.step[s].fail} \subseteq DOMAIN d.step \cup {None}
                                       /\ d.given[s] \subseteq Inputs
<1>1. Definition(d)
  BY DefinitionsAssumption
<1> QED BY <1>1, WordsAssumption DEF Definition, SelfContained

(* The step of an expansion that has the identifier of a step of the composite. *)
LEMMA StepOfExpanded ==
    ASSUME NEW d \in Definitions, SelfContained(d), NEW i \in Instances, NEW s \in DOMAIN d.step
    PROVE  LET e == Expand(d, i, Inputs) IN
           Join(i, s) \in IdsOf(e) /\ StepOf(e, Join(i, s)) = ExpandedStep(d, i, s, Inputs)
<1> DEFINE e == Expand(d, i, Inputs)
           x(t) == ExpandedStep(d, i, t, Inputs)
<1>1. e.steps = {x(t) : t \in DOMAIN d.step} /\ \A t : x(t).id = Join(i, t)
  BY DEF Expand, ExpandedStep
<1>2. \A t \in DOMAIN d.step : Join(i, t) = Join(i, s) => t = s
  <2>1. i \in Seq(STRING) /\ DOMAIN d.step \subseteq Seq(STRING)
    BY WordsAssumption, Inside
  <2> QED BY <2>1, JoinIs
<1> HIDE DEF e, x
<1>3. x(s) \in e.steps /\ \A t \in e.steps : t.id = Join(i, s) => t = x(s)
  BY <1>1, <1>2
<1>4. Join(i, s) \in IdsOf(e)
  BY <1>1, <1>3 DEF IdsOf
<1>5. StepOf(e, Join(i, s)) = x(s)
  BY <1>1, <1>3 DEF StepOf
<1> QED BY <1>4, <1>5 DEF e, x

(* One route further, in an expansion and in a composite. *)
Further(e, ids) == UNION {{StepOf(e, t).next, StepOf(e, t).fail} \ {None} : t \in ids \cap IdsOf(e)}
Onward(d, ss) == UNION {{d.step[s].next, d.step[s].fail} \ {None} : s \in ss}
Joined(i, ss) == {Join(i, s) : s \in ss}

(* From the same steps, a route of the expansion leads to the same steps as   *)
(* one of the composite.                                                      *)
LEMMA RoutesAgree ==
    ASSUME NEW d \in Definitions, SelfContained(d), NEW i \in Instances, NEW ss \in SUBSET DOMAIN d.step
    PROVE  Further(Expand(d, i, Inputs), Joined(i, ss)) = Joined(i, Onward(d, ss)) /\ Onward(d, ss) \in SUBSET DOMAIN d.step
<1> DEFINE e == Expand(d, i, Inputs)
           Routes(s) == {d.step[s].next, d.step[s].fail} \ {None}
           RoutesOf(t) == {StepOf(e, t).next, StepOf(e, t).fail} \ {None}
<1>1. \A s \in ss : Routes(s) \in SUBSET DOMAIN d.step
  BY Inside
<1>2. \A s \in ss : RoutesOf(Join(i, s)) = Joined(i, Routes(s))
  <2> SUFFICES ASSUME NEW s \in ss PROVE RoutesOf(Join(i, s)) = Joined(i, Routes(s))
    OBVIOUS
  <2>1. StepOf(e, Join(i, s)).next = Prefixed(i, d.step[s].next) /\ StepOf(e, Join(i, s)).fail = Prefixed(i, d.step[s].fail)
    BY StepOfExpanded DEF ExpandedStep
  <2>2. \A t \in DOMAIN d.step : Prefixed(i, t) = Join(i, t) /\ Join(i, t) # None /\ t # None
    <3>1. i \in Seq(STRING) /\ DOMAIN d.step \subseteq Seq(STRING) /\ None \notin Seq(STRING)
      BY WordsAssumption, Inside
    <3> QED BY <3>1, JoinIs DEF Prefixed
  <2>3. Prefixed(i, None) = None
    BY DEF Prefixed
  <2>4. {d.step[s].next, d.step[s].fail} \subseteq DOMAIN d.step \cup {None}
    BY Inside
  <2> QED BY <2>1, <2>2, <2>3, <2>4 DEF Joined
<1>3. Joined(i, ss) \subseteq IdsOf(e)
  BY StepOfExpanded DEF Joined
<1>4. Further(e, Joined(i, ss)) = UNION {RoutesOf(t) : t \in Joined(i, ss)}
  BY <1>3 DEF Further
<1>5. Onward(d, ss) = UNION {Routes(s) : s \in ss}
  BY DEF Onward
<1> HIDE DEF e, Routes, RoutesOf
<1>6. UNION {RoutesOf(t) : t \in Joined(i, ss)} = Joined(i, UNION {Routes(s) : s \in ss})
  BY <1>2 DEF Joined
<1> QED BY <1>1, <1>4, <1>5, <1>6 DEF e

(* Induction, for a set of natural numbers. *)
LEMMA Induction ==
    ASSUME NEW T \in SUBSET Nat, 0 \in T, \A n \in T : n + 1 \in T
    PROVE  T = Nat
<1> DEFINE U == Nat \ T
<1>1. CASE U # {}
  <2>1. \E x \in U : \A y \in U : <<y, x>> \notin OpToRel(<, Nat)
    BY <1>1, NatLessThanWellFounded, WFMin, Zenon
  <2>2. PICK x \in U : \A y \in U : ~(y < x)
    BY <2>1, Zenon DEF OpToRel
  <2>3. x # 0 /\ x - 1 \in Nat /\ x - 1 < x /\ (x - 1) + 1 = x
    BY <2>2
  <2> QED BY <2>2, <2>3
<1> QED BY <1>1

(* The functions that After and Routed compute with, up to any number of      *)
(* routes, exist.                                                             *)
Reaches(e, f, n) == f = [k \in 0..n |-> IF k = 0 THEN {e.entry} ELSE Further(e, f[k - 1])]
Leads(d, f, n) == f = [k \in 0..n |-> IF k = 0 THEN {d.first} ELSE Onward(d, f[k - 1])]

LEMMA ReachesExist ==
    ASSUME NEW e, NEW n \in Nat
    PROVE  \E f : Reaches(e, f, n)
<1> DEFINE T == {m \in Nat : \E f : Reaches(e, f, m)}
<1>1. 0 \in T
  <2>1. Reaches(e, [k \in 0..0 |-> {e.entry}], 0)
    BY DEF Reaches
  <2> QED BY <2>1
<1>2. ASSUME NEW m \in T PROVE m + 1 \in T
  <2>1. m \in Nat /\ \E f : Reaches(e, f, m)
    BY <1>2
  <2>2. PICK f : Reaches(e, f, m)
    BY <2>1
  <2> DEFINE g == [k \in 0..(m + 1) |-> IF k = m + 1 THEN Further(e, f[m]) ELSE f[k]]
  <2>3. \A k \in 0..m : f[k] = IF k = 0 THEN {e.entry} ELSE Further(e, f[k - 1])
    BY <2>2 DEF Reaches
  <2>4. ASSUME NEW k \in 0..(m + 1) PROVE g[k] = IF k = 0 THEN {e.entry} ELSE Further(e, g[k - 1])
    <3>1. CASE k = m + 1
      <4>1. g[k] = Further(e, f[m]) /\ g[k - 1] = f[m] /\ k # 0
        BY <2>1, <3>1
      <4> QED BY <4>1
    <3>2. CASE k # m + 1
      <4>1. k \in 0..m /\ g[k] = f[k] /\ (k # 0 => g[k - 1] = f[k - 1])
        BY <2>1, <3>2
      <4> QED BY <2>3, <4>1
    <3> QED BY <3>1, <3>2
  <2>5. Reaches(e, g, m + 1)
    BY <2>4 DEF Reaches
  <2> QED BY <2>1, <2>5
<1>3. T = Nat
  <2> HIDE DEF T
  <2>1. T \in SUBSET Nat
    BY DEF T
  <2> QED BY <1>1, <1>2, <2>1, Induction
<1> QED BY <1>3

LEMMA LeadsExist ==
    ASSUME NEW d, NEW n \in Nat
    PROVE  \E f : Leads(d, f, n)
<1> DEFINE T == {m \in Nat : \E f : Leads(d, f, m)}
<1>1. 0 \in T
  <2>1. Leads(d, [k \in 0..0 |-> {d.first}], 0)
    BY DEF Leads
  <2> QED BY <2>1
<1>2. ASSUME NEW m \in T PROVE m + 1 \in T
  <2>1. m \in Nat /\ \E f : Leads(d, f, m)
    BY <1>2
  <2>2. PICK f : Leads(d, f, m)
    BY <2>1
  <2> DEFINE g == [k \in 0..(m + 1) |-> IF k = m + 1 THEN Onward(d, f[m]) ELSE f[k]]
  <2>3. \A k \in 0..m : f[k] = IF k = 0 THEN {d.first} ELSE Onward(d, f[k - 1])
    BY <2>2 DEF Leads
  <2>4. ASSUME NEW k \in 0..(m + 1) PROVE g[k] = IF k = 0 THEN {d.first} ELSE Onward(d, g[k - 1])
    <3>1. CASE k = m + 1
      <4>1. g[k] = Onward(d, f[m]) /\ g[k - 1] = f[m] /\ k # 0
        BY <2>1, <3>1
      <4> QED BY <4>1
    <3>2. CASE k # m + 1
      <4>1. k \in 0..m /\ g[k] = f[k] /\ (k # 0 => g[k - 1] = f[k - 1])
        BY <2>1, <3>2
      <4> QED BY <2>3, <4>1
    <3> QED BY <3>1, <3>2
  <2>5. Leads(d, g, m + 1)
    BY <2>4 DEF Leads
  <2> QED BY <2>1, <2>5
<1>3. T = Nat
  <2> HIDE DEF T
  <2>1. T \in SUBSET Nat
    BY DEF T
  <2> QED BY <1>1, <1>2, <2>1, Induction
<1> QED BY <1>3

(* So the expansion of a composite reaches, by any number of routes, the       *)
(* copies of the steps that the composite reaches.                            *)
LEMMA SameFlow ==
    ASSUME NEW d \in Definitions, SelfContained(d), NEW i \in Instances, NEW n \in Nat
    PROVE  After(Expand(d, i, Inputs), n) = Joined(i, Routed(d, n))
<1> DEFINE e == Expand(d, i, Inputs)
           f == CHOOSE g : Reaches(e, g, n)
           h == CHOOSE g : Leads(d, g, n)
<1>1. Reaches(e, f, n) /\ Leads(d, h, n)
  BY ReachesExist, LeadsExist
<1>2. After(e, n) = f[n]
  BY DEF After, Further, Reaches
<1>3. Routed(d, n) = h[n]
  BY DEF Routed, Onward, Leads
<1>4. e.entry = Join(i, d.first) /\ d.first \in DOMAIN d.step
  BY Inside DEF Expand
<1>5. \A ss \in SUBSET DOMAIN d.step :
        Further(e, Joined(i, ss)) = Joined(i, Onward(d, ss)) /\ Onward(d, ss) \in SUBSET DOMAIN d.step
  BY RoutesAgree
<1> HIDE DEF e, f, h
<1>6. \A k \in 0..n : /\ f[k] = IF k = 0 THEN {e.entry} ELSE Further(e, f[k - 1])
                      /\ h[k] = IF k = 0 THEN {d.first} ELSE Onward(d, h[k - 1])
  BY <1>1 DEF Reaches, Leads
<1> DEFINE T == {m \in Nat : m <= n => f[m] = Joined(i, h[m]) /\ h[m] \in SUBSET DOMAIN d.step}
<1>7. 0 \in T
  BY <1>4, <1>6 DEF Joined
<1>8. ASSUME NEW m \in T PROVE m + 1 \in T
  <2> SUFFICES ASSUME m + 1 <= n PROVE f[m + 1] = Joined(i, h[m + 1]) /\ h[m + 1] \in SUBSET DOMAIN d.step
    BY <1>8
  <2>1. m + 1 \in 0..n /\ m + 1 # 0 /\ (m + 1) - 1 = m /\ f[m] = Joined(i, h[m]) /\ h[m] \in SUBSET DOMAIN d.step
    BY <1>8
  <2>2. f[m + 1] = Further(e, f[m]) /\ h[m + 1] = Onward(d, h[m])
    BY <1>6, <2>1
  <2> QED BY <1>5, <2>1, <2>2
<1>9. T = Nat
  <2> HIDE DEF T
  <2>1. T \in SUBSET Nat
    BY DEF T
  <2> QED BY <1>7, <1>8, <2>1, Induction
<1>10. f[n] = Joined(i, h[n])
  BY <1>9
<1> QED BY <1>2, <1>3, <1>10 DEF e

(* For every composite whose routes stay inside it, of any size, and any      *)
(* instance: its expansion leads through the same steps with the same inputs  *)
(* and has its output.                                                        *)
THEOREM ExpansionIsFaithful == Spec => []ExpansionKeepsFlow
<1>1. TypeOK => ExpansionKeepsFlow
  <2> SUFFICES ASSUME TypeOK, Served, SelfContained(row.def), NEW i \in Instances
               PROVE  LET e == Expand(row.def, i, Inputs) IN
                      /\ \A n \in 0..3 : After(e, n) = {Join(i, s) : s \in Routed(row.def, n)}
                      /\ \A s \in DOMAIN row.def.step : StepOf(e, Join(i, s)).given = row.def.given[s]
                      /\ e.out \in IdsOf(e)
    BY DEF ExpansionKeepsFlow
  <2> DEFINE d == row.def
             e == Expand(d, i, Inputs)
  <2>1. d \in Definitions
    BY RowFields DEF TypeOK, Served, NoRow
  <2>2. /\ DOMAIN d.step \subseteq Seq(STRING) /\ {d.first, d.out} \subseteq DOMAIN d.step
        /\ \A s \in DOMAIN d.step : d.given[s] \subseteq Inputs
    BY <2>1, Inside
  <2>4. \A s \in DOMAIN d.step : Join(i, s) \in IdsOf(e) /\ StepOf(e, Join(i, s)) = ExpandedStep(d, i, s, Inputs)
    BY <2>1, StepOfExpanded
  <2>5. e.entry = Join(i, d.first) /\ e.out = Join(i, d.out)
    BY DEF Expand
  <2> HIDE DEF d, e
  <2>7. \A n \in 0..3 : After(e, n) = Joined(i, Routed(d, n))
    BY <2>1, SameFlow DEF d, e
  <2>8. \A s \in DOMAIN d.step : StepOf(e, Join(i, s)).given = d.given[s]
    <3>1. \A s : ExpandedStep(d, i, s, Inputs).given = d.given[s] \cap Inputs
      BY DEF ExpandedStep
    <3> QED BY <2>2, <2>4, <3>1
  <2>9. e.out \in IdsOf(e)
    BY <2>2, <2>4, <2>5
  <2> QED BY <2>7, <2>8, <2>9 DEF Joined, d, e
<1> QED BY <1>1, TypeCorrect, PTL

(* Two instances share the identifier of a step only when the name of one     *)
(* continues that of the other, word by word: names chosen otherwise keep the *)
(* instances apart, whatever the composite.                                   *)
THEOREM SharedOnlyByPrefix ==
    Spec => [](Served => \A i, j \in Instances :
                  Len(i) <= Len(j) /\ Shared(row.def, i, j) # {} => i = SubSeq(j, 1, Len(i)))
<1>1. TypeOK => (Served => \A i, j \in Instances :
          Len(i) <= Len(j) /\ Shared(row.def, i, j) # {} => i = SubSeq(j, 1, Len(i)))
  <2> SUFFICES ASSUME TypeOK, Served, NEW i \in Instances, NEW j \in Instances,
                      Len(i) <= Len(j), Shared(row.def, i, j) # {}
               PROVE  i = SubSeq(j, 1, Len(i))
    OBVIOUS
  <2> DEFINE d == row.def
  <2>1. d \in Definitions
    BY RowFields DEF TypeOK, Served, NoRow
  <2>2. i \in Seq(STRING) /\ j \in Seq(STRING) /\ DOMAIN d.step \subseteq Seq(STRING)
    BY <2>1, DefinitionsAssumption, WordsAssumption DEF Definition
  <2> HIDE DEF d
  <2>3. ASSUME NEW k \in Instances PROVE IdsOf(Expand(d, k, Inputs)) = Joined(k, DOMAIN d.step)
    <3>1. \A s : ExpandedStep(d, k, s, Inputs).id = Join(k, s)
      BY DEF ExpandedStep
    <3>2. Expand(d, k, Inputs).steps = {ExpandedStep(d, k, s, Inputs) : s \in DOMAIN d.step}
      BY DEF Expand
    <3> QED BY <3>1, <3>2 DEF IdsOf, Joined
  <2>4. PICK s \in DOMAIN d.step, t \in DOMAIN d.step : i \o s = j \o t
    <3>1. Shared(d, i, j) = Joined(i, DOMAIN d.step) \cap Joined(j, DOMAIN d.step)
      BY <2>3 DEF Shared
    <3>2. Shared(d, i, j) # {}
      BY DEF d
    <3> QED BY <3>1, <3>2 DEF Joined, Join
  <2>5. s \in Seq(STRING) /\ t \in Seq(STRING)
    BY <2>2
  <2>6. \A k \in 1..Len(i) : i[k] = (i \o s)[k] /\ j[k] = (j \o t)[k]
    BY <2>2, <2>5
  <2>7. \A k \in 1..Len(i) : i[k] = j[k]
    BY <2>4, <2>6
  <2> QED BY <2>2, <2>7
<1> QED BY <1>1, TypeCorrect, PTL

(* The expansion leads through the same steps however far the composite goes, *)
(* not only over the three routes that are looked at in small instances.      *)
THEOREM ExpansionKeepsAnyFlow ==
    Spec => [](Served /\ SelfContained(row.def) =>
                  \A i \in Instances, n \in Nat :
                      After(Expand(row.def, i, Inputs), n) = Joined(i, Routed(row.def, n)))
<1>1. TypeOK => (Served /\ SelfContained(row.def) =>
                    \A i \in Instances, n \in Nat :
                        After(Expand(row.def, i, Inputs), n) = Joined(i, Routed(row.def, n)))
  <2>1. TypeOK /\ Served => row.def \in Definitions
    BY RowFields DEF TypeOK, Served, NoRow
  <2> QED BY <2>1, SameFlow
<1> QED BY <1>1, TypeCorrect, PTL

=============================================================================

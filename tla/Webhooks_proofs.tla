-------------------------- MODULE Webhooks_proofs --------------------------
(* Proofs about Webhooks, for any clients, deliveries and concurrent        *)
(* requests, and under any limits and bounds.                               *)
EXTENDS Webhooks, FiniteSetTheorems, NaturalsInduction, SequenceTheorems, TLAPS

-----------------------------------------------------------------------------
(* Types.                                                                   *)

LEMMA SecretType == Secret \subseteq Nat /\ 0 \in Secret
BY BoundsAssumption DEF Secret

LEMMA TimeType == Time \subseteq Nat /\ 0 \in Time
BY BoundsAssumption DEF Time

LEMMA IdleOpType == IdleOp \in Op /\ IdleOp.pc = "idle" /\ IdleOp.old = {}
BY NamesAssumption, SecretType DEF IdleOp, Op, Header

LEMMA OpFields ==
    ASSUME NEW x \in Op
    PROVE  x.of \in Deliveries /\ x.header \in Header /\ x.secret \in Secret /\ x.found \in BOOLEAN /\ x.old \subseteq Secret
BY DEF Op

(* A request that goes on, or is over. *)
LEMMA GotoType ==
    ASSUME op \in [Ops -> Op], NEW o \in Ops, NEW from,
           NEW to \in {"resolve", "answer"}, Goto(o, from, to)
    PROVE  /\ op' \in [Ops -> Op] /\ op[o].pc = from /\ op'[o].pc = to
           /\ op'[o].of = op[o].of /\ op'[o].old = op[o].old /\ op'[o].secret = op[o].secret
           /\ \A p \in Ops : p # o => op'[p] = op[p]
BY DEF Goto, Op

LEMMA OverType ==
    ASSUME op \in [Ops -> Op], NEW o \in Ops, NEW from, Over(o, from)
    PROVE  /\ op' \in [Ops -> Op] /\ op[o].pc = from /\ op'[o] = IdleOp
           /\ \A p \in Ops : p # o => op'[p] = op[p]
BY IdleOpType DEF Over

LEMMA AskType ==
    ASSUME op \in [Ops -> Op], requests \in 0..MaxRequests, disturbed \in BOOLEAN,
           NEW o \in Ops, NEW pc \in {"idle", "ensure", "rotate", "forget"}, Ask(o, pc)
    PROVE  /\ op' \in [Ops -> Op] /\ op[o].pc = "idle" /\ op'[o].pc = pc
           /\ op'[o].secret = op[o].secret /\ op'[o].old = op[o].old /\ op'[o].of = op[o].of
           /\ \A p \in Ops : p # o => op'[p] = op[p]
           /\ requests' = requests + 1 /\ requests' \in 0..MaxRequests /\ disturbed' \in BOOLEAN
           /\ disturbed' = (disturbed \/ \E p \in Ops : Manages(p))
<1>1. op' \in [Ops -> Op] /\ op'[o].pc = pc /\ op'[o].secret = op[o].secret /\ op'[o].old = op[o].old
      /\ op'[o].of = op[o].of /\ \A p \in Ops : p # o => op'[p] = op[p]
  BY DEF Ask, Op
<1>2. requests' = requests + 1 /\ requests' \in 0..MaxRequests
  BY BoundsAssumption DEF Ask
<1>3. disturbed' = (disturbed \/ \E p \in Ops : Manages(p)) /\ op[o].pc = "idle"
  BY DEF Ask
<1>4. disturbed' \in BOOLEAN
  BY <1>3
<1> QED BY <1>1, <1>2, <1>3, <1>4

(* A queue that has lost the times before the first fresh one. *)
LEMMA SinceShape ==
    ASSUME NEW S, NEW q \in Seq(S), NEW fresh \in SUBSET DOMAIN q
    PROVE  \E n \in 0..Len(q) :
             /\ Since(q, fresh) \in Seq(S) /\ Len(Since(q, fresh)) = Len(q) - n
             /\ \A i \in 1..(Len(q) - n) : Since(q, fresh)[i] = q[n + i]
             /\ \A i \in 1..n : i \notin fresh
<1> DEFINE T == fresh \cup {Len(q) + 1}
           least(i) == i \in T /\ \A j \in fresh : i <= j
           k == CHOOSE i \in T : \A j \in fresh : i <= j
<1>1. Len(q) \in Nat /\ DOMAIN q = 1..Len(q) /\ T \subseteq 1..(Len(q) + 1)
  OBVIOUS
<1>2. \E i \in T : \A j \in fresh : i <= j
  <2> DEFINE R == {ss \in Nat \X Nat : ss[1] < ss[2]}
  <2>1. IsWellFoundedOn(R, Nat)
    BY NatLessThanWellFounded DEF OpToRel
  <2> HIDE DEF T
  <2>2. T \subseteq Nat /\ T # {}
    BY <1>1 DEF T
  <2>3. \E x \in T : \A y \in T : ~(<<y, x>> \in R)
    <3> HIDE DEF R
    <3> QED BY <2>1, <2>2, WFMin
  <2>4. PICK x \in T : \A y \in T : ~(<<y, x>> \in R)
    BY <2>3
  <2>5. \A y \in T : ~(y < x)
    BY <2>2, <2>4
  <2> QED BY <1>1, <2>5 DEF T
<1>3. k \in T /\ \A j \in fresh : k <= j
  BY <1>2
<1>4. Since(q, fresh) = SubSeq(q, k, Len(q))
  BY DEF Since
<1> HIDE DEF k
<1>5. k \in 1..(Len(q) + 1)
  BY <1>1, <1>3
<1>6. /\ SubSeq(q, k, Len(q)) \in Seq(S) /\ Len(SubSeq(q, k, Len(q))) = Len(q) - (k - 1)
      /\ \A i \in 1..(Len(q) - (k - 1)) : SubSeq(q, k, Len(q))[i] = q[(k - 1) + i]
  BY <1>1, <1>5
<1>7. k - 1 \in 0..Len(q) /\ \A i \in 1..(k - 1) : i \notin fresh
  BY <1>1, <1>3, <1>5
<1> QED BY <1>4, <1>6, <1>7

LEMMA RecentShape ==
    ASSUME TypeOK, NEW c \in Clients
    PROVE  \E n \in 0..Len(hits[c]) :
             /\ Recent(c) \in Seq(Time) /\ Len(Recent(c)) = Len(hits[c]) - n
             /\ \A i \in 1..(Len(hits[c]) - n) : Recent(c)[i] = hits[c][n + i]
             /\ \A i \in 1..n : now - hits[c][i] > Window
<1> DEFINE q == hits[c]
           fresh == {i \in DOMAIN q : now - q[i] <= Window}
<1>1. q \in Seq(Time) /\ now \in Nat
  BY TimeType DEF TypeOK
<1>2. Recent(c) = Since(q, fresh)
  BY DEF Recent
<1>3. ASSUME NEW i \in DOMAIN q, i \notin fresh PROVE now - q[i] > Window
  <2>1. ~(now - q[i] <= Window)
    BY <1>3
  <2> HIDE DEF q
  <2>2. q[i] \in Time
    BY <1>1
  <2>3. q[i] \in Nat /\ now \in Nat /\ Window \in Nat
    BY <1>1, <2>2, TimeType, LimitsAssumption
  <2> QED BY <2>1, <2>3
<1>4. fresh \in SUBSET DOMAIN q
  OBVIOUS
<1> HIDE DEF q, fresh
<1>5. PICK n \in 0..Len(q) :
             /\ Recent(c) \in Seq(Time) /\ Len(Recent(c)) = Len(q) - n
             /\ \A i \in 1..(Len(q) - n) : Recent(c)[i] = q[n + i]
             /\ \A i \in 1..n : i \notin fresh
  BY <1>1, <1>2, <1>4, SinceShape
<1>6. \A i \in 1..n : i \in DOMAIN q
  BY <1>1
<1> QED BY <1>3, <1>5, <1>6 DEF q

LEMMA KeptType ==
    ASSUME NEW f \in [Clients -> Seq(Time)], NEW c \in Clients
    PROVE  Kept(f, c) \in [Clients -> Seq(Time)]
<1>1. <<>> \in Seq(Time)
  OBVIOUS
<1> QED BY <1>1 DEF Kept

LEMMA AllowType ==
    ASSUME TypeOK, NEW c \in Clients, Allow(c)
    PROVE  /\ hits' \in [Clients -> Seq(Time)] /\ passed' \in [Clients -> Seq(Time)]
           /\ lru' \in Seq(Clients) /\ Len(lru') <= MaxKeys
<1>1. lru \in Seq(Clients) /\ Len(lru) <= MaxKeys /\ hits \in [Clients -> Seq(Time)] /\ passed \in [Clients -> Seq(Time)] /\ now \in Time
  BY DEF TypeOK
<1>2. Kept(hits, c) \in [Clients -> Seq(Time)] /\ Kept(passed, c) \in [Clients -> Seq(Time)]
  BY <1>1, KeptType
<1>3. Recent(c) \in Seq(Time)
  BY RecentShape
<1>4. hits' \in [Clients -> Seq(Time)]
  <2>1. Append(Recent(c), now) \in Seq(Time)
    BY <1>1, <1>3
  <2> QED BY <1>2, <1>3, <2>1 DEF Allow
<1>5. passed' \in [Clients -> Seq(Time)]
  <2>1. Append(Kept(passed, c)[c], now) \in Seq(Time) /\ Kept(passed, c)[c] \in Seq(Time)
    BY <1>1, <1>2
  <2> QED BY <1>2, <2>1 DEF Allow
<1>6. Known(c) => Without(c) \in Seq(Clients) /\ Len(Without(c)) < Len(lru)
  <2> DEFINE k == CHOOSE i \in DOMAIN lru : lru[i] = c
  <2>1. SUFFICES ASSUME Known(c) PROVE Without(c) \in Seq(Clients) /\ Len(Without(c)) < Len(lru)
    OBVIOUS
  <2>2. k \in 1..Len(lru) /\ Len(lru) \in Nat
    BY <1>1, <2>1 DEF Known
  <2>3. Without(c) = SubSeq(lru, 1, k - 1) \o SubSeq(lru, k + 1, Len(lru))
    BY DEF Without
  <2> HIDE DEF k
  <2>4. /\ SubSeq(lru, 1, k - 1) \in Seq(Clients) /\ SubSeq(lru, k + 1, Len(lru)) \in Seq(Clients)
        /\ Len(SubSeq(lru, 1, k - 1)) = k - 1 /\ Len(SubSeq(lru, k + 1, Len(lru))) = Len(lru) - k
    BY <1>1, <2>2
  <2>5. Len(SubSeq(lru, 1, k - 1) \o SubSeq(lru, k + 1, Len(lru))) = (k - 1) + (Len(lru) - k)
    BY <2>4
  <2>6. (k - 1) + (Len(lru) - k) < Len(lru)
    BY <2>2
  <2>7. SubSeq(lru, 1, k - 1) \o SubSeq(lru, k + 1, Len(lru)) \in Seq(Clients)
    BY <2>4
  <2> QED BY <2>3, <2>5, <2>6, <2>7
<1>7. Crowded(c) => Tail(lru) \in Seq(Clients) /\ Len(Tail(lru)) < Len(lru)
  BY <1>1, LimitsAssumption DEF Crowded
<1>8. lru' \in Seq(Clients) /\ Len(lru') <= MaxKeys
  <2> DEFINE q == IF Known(c) THEN Without(c) ELSE IF Crowded(c) THEN Tail(lru) ELSE lru
  <2>1. q \in Seq(Clients) /\ Len(q) < MaxKeys
    BY <1>1, <1>6, <1>7, LimitsAssumption DEF Crowded
  <2>2. lru' = Append(q, c)
    BY DEF Allow
  <2> HIDE DEF q
  <2> QED BY <2>1, <2>2, LimitsAssumption
<1> QED BY <1>4, <1>5, <1>8

-----------------------------------------------------------------------------
(* A secret is generated once for a request that asks for one.              *)
Asking == {o \in Ops : op[o].pc \in {"ensure", "rotate"}}
Enough == IsFiniteSet(Asking) /\ secrets + Cardinality(Asking) <= requests

LEMMA GeneratedType ==
    ASSUME TypeOK, Enough, NEW o \in Asking
    PROVE  Generated \in Secret /\ Generated = secrets + 1 /\ secrets \in Nat
<1>1. Cardinality(Asking) \in Nat /\ Cardinality(Asking) # 0
  BY FS_CardinalityType, FS_EmptySet DEF Enough
<1>2. secrets \in Nat /\ requests \in 0..MaxRequests
  BY SecretType DEF TypeOK
<1> QED BY <1>1, <1>2, BoundsAssumption DEF Enough, Generated, Secret

LEMMA EnoughLess ==
    ASSUME TypeOK, Enough, Asking' \subseteq Asking, secrets' = secrets, requests' \in Nat, requests' >= requests
    PROVE  Enough'
<1>1. IsFiniteSet(Asking') /\ Cardinality(Asking') <= Cardinality(Asking)
  BY FS_Subset DEF Enough
<1>2. Cardinality(Asking) \in Nat /\ Cardinality(Asking') \in Nat /\ secrets \in Nat /\ requests \in Nat
  BY <1>1, FS_CardinalityType, SecretType, BoundsAssumption DEF Enough, TypeOK
<1> QED BY <1>1, <1>2 DEF Enough

LEMMA EnoughMore ==
    ASSUME TypeOK, Enough, NEW o, Asking' = Asking \cup {o}, secrets' = secrets, requests' = requests + 1
    PROVE  Enough'
<1>1. IsFiniteSet(Asking') /\ Cardinality(Asking') <= Cardinality(Asking) + 1
  <2>1. Cardinality(Asking) \in Nat
    BY FS_CardinalityType DEF Enough
  <2>2. /\ IsFiniteSet(Asking \cup {o})
        /\ Cardinality(Asking \cup {o}) = IF o \in Asking THEN Cardinality(Asking) ELSE Cardinality(Asking) + 1
    BY FS_AddElement DEF Enough
  <2> QED BY <2>1, <2>2
<1>2. Cardinality(Asking) \in Nat /\ Cardinality(Asking') \in Nat /\ secrets \in Nat /\ requests \in Nat
  BY <1>1, FS_CardinalityType, SecretType, BoundsAssumption DEF Enough, TypeOK
<1> QED BY <1>1, <1>2 DEF Enough

LEMMA EnoughSpent ==
    ASSUME TypeOK, Enough, NEW o \in Asking, Asking' = Asking \ {o}, secrets' = secrets + 1, requests' = requests
    PROVE  Enough'
<1>1. IsFiniteSet(Asking') /\ Cardinality(Asking') = Cardinality(Asking) - 1
  BY FS_RemoveElement DEF Enough
<1>2. Cardinality(Asking) \in Nat /\ Cardinality(Asking') \in Nat /\ secrets \in Nat /\ requests \in Nat
  BY <1>1, FS_CardinalityType, SecretType, BoundsAssumption DEF Enough, TypeOK
<1> QED BY <1>1, <1>2 DEF Enough

LEMMA EnoughOther ==
    ASSUME TypeOK, Enough, NEW o \in Ops, \A p \in Ops : p # o => op'[p] = op[p],
           op'[o].pc \notin {"ensure", "rotate"}, secrets' = secrets, requests' \in {requests, requests + 1}
    PROVE  Enough'
<1>1. Asking' \subseteq Asking
  BY DEF Asking
<1>2. requests \in Nat
  BY BoundsAssumption DEF TypeOK
<1> QED BY <1>1, <1>2, EnoughLess

LEMMA EnoughSame ==
    ASSUME Enough, op' = op, secrets' = secrets, requests' = requests
    PROVE  Enough'
<1>1. Asking' = Asking
  BY DEF Asking
<1> QED BY <1>1 DEF Enough

LEMMA EnoughGenerated ==
    ASSUME TypeOK, Enough, NEW o \in Ops, op[o].pc \in {"ensure", "rotate"},
           \A p \in Ops : p # o => op'[p] = op[p],
           op'[o].pc \notin {"ensure", "rotate"}, secrets' = Generated, requests' = requests
    PROVE  Enough'
<1>1. o \in Asking /\ Asking' = Asking \ {o}
  BY DEF Asking
<1> QED BY <1>1, EnoughSpent DEF Generated

LEMMA EnoughAsked ==
    ASSUME TypeOK, Enough, NEW o \in Ops, \A p \in Ops : p # o => op'[p] = op[p],
           secrets' = secrets, requests' = requests + 1
    PROVE  Enough'
<1>1. CASE op'[o].pc \in {"ensure", "rotate"}
  <2>1. Asking' = Asking \cup {o}
    BY <1>1 DEF Asking
  <2> QED BY <2>1, EnoughMore
<1>2. CASE op'[o].pc \notin {"ensure", "rotate"}
  BY <1>2, EnoughOther
<1> QED BY <1>1, <1>2

(* Secrets that replace one another are secrets. *)
LEMMA StoreType ==
    ASSUME TypeOK, NEW s \in Secret, Store(s)
    PROVE  stored' \in Secret /\ dead' \subseteq Secret
BY DEF Store, TypeOK

LEMMA CommitsType ==
    ASSUME TypeOK, NEW o \in Ops, NEW pc, NEW possible \in BOOLEAN, Commits(o, pc, possible)
    PROVE  /\ op' \in [Ops -> Op] /\ stored' \in Secret /\ dead' \subseteq Secret
           /\ op[o].pc = pc /\ op'[o].pc \in {"idle", "answer"} /\ \A p \in Ops : p # o => op'[p] = op[p]
<1>1. op \in [Ops -> Op] /\ op[o].secret \in Secret /\ stored \in Secret /\ dead \subseteq Secret
  BY OpFields DEF TypeOK
<1>2. CASE possible
  <2>1. Goto(o, pc, "answer") /\ Store(op[o].secret)
    BY <1>2 DEF Commits
  <2> QED BY <1>1, <2>1, GotoType, StoreType
<1>3. CASE ~possible
  <2>1. Over(o, pc) /\ UNCHANGED <<stored, dead>>
    BY <1>3 DEF Commits
  <2> QED BY <1>1, <2>1, OverType, IdleOpType
<1> QED BY <1>2, <1>3

LEMMA NothingType ==
    /\ Nothing(Clients) \in [Clients -> Seq(Time)] /\ Nothing(Deliveries) \in [Deliveries -> Seq(Accepted)]
    /\ <<>> \in Seq(Clients)
<1>1. \A S : <<>> \in Seq(S)
  OBVIOUS
<1> QED BY <1>1 DEF Nothing

LEMMA NoMailType == NoMail \in Mail
BY SecretType, TimeType DEF NoMail, Mail

LEMMA TypeInit == Init => TypeOK /\ Enough
<1> SUFFICES ASSUME Init PROVE TypeOK /\ Enough
  OBVIOUS
<1>1. TypeOK
  <2> USE BoundsAssumption, SecretType, TimeType DEF Init
  <2>1. /\ hits \in [Clients -> Seq(Time)] /\ passed \in [Clients -> Seq(Time)]
        /\ lru \in Seq(Clients) /\ Len(lru) <= MaxKeys
        /\ accepted \in [Deliveries -> Seq(Accepted)]
    BY NothingType, LimitsAssumption
  <2>2. mail \in [Deliveries -> Mail] /\ op \in [Ops -> Op] /\ seen \in [Deliveries -> [Header -> SUBSET Time]]
    BY NoMailType, IdleOpType DEF Unseen
  <2>3. trigger \in Trigger /\ now \in Time /\ arrivals \in 0..MaxArrivals /\ requests \in 0..MaxRequests
        /\ faults \in 0..MaxFaults
    BY DEF Trigger
  <2>4. stored \in Secret /\ secrets \in Secret /\ shown \in Secret /\ dead \subseteq Secret /\ disturbed \in BOOLEAN
    OBVIOUS
  <2> QED BY <2>1, <2>2, <2>3, <2>4 DEF TypeOK
<1>2. Asking = {}
  BY IdleOpType DEF Init, Asking
<1>3. secrets + 0 <= requests
  BY DEF Init
<1> QED BY <1>1, <1>2, <1>3, FS_EmptySet DEF Enough

(* Every step is one of these.                                              *)
LEMMA Kinds ==
    ASSUME [Next]_vars
    PROVE  \/ \E o \in Ops, c \in Clients, d \in Deliveries, h \in Header : Arrive(o, c, d, h)
           \/ \E o \in Ops : GetSecret(o) \/ Check(o) \/ Resolve(o)
           \/ \E o \in Ops : \E t \in Trigger : Deploy(o, t)
           \/ \E o \in Ops : Ensure(o) \/ Insert(o) \/ ReadRow(o) \/ Put(o) \/ Answer(o) \/ Forget(o)
           \/ \E o \in Ops : Rotate(o) \/ Unregister(o)
           \/ \E d \in Deliveries : Sign(d)
           \/ Tick \/ Restart \/ UNCHANGED vars
BY DEF Next, Deliver, Manage, Rest

LEMMA TypeStep == TypeOK /\ Enough /\ [Next]_vars => TypeOK' /\ Enough'
<1> SUFFICES ASSUME TypeOK, Enough, [Next]_vars PROVE TypeOK' /\ Enough'
  OBVIOUS
<1>t. op \in [Ops -> Op] /\ requests \in 0..MaxRequests /\ disturbed \in BOOLEAN /\ stored \in Secret
      /\ requests \in Nat /\ now \in Nat
  BY TimeType, BoundsAssumption DEF TypeOK
<1>1. ASSUME NEW o \in Ops, NEW c \in Clients, NEW d \in Deliveries, NEW h \in Header,
             Arrive(o, c, d, h)
      PROVE  TypeOK' /\ Enough'
  <2>1. hits' \in [Clients -> Seq(Time)] /\ passed' \in [Clients -> Seq(Time)]
        /\ lru' \in Seq(Clients) /\ Len(lru') <= MaxKeys
    BY <1>1, AllowType DEF Arrive
  <2>2. op' \in [Ops -> Op] /\ op'[o].pc \in {"idle", "secret"} /\ \A p \in Ops : p # o => op'[p] = op[p]
    <3>1. CASE op' = op
      BY <1>1, <1>t, <3>1 DEF Arrive
    <3>2. CASE op' = [op EXCEPT ![o] = [IdleOp EXCEPT !.pc = "secret", !.of = d, !.header = h, !.old = dead]]
      <4>1. /\ [IdleOp EXCEPT !.pc = "secret", !.of = d, !.header = h, !.old = dead] \in Op
            /\ [IdleOp EXCEPT !.pc = "secret", !.of = d, !.header = h, !.old = dead].pc = "secret"
        BY IdleOpType DEF TypeOK, Op
      <4> QED BY <1>t, <3>2, <4>1
    <3> QED BY <1>1, <3>1, <3>2 DEF Arrive
  <2>3. arrivals' \in 0..MaxArrivals
    BY <1>1, BoundsAssumption DEF Arrive, TypeOK
  <2>4. Enough'
    BY <1>1, <2>2, EnoughOther DEF Arrive, keys
  <2> QED BY <1>1, <2>1, <2>2, <2>3, <2>4 DEF Arrive, TypeOK, keys
<1>2. ASSUME NEW o \in Ops, GetSecret(o) PROVE TypeOK' /\ Enough'
  <2>1. op' \in [Ops -> Op] /\ op'[o].pc \in {"idle", "check"} /\ \A p \in Ops : p # o => op'[p] = op[p]
    <3>1. CASE Over(o, "secret")
      BY <1>t, <3>1, OverType, IdleOpType
    <3>2. CASE op' = [op EXCEPT ![o].pc = "check", ![o].secret = stored]
      <4> DEFINE x == [op[o] EXCEPT !.pc = "check", !.secret = stored]
      <4>1. x \in Op /\ x.pc = "check" /\ op' = [op EXCEPT ![o] = x]
        BY <1>t, <3>2 DEF Op, TypeOK
      <4> HIDE DEF x
      <4> QED BY <1>t, <4>1
    <3> QED BY <1>2, <3>1, <3>2 DEF GetSecret
  <2>2. Enough'
    BY <1>2, <2>1, EnoughOther DEF GetSecret, keys, bounds
  <2> QED BY <1>2, <2>1, <2>2 DEF GetSecret, TypeOK, guard, keys, bounds
<1>3. ASSUME NEW o \in Ops, Check(o) PROVE TypeOK' /\ Enough'
  <2>1. op' \in [Ops -> Op] /\ op'[o].pc \in {"idle", "resolve"} /\ \A p \in Ops : p # o => op'[p] = op[p]
    BY <1>3, <1>t, GotoType, OverType, IdleOpType DEF Check
  <2>2. Enough'
    BY <1>3, <2>1, EnoughOther DEF Check, keys, bounds
  <2>3. seen' \in [Deliveries -> [Header -> SUBSET Time]] /\ accepted' \in [Deliveries -> Seq(Accepted)]
    <3> DEFINE d == op[o].of
               h == op[o].header
               a == [header |-> h, at |-> now, life |-> faults]
    <3>1. /\ d \in Deliveries /\ h \in Header /\ accepted[d] \in Seq(Accepted) /\ now \in Time
          /\ faults \in 0..MaxFaults /\ seen \in [Deliveries -> [Header -> SUBSET Time]]
          /\ accepted \in [Deliveries -> Seq(Accepted)]
      BY <1>t, OpFields DEF TypeOK
    <3>2. a \in Accepted
      BY <3>1 DEF Accepted
    <3>3. \/ UNCHANGED <<seen, accepted>>
          \/ seen' = [seen EXCEPT ![d][h] = {now}] /\ accepted' = [accepted EXCEPT ![d] = Append(@, a)]
      BY <1>3 DEF Check
    <3> HIDE DEF d, h, a
    <3>4. Append(accepted[d], a) \in Seq(Accepted) /\ {now} \in SUBSET Time
      BY <3>1, <3>2
    <3>5. CASE seen' = [seen EXCEPT ![d][h] = {now}] /\ accepted' = [accepted EXCEPT ![d] = Append(@, a)]
      <4>1. [seen[d] EXCEPT ![h] = {now}] \in [Header -> SUBSET Time]
        BY <3>1, <3>4
      <4>2. accepted' \in [Deliveries -> Seq(Accepted)]
        BY <3>1, <3>4, <3>5
      <4> QED BY <3>1, <3>5, <4>1, <4>2
    <3> QED BY <3>1, <3>3, <3>5
  <2> QED BY <1>3, <2>1, <2>2, <2>3 DEF Check, TypeOK, guard, keys, bounds
<1>4. ASSUME NEW o \in Ops, Resolve(o) PROVE TypeOK' /\ Enough'
  <2>1. op' \in [Ops -> Op] /\ op'[o].pc = "idle" /\ \A p \in Ops : p # o => op'[p] = op[p]
    BY <1>4, <1>t, OverType, IdleOpType DEF Resolve
  <2>2. Enough'
    BY <1>4, <2>1, EnoughOther DEF Resolve, keys, bounds
  <2> QED BY <1>4, <2>1, <2>2 DEF Resolve, TypeOK, guard, keys, bounds
<1>5. ASSUME NEW o \in Ops, NEW t \in Trigger, Deploy(o, t) PROVE TypeOK' /\ Enough'
  <2>1. /\ op' \in [Ops -> Op] /\ requests' = requests + 1 /\ requests' \in 0..MaxRequests /\ disturbed' \in BOOLEAN
        /\ \A p \in Ops : p # o => op'[p] = op[p]
    BY <1>5, <1>t, AskType DEF Deploy
  <2>2. Enough'
    BY <1>5, <2>1, EnoughAsked DEF Deploy
  <2> QED BY <1>5, <2>1, <2>2 DEF Deploy, tenantFrame, TypeOK, guard
<1>6. ASSUME NEW o \in Ops, Rotate(o) \/ Unregister(o) PROVE TypeOK' /\ Enough'
  <2>1. /\ op' \in [Ops -> Op] /\ requests' = requests + 1 /\ requests' \in 0..MaxRequests /\ disturbed' \in BOOLEAN
        /\ \A p \in Ops : p # o => op'[p] = op[p]
    BY <1>6, <1>t, AskType DEF Rotate, Unregister
  <2>2. Enough'
    BY <1>6, <2>1, EnoughAsked DEF Rotate, Unregister
  <2>3. trigger' \in Trigger
    BY <1>6 DEF Rotate, Unregister, TypeOK, Trigger
  <2> QED BY <1>6, <2>1, <2>2, <2>3 DEF Rotate, Unregister, tenantFrame, TypeOK, guard
<1>7. ASSUME NEW o \in Ops, Ensure(o) PROVE TypeOK' /\ Enough'
  <2>1. CASE Over(o, "ensure") /\ UNCHANGED secrets
    <3>1. op' \in [Ops -> Op] /\ op'[o].pc = "idle" /\ \A p \in Ops : p # o => op'[p] = op[p]
      BY <2>1, <1>t, OverType, IdleOpType
    <3>2. Enough'
      BY <1>7, <2>1, <3>1, EnoughOther DEF Ensure
    <3> QED BY <1>7, <2>1, <3>1, <3>2 DEF Ensure, tenantFrame, TypeOK, guard
  <2>2. CASE /\ op[o].pc = "ensure" /\ op' = [op EXCEPT ![o].pc = "insert", ![o].secret = Generated]
             /\ secrets' = Generated
    <3>1. Generated \in Secret
      BY <2>2, GeneratedType DEF Asking
    <3>2. op' \in [Ops -> Op] /\ op'[o].pc = "insert" /\ \A p \in Ops : p # o => op'[p] = op[p]
      <4> DEFINE x == [op[o] EXCEPT !.pc = "insert", !.secret = Generated]
      <4>1. x \in Op /\ x.pc = "insert" /\ op' = [op EXCEPT ![o] = x]
        BY <1>t, <2>2, <3>1 DEF Op
      <4> HIDE DEF x
      <4> QED BY <1>t, <4>1
    <3>3. Enough'
      BY <1>7, <2>2, <3>2, EnoughGenerated DEF Ensure
    <3> QED BY <1>7, <2>2, <3>1, <3>2, <3>3 DEF Ensure, tenantFrame, TypeOK, guard
  <2> QED BY <1>7, <2>1, <2>2 DEF Ensure
<1>8. ASSUME NEW o \in Ops, ReadRow(o) PROVE TypeOK' /\ Enough'
  <2>1. Generated \in Secret
    BY <1>8, GeneratedType DEF Asking, ReadRow
  <2>2. op' \in [Ops -> Op] /\ op'[o].pc = "put" /\ \A p \in Ops : p # o => op'[p] = op[p]
    <3> DEFINE b == (stored # 0)
    <3>1. b \in BOOLEAN /\ op' = [op EXCEPT ![o].pc = "put", ![o].secret = Generated, ![o].found = b]
      BY <1>8 DEF ReadRow
    <3> HIDE DEF b
    <3> DEFINE x == [op[o] EXCEPT !.pc = "put", !.secret = Generated, !.found = b]
    <3>2. x \in Op /\ x.pc = "put" /\ op' = [op EXCEPT ![o] = x]
      BY <1>t, <2>1, <3>1 DEF Op
    <3> HIDE DEF x
    <3> QED BY <1>t, <3>2
  <2>3. Enough'
    BY <1>8, <2>2, EnoughGenerated DEF ReadRow
  <2> QED BY <1>8, <2>1, <2>2, <2>3 DEF ReadRow, tenantFrame, TypeOK, guard
<1>9. ASSUME NEW o \in Ops, Insert(o) \/ Put(o) PROVE TypeOK' /\ Enough'
  <2>1. /\ op' \in [Ops -> Op] /\ stored' \in Secret /\ dead' \subseteq Secret
        /\ op'[o].pc \in {"idle", "answer"} /\ \A p \in Ops : p # o => op'[p] = op[p]
    <3>1. (stored = 0) \in BOOLEAN /\ (op[o].found = (stored # 0)) \in BOOLEAN
      OBVIOUS
    <3> QED BY <1>9, <3>1, CommitsType DEF Insert, Put
  <2>2. Enough'
    BY <1>9, <2>1, EnoughOther DEF Insert, Put
  <2> QED BY <1>9, <2>1, <2>2 DEF Insert, Put, tenantFrame, TypeOK, guard
<1>10. ASSUME NEW o \in Ops, Answer(o) \/ Forget(o) PROVE TypeOK' /\ Enough'
  <2>1. op' \in [Ops -> Op] /\ op'[o].pc = "idle" /\ \A p \in Ops : p # o => op'[p] = op[p]
    BY <1>10, <1>t, OverType, IdleOpType DEF Answer, Forget
  <2>2. Enough'
    BY <1>10, <2>1, EnoughOther DEF Answer, Forget
  <2>3. stored' \in Secret /\ dead' \subseteq Secret /\ shown' \in Secret
    <3>1. op[o].secret \in Secret /\ dead \subseteq Secret
      BY <1>t, OpFields DEF TypeOK
    <3> QED BY <1>10, <1>t, <3>1, StoreType, SecretType DEF Answer, Forget
  <2> QED BY <1>10, <2>1, <2>2, <2>3 DEF Answer, Forget, tenantFrame, TypeOK, guard
<1>11. ASSUME NEW d \in Deliveries, Sign(d) PROVE TypeOK' /\ Enough'
  <2>1. mail' \in [Deliveries -> Mail]
    BY <1>11 DEF Sign, TypeOK, Mail
  <2>2. Enough'
    BY <1>11, EnoughSame DEF Sign, keys, bounds
  <2> QED BY <1>11, <2>1, <2>2 DEF Sign, TypeOK, guard, keys, bounds
<1>12. CASE Tick
  <2>1. now' \in Time
    BY <1>12, BoundsAssumption DEF Tick, TypeOK, Time
  <2>2. Enough'
    BY <1>12, EnoughSame DEF Tick, keys, bounds
  <2> QED BY <1>12, <2>1, <2>2 DEF Tick, TypeOK, guard, keys, bounds
<1>13. CASE Restart
  <2>1. op' \in [Ops -> Op] /\ seen' \in [Deliveries -> [Header -> SUBSET Time]] /\ faults' \in 0..MaxFaults
    BY <1>13, IdleOpType, BoundsAssumption DEF Restart, TypeOK, Unseen
  <2>2. disturbed' \in BOOLEAN
    BY <1>13 DEF Restart
  <2>3. Asking' = {}
    BY <1>13, IdleOpType DEF Restart, Asking
  <2>4. Enough'
    BY <1>13, <1>t, <2>3, EnoughLess DEF Restart
  <2>5. lru' \in Seq(Clients) /\ Len(lru') <= MaxKeys
    BY <1>13, NothingType, LimitsAssumption DEF Restart
  <2> QED BY <1>13, <2>1, <2>2, <2>4, <2>5, NothingType DEF Restart, TypeOK
<1>14. CASE UNCHANGED vars
  <2>1. Enough'
    BY <1>14, EnoughSame DEF vars, keys, bounds
  <2> QED BY <1>14, <2>1 DEF vars, TypeOK, guard, keys, bounds
<1> QED BY <1>1, <1>2, <1>3, <1>4, <1>5, <1>6, <1>7, <1>8, <1>9, <1>10, <1>11, <1>12, <1>13, <1>14, Kinds

(* The variables of Webhooks keep their types: no request generates a       *)
(* second secret, and the guard remembers no more clients than it may.      *)
THEOREM TypeCorrect == Spec => []TypeOK
<1> QED BY TypeInit, TypeStep, PTL DEF Spec

-----------------------------------------------------------------------------
(* What the guard holds of a client is the tail of its accepted times, and  *)
(* those before have left the window.                                       *)
Remembered ==
    \A c \in Clients :
        /\ Len(hits[c]) <= MaxHits /\ Len(hits[c]) <= Len(passed[c])
        /\ \A i \in 1..Len(hits[c]) : hits[c][i] = passed[c][Len(passed[c]) - Len(hits[c]) + i]
        /\ \A i \in 1..(Len(passed[c]) - Len(hits[c])) : now - passed[c][i] > Window

LEMMA RememberedInit == Init => Remembered /\ RateHeld
BY LimitsAssumption DEF Init, Remembered, RateHeld, Nothing

(* What one client has, after a request of a client that is let in or not.  *)
IsTail(q, all) ==
    /\ Len(q) <= MaxHits /\ Len(q) <= Len(all)
    /\ \A i \in 1..Len(q) : q[i] = all[Len(all) - Len(q) + i]
    /\ \A i \in 1..(Len(all) - Len(q)) : now - all[i] > Window
Spaced(all) == \A i, j \in DOMAIN all : j = i + MaxHits => all[j] - all[i] > Window

LEMMA SomeTimes ==
    ASSUME NEW q \in Seq(Time)
    PROVE  Len(q) \in Nat /\ DOMAIN q = 1..Len(q) /\ \A i \in 1..Len(q) : q[i] \in Nat
<1>1. Len(q) \in Nat /\ DOMAIN q = 1..Len(q)
  OBVIOUS
<1>2. \A i \in 1..Len(q) : q[i] \in Time
  OBVIOUS
<1> QED BY <1>1, <1>2, TimeType

LEMMA Purged ==
    ASSUME TypeOK, Remembered, NEW c \in Clients
    PROVE  IsTail(Recent(c), passed[c]) /\ Recent(c) \in Seq(Time)
<1> DEFINE q == hits[c]
           r == Recent(c)
           all == passed[c]
<1>1. q \in Seq(Time) /\ all \in Seq(Time)
  BY DEF TypeOK
<1>2. /\ Len(q) <= MaxHits /\ Len(q) <= Len(all)
      /\ \A i \in 1..Len(q) : q[i] = all[Len(all) - Len(q) + i]
      /\ \A i \in 1..(Len(all) - Len(q)) : now - all[i] > Window
  BY DEF Remembered
<1>3. PICK n \in 0..Len(q) :
         /\ r \in Seq(Time) /\ Len(r) = Len(q) - n
         /\ \A i \in 1..(Len(q) - n) : r[i] = q[n + i]
         /\ \A i \in 1..n : now - q[i] > Window
  BY RecentShape
<1>4. Len(q) \in Nat /\ Len(all) \in Nat /\ MaxHits \in Nat /\ Len(r) \in Nat
  BY <1>1, <1>3, LimitsAssumption, SomeTimes
<1> HIDE DEF q, r, all
<1>5. ASSUME NEW i \in 1..Len(r) PROVE r[i] = all[Len(all) - Len(r) + i]
  <2>1. i \in 1..(Len(q) - n) /\ n + i \in 1..Len(q) /\ Len(all) - Len(r) + i = Len(all) - Len(q) + (n + i)
    BY <1>3, <1>4
  <2> QED BY <1>2, <1>3, <2>1
<1>6. ASSUME NEW i \in 1..(Len(all) - Len(r)) PROVE now - all[i] > Window
  <2>1. CASE i \in 1..(Len(all) - Len(q))
    BY <1>2, <2>1
  <2>2. CASE i \notin 1..(Len(all) - Len(q))
    <3> DEFINE k == i - (Len(all) - Len(q))
    <3>1. k \in 1..n /\ k \in 1..Len(q) /\ i = Len(all) - Len(q) + k
      BY <1>3, <1>4, <2>2
    <3> HIDE DEF k
    <3> QED BY <1>2, <1>3, <3>1
  <2> QED BY <2>1, <2>2
<1>7. Len(r) <= MaxHits /\ Len(r) <= Len(all)
  BY <1>2, <1>3, <1>4
<1> QED BY <1>3, <1>5, <1>6, <1>7 DEF IsTail, r, all

LEMMA Admitted ==
    ASSUME now \in Time, NEW q \in Seq(Time), NEW all \in Seq(Time), IsTail(q, all), Spaced(all), Len(q) < MaxHits
    PROVE  IsTail(Append(q, now), Append(all, now)) /\ Spaced(Append(all, now))
<1>1. /\ Len(q) \in Nat /\ Len(all) \in Nat /\ MaxHits \in Nat \ {0} /\ Len(q) <= Len(all)
  BY LimitsAssumption, SomeTimes DEF IsTail
<1> DEFINE p == Append(q, now)
           a == Append(all, now)
<1>2. /\ Len(p) = Len(q) + 1 /\ Len(a) = Len(all) + 1 /\ DOMAIN a = 1..Len(a)
      /\ p[Len(q) + 1] = now /\ a[Len(all) + 1] = now
      /\ \A i \in 1..Len(q) : p[i] = q[i]
      /\ \A i \in 1..Len(all) : a[i] = all[i]
  BY AppendProperties
<1> HIDE DEF p, a
<1>3. ASSUME NEW i \in 1..Len(p) PROVE p[i] = a[Len(a) - Len(p) + i]
  <2>1. CASE i = Len(q) + 1
    BY <1>1, <1>2, <2>1
  <2>2. CASE i \in 1..Len(q)
    <3>1. Len(all) - Len(q) + i \in 1..Len(all) /\ Len(a) - Len(p) + i = Len(all) - Len(q) + i
      BY <1>1, <1>2, <2>2
    <3>2. q[i] = all[Len(all) - Len(q) + i]
      BY <2>2 DEF IsTail
    <3> QED BY <1>2, <2>2, <3>1, <3>2
  <2> QED BY <1>1, <1>2, <2>1, <2>2
<1>4. ASSUME NEW i \in 1..(Len(a) - Len(p)) PROVE now - a[i] > Window
  <2>1. i \in 1..(Len(all) - Len(q)) /\ i \in 1..Len(all)
    BY <1>1, <1>2
  <2> QED BY <1>2, <2>1 DEF IsTail
<1>5. ASSUME NEW i \in 1..Len(a), NEW j \in 1..Len(a), j = i + MaxHits PROVE a[j] - a[i] > Window
  <2>1. CASE j \in 1..Len(all)
    <3>1. i \in 1..Len(all) /\ DOMAIN all = 1..Len(all)
      BY <1>1, <1>2, <1>5, <2>1, SomeTimes
    <3> QED BY <1>2, <1>5, <2>1, <3>1 DEF Spaced
  <2>2. CASE j = Len(all) + 1
    <3>1. i \in 1..(Len(all) - Len(q)) /\ i \in 1..Len(all)
      BY <1>1, <1>5, <2>2
    <3> QED BY <1>2, <2>2, <3>1 DEF IsTail
  <2> QED BY <1>1, <1>2, <2>1, <2>2
<1>6. Len(p) <= MaxHits /\ Len(p) <= Len(a)
  BY <1>1, <1>2
<1> QED BY <1>2, <1>3, <1>4, <1>5, <1>6 DEF IsTail, Spaced, p, a

(* A request: the client's queue is purged, then grows if it is let in; a   *)
(* client that is forgotten has nothing.                                    *)
LEMMA AllowStep ==
    ASSUME TypeOK, Remembered, RateHeld, NEW c \in Clients, Allow(c), now' = now
    PROVE  Remembered' /\ RateHeld'
<1>1. /\ hits \in [Clients -> Seq(Time)] /\ passed \in [Clients -> Seq(Time)] /\ now \in Time
      /\ lru \in Seq(Clients)
  BY DEF TypeOK
<1>2. \A k \in Clients : IsTail(hits[k], passed[k]) /\ Spaced(passed[k])
  BY DEF Remembered, RateHeld, IsTail, Spaced
<1>3. IsTail(<<>>, <<>>) /\ Spaced(<<>>)
  BY LimitsAssumption DEF IsTail, Spaced
<1>4. ASSUME NEW k \in Clients PROVE IsTail(hits'[k], passed'[k]) /\ Spaced(passed'[k])
  <2>1. CASE k # c
    <3>1. hits'[k] = Kept(hits, c)[k] /\ passed'[k] = Kept(passed, c)[k]
      BY <1>1, <2>1, KeptType DEF Allow
    <3>2. \/ hits'[k] = <<>> /\ passed'[k] = <<>>
          \/ hits'[k] = hits[k] /\ passed'[k] = passed[k]
      BY <3>1 DEF Kept
    <3> QED BY <1>2, <1>3, <3>2
  <2>2. CASE k = c
    <3>1. Kept(passed, c)[c] = passed[c]
      <4>1. Crowded(c) => c # Head(lru)
        <5> SUFFICES ASSUME Crowded(c) PROVE c # Head(lru)
          OBVIOUS
        <5>1. 1 \in DOMAIN lru /\ Head(lru) = lru[1]
          BY <1>1, LimitsAssumption DEF Crowded
        <5> QED BY <5>1 DEF Crowded, Known
      <4> QED BY <4>1 DEF Kept
    <3>2. /\ hits'[c] = IF Allowed(c) THEN Append(Recent(c), now) ELSE Recent(c)
          /\ passed'[c] = IF Allowed(c) THEN Append(passed[c], now) ELSE passed[c]
      BY <1>1, <3>1, KeptType DEF Allow
    <3>3. IsTail(Recent(c), passed[c]) /\ Recent(c) \in Seq(Time) /\ passed[c] \in Seq(Time) /\ Spaced(passed[c])
      BY <1>1, <1>2, Purged
    <3>4. Allowed(c) => Len(Recent(c)) < MaxHits
      BY DEF Allowed
    <3> QED BY <1>1, <2>2, <3>2, <3>3, <3>4, Admitted
  <2> QED BY <2>1, <2>2
<1>5. Remembered'
  <2>1. ASSUME NEW k \in Clients
        PROVE  /\ Len(hits'[k]) <= MaxHits /\ Len(hits'[k]) <= Len(passed'[k])
               /\ \A i \in 1..Len(hits'[k]) : hits'[k][i] = passed'[k][Len(passed'[k]) - Len(hits'[k]) + i]
               /\ \A i \in 1..(Len(passed'[k]) - Len(hits'[k])) : now - passed'[k][i] > Window
    BY <1>4 DEF IsTail
  <2> QED BY <2>1 DEF Remembered
<1>6. RateHeld'
  BY <1>4 DEF RateHeld, Spaced
<1> QED BY <1>5, <1>6

LEMMA RememberedStep == TypeOK /\ Remembered /\ RateHeld /\ [Next]_vars => Remembered' /\ RateHeld'
<1> SUFFICES ASSUME TypeOK, Remembered, RateHeld, [Next]_vars PROVE Remembered' /\ RateHeld'
  OBVIOUS
<1>1. CASE \E c \in Clients : Allow(c) /\ now' = now
  BY <1>1, AllowStep
<1>2. CASE UNCHANGED <<now, hits, passed>>
  BY <1>2 DEF Remembered, RateHeld
<1>3. CASE Tick
  <2>1. RateHeld' /\ UNCHANGED <<hits, passed>> /\ now' = now + 1
    BY <1>3 DEF Tick, RateHeld, guard
  <2>2. ASSUME NEW c \in Clients, NEW i \in 1..(Len(passed[c]) - Len(hits[c])) PROVE now' - passed[c][i] > Window
    <3>1. passed[c] \in Seq(Time) /\ hits[c] \in Seq(Time) /\ now \in Nat
      BY TimeType DEF TypeOK
    <3>2. i \in 1..Len(passed[c]) /\ passed[c][i] \in Nat
      BY <3>1, SomeTimes
    <3>3. now - passed[c][i] > Window /\ Window \in Nat
      BY LimitsAssumption DEF Remembered
    <3> DEFINE x == passed[c][i]
    <3>4. x \in Nat /\ now - x > Window /\ now \in Nat /\ now' = now + 1
      BY <2>1, <3>1, <3>2, <3>3
    <3> HIDE DEF x
    <3>5. now' - x > Window
      BY <3>3, <3>4
    <3> QED BY <3>5 DEF x
  <2> QED BY <2>1, <2>2 DEF Remembered
<1>4. CASE Restart
  <2>1. \A c \in Clients : hits'[c] = <<>> /\ passed'[c] = <<>>
    BY <1>4 DEF Restart, Nothing
  <2>2. Remembered'
    <3>1. IsTail(<<>>, <<>>)
      BY LimitsAssumption DEF IsTail
    <3>2. \A c \in Clients : IsTail(hits'[c], passed'[c]) /\ now' = now
      BY <1>4, <2>1, <3>1 DEF Restart
    <3> QED BY <3>2 DEF IsTail, Remembered
  <2>3. RateHeld'
    BY <2>1 DEF RateHeld
  <2> QED BY <2>2, <2>3
<1>5. (\E c \in Clients : Allow(c) /\ now' = now) \/ Tick \/ Restart \/ UNCHANGED <<now, hits, passed>>
  <2>1. \A o \in Ops, c \in Clients, d \in Deliveries, h \in Header : Arrive(o, c, d, h) => Allow(c) /\ now' = now
    BY DEF Arrive
  <2>2. \A o \in Ops : GetSecret(o) \/ Check(o) \/ Resolve(o) => UNCHANGED <<now, hits, passed>>
    BY DEF GetSecret, Check, Resolve, guard
  <2>3. \A o \in Ops, t \in Trigger : Deploy(o, t) => UNCHANGED <<now, hits, passed>>
    BY DEF Deploy, tenantFrame, guard
  <2>4. \A o \in Ops : Ensure(o) \/ Insert(o) \/ ReadRow(o) \/ Put(o) \/ Answer(o) \/ Forget(o)
                          => UNCHANGED <<now, hits, passed>>
    BY DEF Ensure, Insert, ReadRow, Put, Answer, Forget, tenantFrame, guard
  <2>5. \A o \in Ops : Rotate(o) \/ Unregister(o) => UNCHANGED <<now, hits, passed>>
    BY DEF Rotate, Unregister, tenantFrame, guard
  <2>6. \A d \in Deliveries : Sign(d) => UNCHANGED <<now, hits, passed>>
    BY DEF Sign, guard
  <2>7. UNCHANGED vars => UNCHANGED <<now, hits, passed>>
    BY DEF vars, guard
  <2> QED BY <2>1, <2>2, <2>3, <2>4, <2>5, <2>6, <2>7, Kinds
<1> QED BY <1>1, <1>2, <1>3, <1>4, <1>5

(* No window holds more than MaxHits requests of a client that were let in, *)
(* for as long as the guard remembers the client.                           *)
THEOREM RateIsHeld == Spec => []RateHeld
<1> QED BY TypeInit, TypeStep, RememberedInit, RememberedStep, PTL DEF Spec

-----------------------------------------------------------------------------
(* Secrets.  One that waits to be stored is new: neither stored nor dead,   *)
(* nor that of another request.                                             *)
Pending(o) == op[o].pc \in {"insert", "put"}
Fresh ==
    /\ dead \subseteq 1..secrets /\ stored \notin dead /\ stored <= secrets
    /\ \A o \in Ops : Pending(o) =>
          /\ op[o].secret \in 1..secrets /\ op[o].secret \notin dead /\ op[o].secret # stored
          /\ \A p \in Ops : Pending(p) /\ op[p].secret = op[o].secret => p = o

(* What a delivery is checked with was not dead when it arrived, and its    *)
(* signature does not change on the way.                                    *)
Checked ==
    \A o \in Ops :
        /\ op[o].pc \in {"secret", "check", "resolve"} => op[o].old \subseteq dead /\ mail[op[o].of] # NoMail
        /\ op[o].pc = "check" => op[o].secret \notin op[o].old
        /\ op[o].pc = "resolve" => mail[op[o].of].secret \notin op[o].old

LEMMA SecretsInit == Init => Fresh /\ Checked
BY IdleOpType DEF Init, Fresh, Checked, Pending

(* A request that stores nothing, and one that stores its new secret.       *)
LEMMA FreshKept ==
    ASSUME Fresh, NEW o \in Ops, UNCHANGED <<dead, stored, secrets>>,
           \A p \in Ops : p # o => op'[p] = op[p], op'[o].pc \notin {"insert", "put"}
    PROVE  Fresh'
BY DEF Fresh, Pending

LEMMA FreshStored ==
    ASSUME TypeOK, Fresh, NEW o \in Ops, NEW s \in {0, op[o].secret}, s # 0 => Pending(o), Store(s),
           secrets' = secrets, \A p \in Ops : p # o => op'[p] = op[p], op'[o].pc \notin {"insert", "put"}
    PROVE  Fresh'
<1>1. stored \in Nat /\ secrets \in Nat /\ s \in Nat
  BY OpFields, SecretType DEF TypeOK
<1>2. stored' = s /\ dead' = dead \cup ({stored} \ {0})
  BY DEF Store
<1>3. dead' \subseteq 1..secrets
  <2>1. dead \subseteq 1..secrets /\ stored <= secrets
    BY DEF Fresh
  <2>2. stored # 0 => stored \in 1..secrets
    BY <1>1, <2>1
  <2> QED BY <1>2, <2>1, <2>2
<1>4. s <= secrets /\ s \notin dead'
  <2>1. CASE s = 0
    BY <1>1, <1>3, <2>1
  <2>2. CASE s # 0
    <3>1. s \in 1..secrets /\ s \notin dead /\ s # stored
      BY <2>2 DEF Fresh
    <3> QED BY <1>1, <1>2, <3>1
  <2> QED BY <2>1, <2>2
<1>5. ASSUME NEW p \in Ops, Pending(p)'
      PROVE  /\ op'[p].secret \in 1..secrets /\ op'[p].secret \notin dead' /\ op'[p].secret # stored'
             /\ \A v \in Ops : Pending(v)' /\ op'[v].secret = op'[p].secret => v = p
  <2>1. p # o /\ op'[p] = op[p] /\ Pending(p)
    BY <1>5 DEF Pending
  <2>2. op[p].secret \in 1..secrets /\ op[p].secret \notin dead /\ op[p].secret # stored
    BY <2>1 DEF Fresh
  <2>3. op[p].secret # s
    BY <1>1, <2>1, <2>2 DEF Fresh
  <2>4. \A v \in Ops : Pending(v)' => op'[v] = op[v] /\ Pending(v)
    BY DEF Pending
  <2> QED BY <1>2, <2>1, <2>2, <2>3, <2>4 DEF Fresh
<1> QED BY <1>2, <1>3, <1>4, <1>5 DEF Fresh

LEMMA FreshGenerated ==
    ASSUME TypeOK, Fresh, NEW o \in Ops, UNCHANGED <<dead, stored>>, secrets' = secrets + 1,
           \A p \in Ops : p # o => op'[p] = op[p], op'[o].secret = secrets + 1
    PROVE  Fresh'
<1>1. stored \in Nat /\ secrets \in Nat
  BY SecretType DEF TypeOK
<1>2. dead \subseteq 1..(secrets + 1) /\ stored <= secrets + 1 /\ stored # secrets + 1 /\ secrets + 1 \notin dead
  BY <1>1 DEF Fresh
<1>3. ASSUME NEW p \in Ops, Pending(p)'
      PROVE  /\ op'[p].secret \in 1..(secrets + 1) /\ op'[p].secret \notin dead /\ op'[p].secret # stored
             /\ \A v \in Ops : Pending(v)' /\ op'[v].secret = op'[p].secret => v = p
  <2>1. \A v \in Ops : v # o /\ Pending(v)' => op'[v] = op[v] /\ Pending(v) /\ op[v].secret \in 1..secrets
    BY DEF Pending, Fresh
  <2>2. \A v \in Ops : v # o /\ Pending(v)' => op'[v].secret # secrets + 1
    BY <1>1, <2>1
  <2>3. CASE p = o
    BY <1>1, <1>2, <2>2, <2>3
  <2>4. CASE p # o
    <3>1. op'[p] = op[p] /\ Pending(p) /\ op[p].secret \in 1..secrets /\ op'[p].secret # secrets + 1
      BY <1>3, <2>1, <2>2, <2>4
    <3>2. \A v \in Ops : Pending(v)' /\ op'[v].secret = op'[p].secret => v # o
      BY <3>1
    <3> QED BY <1>1, <2>1, <3>1, <3>2 DEF Fresh
  <2> QED BY <2>3, <2>4
<1> QED BY <1>2, <1>3 DEF Fresh

LEMMA CheckedKept ==
    ASSUME Checked, NEW o \in Ops, dead \subseteq dead', mail' = mail,
           \A p \in Ops : p # o => op'[p] = op[p], op'[o].pc \notin {"secret", "check", "resolve"}
    PROVE  Checked'
BY DEF Checked

LEMMA CommitsShape ==
    ASSUME TypeOK, NEW o \in Ops, NEW pc \in {"insert", "put"}, NEW possible \in BOOLEAN, Commits(o, pc, possible)
    PROVE  /\ op[o].pc = pc /\ \A p \in Ops : p # o => op'[p] = op[p]
           /\ \/ Store(op[o].secret) /\ op'[o].pc = "answer" /\ op'[o].secret = op[o].secret
              \/ UNCHANGED <<stored, dead>> /\ op'[o].pc = "idle"
<1>t. op \in [Ops -> Op]
  BY DEF TypeOK
<1>1. CASE possible
  BY <1>t, <1>1, GotoType DEF Commits
<1>2. CASE ~possible
  BY <1>t, <1>2, OverType, IdleOpType DEF Commits
<1> QED BY <1>1, <1>2

LEMMA SecretsStep == TypeOK /\ Fresh /\ Checked /\ [Next]_vars => Fresh' /\ Checked'
<1> SUFFICES ASSUME TypeOK, Fresh, Checked, [Next]_vars PROVE Fresh' /\ Checked'
  OBVIOUS
<1>t. /\ op \in [Ops -> Op] /\ requests \in 0..MaxRequests /\ disturbed \in BOOLEAN
      /\ stored \in Secret /\ dead \subseteq Secret
  BY DEF TypeOK
<1>1. ASSUME NEW o \in Ops, NEW c \in Clients, NEW d \in Deliveries, NEW h \in Header,
             Arrive(o, c, d, h)
      PROVE  Fresh' /\ Checked'
  <2>1. UNCHANGED <<dead, stored, secrets, mail>> /\ mail[d] # NoMail
    BY <1>1 DEF Arrive, keys
  <2>2. CASE op' = op
    BY <2>1, <2>2 DEF Fresh, Checked, Pending
  <2>3. CASE op' = [op EXCEPT ![o] = [IdleOp EXCEPT !.pc = "secret", !.of = d, !.header = h, !.old = dead]]
    <3>1. /\ op'[o].pc = "secret" /\ op'[o].of = d /\ op'[o].old = dead
          /\ \A p \in Ops : p # o => op'[p] = op[p]
      BY <1>t, <2>3, IdleOpType DEF Op
    <3>2. Fresh'
      BY <2>1, <3>1, FreshKept
    <3>3. Checked'
      BY <2>1, <3>1 DEF Checked
    <3> QED BY <3>2, <3>3
  <2> QED BY <1>1, <2>2, <2>3 DEF Arrive
<1>2. ASSUME NEW o \in Ops, GetSecret(o) PROVE Fresh' /\ Checked'
  <2>1. UNCHANGED <<dead, stored, secrets, mail>>
    BY <1>2 DEF GetSecret, keys
  <2>2. CASE Over(o, "secret")
    <3>1. op'[o].pc = "idle" /\ \A p \in Ops : p # o => op'[p] = op[p]
      BY <1>t, <2>2, OverType, IdleOpType
    <3> QED BY <2>1, <3>1, FreshKept, CheckedKept
  <2>3. CASE op[o].pc = "secret" /\ op' = [op EXCEPT ![o].pc = "check", ![o].secret = stored]
    <3>1. /\ op'[o].pc = "check" /\ op'[o].of = op[o].of /\ op'[o].old = op[o].old /\ op'[o].secret = stored
          /\ \A p \in Ops : p # o => op'[p] = op[p]
      BY <1>t, <2>3 DEF Op
    <3>2. Fresh'
      BY <2>1, <3>1, FreshKept
    <3>3. op[o].old \subseteq dead /\ stored \notin dead
      BY <2>3 DEF Checked, Fresh
    <3>4. Checked'
      BY <2>1, <2>3, <3>1, <3>3 DEF Checked
    <3> QED BY <3>2, <3>4
  <2> QED BY <1>2, <2>2, <2>3 DEF GetSecret
<1>3. ASSUME NEW o \in Ops, Check(o) PROVE Fresh' /\ Checked'
  <2>1. UNCHANGED <<dead, stored, secrets, mail>> /\ op[o].pc = "check"
    BY <1>3 DEF Check, keys
  <2>2. CASE Over(o, "check")
    <3>1. op'[o].pc = "idle" /\ \A p \in Ops : p # o => op'[p] = op[p]
      BY <1>t, <2>2, OverType, IdleOpType
    <3> QED BY <2>1, <3>1, FreshKept, CheckedKept
  <2>3. CASE Verify(op[o].of, op[o].secret) /\ Goto(o, "check", "resolve")
    <3>1. /\ op'[o].pc = "resolve" /\ op'[o].of = op[o].of /\ op'[o].old = op[o].old
          /\ \A p \in Ops : p # o => op'[p] = op[p]
      BY <1>t, <2>3, GotoType
    <3>2. Fresh'
      BY <2>1, <3>1, FreshKept
    <3>3. mail[op[o].of].secret = op[o].secret
      BY <2>3 DEF Verify
    <3>4. Checked'
      BY <2>1, <3>1, <3>3 DEF Checked
    <3> QED BY <3>2, <3>4
  <2> QED BY <1>3, <2>2, <2>3 DEF Check
<1>4. ASSUME NEW o \in Ops, Resolve(o) \/ Answer(o) PROVE Fresh' /\ Checked'
  <2>1. UNCHANGED <<dead, stored, secrets, mail>>
    BY <1>4 DEF Resolve, Answer, keys, tenantFrame
  <2>2. op'[o].pc = "idle" /\ \A p \in Ops : p # o => op'[p] = op[p]
    BY <1>4, <1>t, OverType, IdleOpType DEF Resolve, Answer
  <2> QED BY <2>1, <2>2, FreshKept, CheckedKept
<1>5. ASSUME NEW o \in Ops, (\E t \in Trigger : Deploy(o, t)) \/ Rotate(o) \/ Unregister(o) PROVE Fresh' /\ Checked'
  <2>1. UNCHANGED <<dead, stored, secrets, mail>>
    BY <1>5 DEF Deploy, Rotate, Unregister, tenantFrame
  <2>2. PICK pc \in {"idle", "ensure", "rotate", "forget"} : Ask(o, pc)
    BY <1>5 DEF Deploy, Rotate, Unregister
  <2>3. op'[o].pc = pc /\ \A p \in Ops : p # o => op'[p] = op[p]
    BY <1>t, <2>2, AskType
  <2> QED BY <2>1, <2>3, FreshKept, CheckedKept
<1>6. ASSUME NEW o \in Ops, Ensure(o) \/ ReadRow(o) PROVE Fresh' /\ Checked'
  <2>1. UNCHANGED <<dead, stored, mail>>
    BY <1>6 DEF Ensure, ReadRow, tenantFrame
  <2>2. CASE Over(o, "ensure") /\ UNCHANGED secrets
    <3>1. op'[o].pc = "idle" /\ \A p \in Ops : p # o => op'[p] = op[p]
      BY <1>t, <2>2, OverType, IdleOpType
    <3> QED BY <2>1, <2>2, <3>1, FreshKept, CheckedKept
  <2>3. CASE /\ op'[o].pc \in {"insert", "put"} /\ op'[o].secret = Generated /\ secrets' = Generated
             /\ \A p \in Ops : p # o => op'[p] = op[p]
    BY <2>1, <2>3, FreshGenerated, CheckedKept DEF Generated
  <2>4. ASSUME Ensure(o), ~(Over(o, "ensure") /\ UNCHANGED secrets)
        PROVE  /\ op'[o].pc \in {"insert", "put"} /\ op'[o].secret = Generated /\ secrets' = Generated
               /\ \A p \in Ops : p # o => op'[p] = op[p]
    <3>1. op' = [op EXCEPT ![o].pc = "insert", ![o].secret = Generated] /\ secrets' = Generated
      BY <2>4 DEF Ensure
    <3> QED BY <1>t, <3>1 DEF Op
  <2>5. ASSUME ReadRow(o)
        PROVE  /\ op'[o].pc \in {"insert", "put"} /\ op'[o].secret = Generated /\ secrets' = Generated
               /\ \A p \in Ops : p # o => op'[p] = op[p]
    <3> DEFINE b == (stored # 0)
    <3>1. op' = [op EXCEPT ![o].pc = "put", ![o].secret = Generated, ![o].found = b] /\ secrets' = Generated
      BY <2>5 DEF ReadRow
    <3> HIDE DEF b
    <3> QED BY <1>t, <3>1 DEF Op
  <2> QED BY <1>6, <2>2, <2>3, <2>4, <2>5
<1>7. ASSUME NEW o \in Ops, Insert(o) \/ Put(o) PROVE Fresh' /\ Checked'
  <2>1. PICK pc \in {"insert", "put"}, possible \in BOOLEAN : Commits(o, pc, possible)
    <3>1. (stored = 0) \in BOOLEAN /\ (op[o].found = (stored # 0)) \in BOOLEAN
      OBVIOUS
    <3> QED BY <1>7, <3>1 DEF Insert, Put
  <2>2. /\ op[o].pc = pc /\ \A p \in Ops : p # o => op'[p] = op[p]
        /\ \/ Store(op[o].secret) /\ op'[o].pc = "answer"
           \/ UNCHANGED <<stored, dead>> /\ op'[o].pc = "idle"
    BY <2>1, CommitsShape
  <2>3. UNCHANGED <<secrets, mail>> /\ Pending(o) /\ dead \subseteq dead'
    BY <1>7, <2>2 DEF Insert, Put, tenantFrame, Pending, Store
  <2> QED BY <2>2, <2>3, FreshKept, FreshStored, CheckedKept
<1>8. ASSUME NEW o \in Ops, Forget(o) PROVE Fresh' /\ Checked'
  <2>1. Store(0) /\ UNCHANGED <<secrets, mail>> /\ dead \subseteq dead'
    BY <1>8 DEF Forget, tenantFrame, Store
  <2>2. op'[o].pc = "idle" /\ \A p \in Ops : p # o => op'[p] = op[p]
    BY <1>8, <1>t, OverType, IdleOpType DEF Forget
  <2> QED BY <2>1, <2>2, FreshStored, CheckedKept
<1>9. ASSUME NEW d \in Deliveries, Sign(d) PROVE Fresh' /\ Checked'
  <2>1. UNCHANGED <<dead, stored, secrets, op>> /\ mail[d] = NoMail
    BY <1>9 DEF Sign, keys
  <2>2. \A e \in Deliveries : mail[e] # NoMail => mail'[e] = mail[e]
    BY <1>9 DEF Sign, TypeOK
  <2>3. \A o \in Ops : op[o].of \in Deliveries
    BY <1>t, OpFields
  <2>4. Fresh'
    BY <2>1 DEF Fresh, Pending
  <2>5. Checked'
    BY <2>1, <2>2, <2>3 DEF Checked
  <2> QED BY <2>4, <2>5
<1>10. CASE Restart
  <2>1. UNCHANGED <<dead, stored, secrets>> /\ \A o \in Ops : op'[o].pc = "idle"
    BY <1>10, IdleOpType DEF Restart
  <2> QED BY <2>1 DEF Fresh, Pending, Checked
<1>11. CASE Tick \/ UNCHANGED vars
  <2>1. UNCHANGED <<dead, stored, secrets, op, mail>>
    BY <1>11 DEF Tick, vars, keys
  <2> QED BY <2>1 DEF Fresh, Pending, Checked
<1> QED BY <1>1, <1>2, <1>3, <1>4, <1>5, <1>6, <1>7, <1>8, <1>9, <1>10, <1>11, Kinds

(* A delivery that arrives after its secret was replaced or deleted makes   *)
(* no run, whatever other requests do meanwhile.                            *)
THEOREM OldSecretsAreDead == Spec => []OldSecretsDie
<1>1. Checked => OldSecretsDie
  BY DEF Checked, OldSecretsDie
<1> QED BY <1>1, TypeInit, TypeStep, SecretsInit, SecretsStep, PTL DEF Spec

-----------------------------------------------------------------------------
(* What was accepted lies in the window of its delivery; the memory of this *)
(* process has a use of the same header, as late or later.                  *)
Spent(x, y) == x.header = y.header /\ x.life = y.life => y.at - x.at >= 2 * Tolerance
Noted ==
    \A d \in Deliveries :
        /\ accepted[d] # <<>> => mail[d] # NoMail
        /\ \A i \in 1..Len(accepted[d]) :
              /\ Distance(accepted[d][i].at, mail[d].ts) <= Tolerance
              /\ accepted[d][i].life <= faults
              /\ accepted[d][i].life = faults =>
                    \E t \in seen[d][accepted[d][i].header] : accepted[d][i].at <= t
        /\ \A i, j \in 1..Len(accepted[d]) : i < j => Spent(accepted[d][i], accepted[d][j])

LEMMA NotedInit == Init => Noted
BY DEF Init, Noted, Nothing

(* A copy that is accepted comes long after those with the same header.     *)
LEMMA NotedCheck ==
    ASSUME TypeOK, Noted, Checked, NEW o \in Ops, Check(o)
    PROVE  Noted'
<1> DEFINE d == op[o].of
           h == op[o].header
           n == [header |-> h, at |-> now, life |-> faults]
           all == accepted[d]
           a == Append(all, n)
<1>1. /\ d \in Deliveries /\ h \in Header /\ all \in Seq(Accepted) /\ now \in Nat /\ Tolerance \in Nat
      /\ faults \in Nat /\ UNCHANGED <<now, mail, faults>> /\ op[o].pc = "check"
      /\ accepted \in [Deliveries -> Seq(Accepted)] /\ seen \in [Deliveries -> [Header -> SUBSET Time]]
  BY OpFields, TimeType, LimitsAssumption, BoundsAssumption DEF TypeOK, Check, bounds
<1>2. CASE UNCHANGED <<seen, accepted>>
  BY <1>1, <1>2 DEF Noted, Spent
<1>3. CASE /\ Verify(d, op[o].secret) /\ FirstUse(d, h)
           /\ seen' = [seen EXCEPT ![d][h] = {now}] /\ accepted' = [accepted EXCEPT ![d] = Append(@, n)]
  <2>1. /\ Distance(now, mail[d].ts) <= Tolerance /\ mail[d] # NoMail
        /\ \A t \in seen[d][h] : now - t >= 2 * Tolerance
    BY <1>1, <1>3 DEF Verify, FirstUse, Checked
  <2>2. n.header = h /\ n.at = now /\ n.life = faults /\ n \in Accepted
    BY <1>1 DEF Accepted, TypeOK
  <2>3. /\ accepted'[d] = a /\ seen'[d][h] = {now}
        /\ \A k \in Header : k # h => seen'[d][k] = seen[d][k]
        /\ \A e \in Deliveries : e # d => seen'[e] = seen[e] /\ accepted'[e] = accepted[e]
    BY <1>1, <1>3
  <2>4. /\ \A i \in 1..Len(all) :
              /\ Distance(all[i].at, mail[d].ts) <= Tolerance /\ all[i].life <= faults
              /\ all[i].life = faults => \E t \in seen[d][all[i].header] : all[i].at <= t
        /\ \A i, j \in 1..Len(all) : i < j => Spent(all[i], all[j])
    BY <1>1 DEF Noted
  <2> HIDE DEF d, h, n
  <2>5. /\ Len(all) \in Nat /\ Len(a) = Len(all) + 1 /\ a[Len(all) + 1] = n
        /\ \A i \in 1..Len(all) : a[i] = all[i]
    BY <1>1, <2>2, AppendProperties
  <2>6. ASSUME NEW i \in 1..Len(all) PROVE all[i] \in Accepted /\ all[i].header \in Header /\ all[i].at \in Nat
    <3>1. all[i] \in Accepted
      BY <1>1
    <3> QED BY <3>1, TimeType DEF Accepted
  <2> HIDE DEF all, a
  <2>7. ASSUME NEW i \in 1..Len(all), all[i].header = h, all[i].life = faults PROVE now - all[i].at >= 2 * Tolerance
    <3> DEFINE x == all[i].at
    <3>1. PICK t \in seen[d][h] : x <= t
      BY <2>4, <2>7
    <3>2. t \in Nat /\ x \in Nat /\ now - t >= 2 * Tolerance
      BY <1>1, <2>1, <2>6, TimeType
    <3> HIDE DEF x
    <3>3. now - x >= 2 * Tolerance
      BY <1>1, <3>1, <3>2
    <3> QED BY <3>3 DEF x
  <2>8. ASSUME NEW i \in 1..Len(a), NEW j \in 1..Len(a), i < j PROVE Spent(a[i], a[j])
    <3>1. i \in 1..Len(all)
      BY <2>5, <2>8
    <3>2. CASE j \in 1..Len(all)
      BY <2>4, <2>5, <2>8, <3>1, <3>2
    <3>3. CASE j = Len(all) + 1
      BY <2>2, <2>5, <2>7, <3>1, <3>3 DEF Spent
    <3> QED BY <2>5, <3>2, <3>3
  <2>9. ASSUME NEW i \in 1..Len(a)
        PROVE  /\ Distance(a[i].at, mail[d].ts) <= Tolerance /\ a[i].life <= faults
               /\ a[i].life = faults => \E t \in seen'[d][a[i].header] : a[i].at <= t
    <3>1. CASE i = Len(all) + 1
      <4>1. a[i].at = now /\ a[i].life = faults /\ a[i].header = h /\ seen'[d][a[i].header] = {now}
        BY <2>2, <2>3, <2>5, <3>1
      <4> QED BY <1>1, <2>1, <4>1
    <3>2. CASE i \in 1..Len(all) /\ all[i].header # h
      BY <2>3, <2>4, <2>5, <2>6, <3>2
    <3>3. CASE i \in 1..Len(all) /\ all[i].header = h
      <4>1. a[i].life = faults => a[i].at <= now
        <5> DEFINE x == all[i].at
        <5>1. x \in Nat /\ (all[i].life = faults => now - x >= 2 * Tolerance)
          BY <2>6, <2>7, <3>3
        <5> HIDE DEF x
        <5>2. all[i].life = faults => x <= now
          BY <1>1, <5>1
        <5> QED BY <2>5, <3>3, <5>2 DEF x
      <4> QED BY <2>3, <2>4, <2>5, <3>3, <4>1
    <3> QED BY <2>5, <3>1, <3>2, <3>3
  <2>10. ASSUME NEW e \in Deliveries
         PROVE  /\ accepted'[e] # <<>> => mail[e] # NoMail
                /\ \A i \in 1..Len(accepted'[e]) :
                      /\ Distance(accepted'[e][i].at, mail[e].ts) <= Tolerance
                      /\ accepted'[e][i].life <= faults
                      /\ accepted'[e][i].life = faults =>
                            \E t \in seen'[e][accepted'[e][i].header] : accepted'[e][i].at <= t
                /\ \A i, j \in 1..Len(accepted'[e]) : i < j => Spent(accepted'[e][i], accepted'[e][j])
    <3>1. CASE e = d
      BY <2>1, <2>3, <2>8, <2>9, <3>1
    <3>2. CASE e # d
      BY <2>3, <3>2 DEF Noted
    <3> QED BY <3>1, <3>2
  <2> QED BY <1>1, <2>10 DEF Noted, Spent
<1> QED BY <1>2, <1>3 DEF Check

LEMMA NotedStep == TypeOK /\ Noted /\ Checked /\ [Next]_vars => Noted'
<1> SUFFICES ASSUME TypeOK, Noted, Checked, [Next]_vars PROVE Noted'
  OBVIOUS
<1>1. CASE UNCHANGED <<seen, accepted, mail, faults>>
  BY <1>1 DEF Noted, Spent
<1>2. ASSUME NEW d \in Deliveries, Sign(d) PROVE Noted'
  <2>1. /\ mail \in [Deliveries -> Mail] /\ accepted[d] = <<>> /\ UNCHANGED <<seen, accepted, faults>>
        /\ \A e \in Deliveries : e # d => mail'[e] = mail[e]
    BY <1>2 DEF Sign, bounds, TypeOK, Noted
  <2>2. \A e \in Deliveries : accepted[e] # <<>> => mail'[e] = mail[e]
    BY <2>1
  <2>3. \A e \in Deliveries : accepted[e] = <<>> => 1..Len(accepted[e]) = {}
    OBVIOUS
  <2> QED BY <2>1, <2>2, <2>3 DEF Noted, Spent
<1>3. CASE Restart
  <2>1. UNCHANGED <<accepted, mail>> /\ faults' = faults + 1 /\ faults \in Nat
    BY <1>3, BoundsAssumption DEF Restart, TypeOK
  <2>2. ASSUME NEW d \in Deliveries, NEW i \in 1..Len(accepted[d])
        PROVE  accepted[d][i].life <= faults' /\ accepted[d][i].life # faults'
    <3>1. accepted[d][i].life \in Nat
      <4>1. accepted[d][i] \in Accepted
        BY DEF TypeOK
      <4> QED BY <4>1, BoundsAssumption DEF Accepted
    <3>2. accepted[d][i].life <= faults
      BY DEF Noted
    <3> DEFINE x == accepted[d][i].life
    <3> HIDE DEF x
    <3>3. x \in Nat /\ x <= faults
      BY <3>1, <3>2 DEF x
    <3>4. x <= faults' /\ x # faults'
      BY <2>1, <3>3
    <3> QED BY <3>4 DEF x
  <2> QED BY <2>1, <2>2 DEF Noted, Spent
<1>4. \/ \E o \in Ops : Check(o)
      \/ \E d \in Deliveries : Sign(d)
      \/ Restart \/ UNCHANGED <<seen, accepted, mail, faults>>
  <2>1. \A o \in Ops, c \in Clients, d \in Deliveries, h \in Header :
           Arrive(o, c, d, h) => UNCHANGED <<seen, accepted, mail, faults>>
    BY DEF Arrive
  <2>2. \A o \in Ops : GetSecret(o) \/ Resolve(o) => UNCHANGED <<seen, accepted, mail, faults>>
    BY DEF GetSecret, Resolve, bounds
  <2>3. \A o \in Ops, t \in Trigger : Deploy(o, t) => UNCHANGED <<seen, accepted, mail, faults>>
    BY DEF Deploy, tenantFrame
  <2>4. \A o \in Ops : Ensure(o) \/ Insert(o) \/ ReadRow(o) \/ Put(o) \/ Answer(o) \/ Forget(o)
                          => UNCHANGED <<seen, accepted, mail, faults>>
    BY DEF Ensure, Insert, ReadRow, Put, Answer, Forget, tenantFrame
  <2>5. \A o \in Ops : Rotate(o) \/ Unregister(o) => UNCHANGED <<seen, accepted, mail, faults>>
    BY DEF Rotate, Unregister, tenantFrame
  <2>6. Tick \/ UNCHANGED vars => UNCHANGED <<seen, accepted, mail, faults>>
    BY DEF Tick, vars, bounds
  <2> QED BY <2>1, <2>2, <2>3, <2>4, <2>5, <2>6, Kinds
<1> QED BY <1>1, <1>2, <1>3, <1>4, NotedCheck

(* For any tolerance: a process accepts a header of a delivery twice only   *)
(* at the two ends of its window, which the memory of uses is as long as.   *)
THEOREM OnlyAcceptedOnce == Spec => []AcceptedOnce
<1>1. TypeOK /\ Noted => AcceptedOnce
  <2> SUFFICES ASSUME TypeOK, Noted, NEW d \in Deliveries, NEW i \in DOMAIN accepted[d], NEW j \in DOMAIN accepted[d],
                      i < j, accepted[d][i].header = accepted[d][j].header, accepted[d][i].life = accepted[d][j].life
               PROVE  accepted[d][i].at + Tolerance = mail[d].ts /\ accepted[d][j].at = mail[d].ts + Tolerance
    BY DEF AcceptedOnce
  <2>1. accepted[d] \in Seq(Accepted) /\ mail[d] \in Mail /\ Tolerance \in Nat
    BY LimitsAssumption DEF TypeOK
  <2>2. i \in 1..Len(accepted[d]) /\ j \in 1..Len(accepted[d])
    BY <2>1
  <2>3. accepted[d][i] \in Accepted /\ accepted[d][j] \in Accepted
    BY <2>1
  <2> DEFINE x == accepted[d][i].at
             y == accepted[d][j].at
             ts == mail[d].ts
  <2>4. x \in Nat /\ y \in Nat /\ ts \in Nat
    BY <2>1, <2>3, TimeType DEF Accepted, Mail
  <2>5. Distance(x, ts) <= Tolerance /\ Distance(y, ts) <= Tolerance
    BY <2>2 DEF Noted
  <2>6. y - x >= 2 * Tolerance
    BY <2>2 DEF Noted, Spent
  <2> HIDE DEF x, y, ts
  <2>7. x + Tolerance = ts /\ y = ts + Tolerance
    BY <2>1, <2>4, <2>5, <2>6 DEF Distance
  <2> QED BY <2>7 DEF x, y, ts
<1> QED BY <1>1, TypeInit, TypeStep, NotedInit, NotedStep, SecretsInit, SecretsStep, PTL DEF Spec

-----------------------------------------------------------------------------
(* While requests of the tenant come one after the other, one is under way  *)
(* at most; what it is about to show is what is stored, and what was shown  *)
(* is stored unless one has just replaced it.                               *)
Alone ==
    ~disturbed =>
        /\ \A o, p \in Ops : Manages(o) /\ Manages(p) => o = p
        /\ \A o \in Ops : op[o].pc = "answer" => op[o].secret = stored
        /\ (\A o \in Ops : op[o].pc # "answer") => stored = shown

LEMMA AloneInit == Init => Alone
BY IdleOpType DEF Init, Alone, Manages

(* A request that manages no secret leaves them alone, *)
LEMMA AloneOther ==
    ASSUME Alone, NEW o \in Ops, UNCHANGED <<stored, shown, disturbed>>, \A p \in Ops : p # o => op'[p] = op[p],
           ~Manages(o), ~Manages(o)'
    PROVE  Alone'
BY DEF Alone, Manages

(* and one that does is the only one.                                       *)
LEMMA AloneGoes ==
    ASSUME Alone, NEW o \in Ops, UNCHANGED disturbed, \A p \in Ops : p # o => op'[p] = op[p], Manages(o),
           \/ UNCHANGED <<stored, shown>> /\ op[o].pc # "answer" /\ op'[o].pc # "answer"
           \/ op'[o].pc = "answer" /\ op'[o].secret = stored'
           \/ stored' = shown' /\ op'[o].pc = "idle"
    PROVE  Alone'
<1> SUFFICES ASSUME ~disturbed PROVE Alone'
  BY DEF Alone
<1>1. \A p \in Ops : p # o => ~Manages(p) /\ ~Manages(p)' /\ op[p].pc # "answer" /\ op'[p].pc # "answer"
  BY DEF Alone, Manages
<1>2. \A u, v \in Ops : Manages(u)' /\ Manages(v)' => u = v
  BY <1>1
<1>3. CASE UNCHANGED <<stored, shown>> /\ op[o].pc # "answer" /\ op'[o].pc # "answer"
  BY <1>1, <1>2, <1>3 DEF Alone
<1>4. CASE op'[o].pc = "answer" /\ op'[o].secret = stored'
  BY <1>1, <1>2, <1>4 DEF Alone
<1>5. CASE stored' = shown' /\ op'[o].pc = "idle"
  BY <1>1, <1>2, <1>5 DEF Alone
<1> QED BY <1>3, <1>4, <1>5

LEMMA AloneStep == TypeOK /\ Alone /\ [Next]_vars => Alone'
<1> SUFFICES ASSUME TypeOK, Alone, [Next]_vars PROVE Alone'
  OBVIOUS
<1>t. op \in [Ops -> Op] /\ requests \in 0..MaxRequests /\ disturbed \in BOOLEAN
  BY DEF TypeOK
<1>1. ASSUME NEW o \in Ops, NEW c \in Clients, NEW d \in Deliveries, NEW h \in Header,
             Arrive(o, c, d, h)
      PROVE  Alone'
  <2>1. UNCHANGED <<stored, shown, disturbed>> /\ op[o].pc = "idle"
    BY <1>1 DEF Arrive, keys
  <2>2. op'[o].pc \in {"idle", "secret"} /\ \A p \in Ops : p # o => op'[p] = op[p]
    BY <1>1, <1>t, <2>1, IdleOpType DEF Arrive, Op
  <2> QED BY <2>1, <2>2, AloneOther DEF Manages
<1>2. ASSUME NEW o \in Ops, GetSecret(o) \/ Check(o) \/ Resolve(o) PROVE Alone'
  <2>1. UNCHANGED <<stored, shown, disturbed>>
    BY <1>2 DEF GetSecret, Check, Resolve, keys
  <2>2. /\ op[o].pc \in {"secret", "check", "resolve"} /\ op'[o].pc \in {"idle", "check", "resolve"}
        /\ \A p \in Ops : p # o => op'[p] = op[p]
    <3>1. CASE GetSecret(o)
      BY <1>t, <3>1, OverType, IdleOpType DEF GetSecret, Op
    <3>2. CASE Check(o) \/ Resolve(o)
      BY <1>t, <3>2, OverType, GotoType, IdleOpType DEF Check, Resolve
    <3> QED BY <1>2, <3>1, <3>2
  <2> QED BY <2>1, <2>2, AloneOther DEF Manages
<1>3. ASSUME NEW o \in Ops, (\E t \in Trigger : Deploy(o, t)) \/ Rotate(o) \/ Unregister(o) PROVE Alone'
  <2>1. UNCHANGED <<stored, shown>>
    BY <1>3 DEF Deploy, Rotate, Unregister
  <2>2. PICK pc \in {"idle", "ensure", "rotate", "forget"} : Ask(o, pc)
    BY <1>3 DEF Deploy, Rotate, Unregister
  <2>3. /\ op'[o].pc = pc /\ op[o].pc = "idle" /\ \A p \in Ops : p # o => op'[p] = op[p]
        /\ disturbed' = (disturbed \/ \E p \in Ops : Manages(p))
    BY <1>t, <2>2, AskType
  <2> SUFFICES ASSUME ~disturbed' PROVE Alone'
    BY DEF Alone
  <2>4. ~disturbed /\ \A p \in Ops : ~Manages(p)
    BY <2>3
  <2>5. \A p \in Ops : (p # o => ~Manages(p)') /\ op[p].pc # "answer" /\ op'[p].pc # "answer"
    BY <2>3, <2>4 DEF Manages
  <2> QED BY <2>1, <2>4, <2>5 DEF Alone
<1>4. ASSUME NEW o \in Ops, Ensure(o) \/ ReadRow(o) PROVE Alone'
  <2>1. UNCHANGED <<stored, shown, disturbed>> /\ op[o].pc \in {"ensure", "rotate"}
    BY <1>4 DEF Ensure, ReadRow, Over
  <2>2. op'[o].pc # "answer" /\ \A p \in Ops : p # o => op'[p] = op[p]
    <3>1. CASE Over(o, "ensure")
      BY <1>t, <3>1, OverType, IdleOpType
    <3>2. CASE Ensure(o) /\ ~Over(o, "ensure")
      <4>1. op' = [op EXCEPT ![o].pc = "insert", ![o].secret = Generated]
        BY <3>2 DEF Ensure
      <4> QED BY <1>t, <4>1 DEF Op
    <3>3. CASE ReadRow(o)
      <4> DEFINE b == (stored # 0)
      <4>1. op' = [op EXCEPT ![o].pc = "put", ![o].secret = Generated, ![o].found = b]
        BY <3>3 DEF ReadRow
      <4> HIDE DEF b
      <4> QED BY <1>t, <4>1 DEF Op
    <3> QED BY <1>4, <3>1, <3>2, <3>3
  <2> QED BY <2>1, <2>2, AloneGoes DEF Manages
<1>5. ASSUME NEW o \in Ops, Insert(o) \/ Put(o) PROVE Alone'
  <2>1. PICK pc \in {"insert", "put"}, possible \in BOOLEAN : Commits(o, pc, possible)
    <3>1. (stored = 0) \in BOOLEAN /\ (op[o].found = (stored # 0)) \in BOOLEAN
      OBVIOUS
    <3> QED BY <1>5, <3>1 DEF Insert, Put
  <2>2. UNCHANGED <<shown, disturbed>>
    BY <1>5 DEF Insert, Put
  <2>3. /\ op[o].pc = pc /\ \A p \in Ops : p # o => op'[p] = op[p]
        /\ \/ Store(op[o].secret) /\ op'[o].pc = "answer" /\ op'[o].secret = op[o].secret
           \/ UNCHANGED <<stored, dead>> /\ op'[o].pc = "idle"
    BY <2>1, CommitsShape
  <2> QED BY <2>2, <2>3, AloneGoes DEF Manages, Store
<1>6. ASSUME NEW o \in Ops, Answer(o) PROVE Alone'
  <2>1. /\ UNCHANGED <<stored, disturbed>> /\ shown' = op[o].secret /\ op[o].pc = "answer" /\ op'[o].pc = "idle"
        /\ \A p \in Ops : p # o => op'[p] = op[p]
    BY <1>6, <1>t, OverType, IdleOpType DEF Answer
  <2>2. ~disturbed => stored' = shown'
    BY <2>1 DEF Alone
  <2>3. Manages(o)
    BY <2>1 DEF Manages
  <2>4. CASE disturbed
    BY <2>1, <2>4 DEF Alone
  <2> QED BY <2>1, <2>2, <2>3, <2>4, AloneGoes
<1>7. ASSUME NEW o \in Ops, Forget(o) PROVE Alone'
  <2>1. /\ stored' = 0 /\ shown' = 0 /\ UNCHANGED disturbed /\ op[o].pc = "forget" /\ op'[o].pc = "idle"
        /\ \A p \in Ops : p # o => op'[p] = op[p]
    BY <1>7, <1>t, OverType, IdleOpType DEF Forget, Store
  <2> QED BY <2>1, AloneGoes DEF Manages
<1>8. CASE Restart
  <2>1. /\ UNCHANGED <<stored, shown>> /\ disturbed' = (disturbed \/ \E o \in Ops : Manages(o))
        /\ \A o \in Ops : op'[o].pc = "idle"
    BY <1>8, IdleOpType DEF Restart
  <2> SUFFICES ASSUME ~disturbed' PROVE Alone'
    BY DEF Alone
  <2>2. ~disturbed /\ \A o \in Ops : op[o].pc # "answer"
    BY <2>1 DEF Manages
  <2> QED BY <2>1, <2>2 DEF Alone, Manages
<1>9. CASE Tick \/ (\E d \in Deliveries : Sign(d)) \/ UNCHANGED vars
  <2>1. UNCHANGED <<stored, shown, disturbed, op>>
    BY <1>9 DEF Tick, Sign, vars, keys
  <2> QED BY <2>1 DEF Alone, Manages
<1> QED BY <1>1, <1>2, <1>3, <1>4, <1>5, <1>6, <1>7, <1>8, <1>9, Kinds

(* As long as the tenant's requests came one after the other, the secret    *)
(* shown last is the one that works.                                        *)
THEOREM ShownSecretIsStored == Spec => []ShownSecretWorks
<1>1. Alone => ShownSecretWorks
  BY DEF Alone, ShownSecretWorks, Manages
<1> QED BY <1>1, TypeInit, TypeStep, AloneInit, AloneStep, PTL DEF Spec
=============================================================================

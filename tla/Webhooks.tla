------------------------------ MODULE Webhooks ------------------------------
(***************************************************************************)
(* Inbound webhooks of one workflow: the rate limit and the memory of past *)
(* deliveries that a process keeps, and the signing secret in the database *)
(* with the requests that create, renew and delete it.                     *)
(*                                                                         *)
(* A delivery is signed once and may arrive any number of times, with its  *)
(* signature written in either of the ways that verify reads.  Requests    *)
(* interleave at their awaits.  One clock serves senders and process, its  *)
(* unit is what separates two events; a sender's clock may be off.  The    *)
(* definition of the workflow is its trigger (Deployments has its caches). *)
(*                                                                         *)
(* Definitions named Bug... are faults put in the place of the definition  *)
(* that follows them, to see that the properties notice.                   *)
(***************************************************************************)
EXTENDS Naturals, Sequences

CONSTANTS
    Clients, Deliveries,
    Ops,          \* concurrent requests
    Tolerance,    \* TOLERANCE_SECONDS
    Window,       \* the minute of the rate limit
    MaxHits,      \* max_per_minute
    MaxKeys,      \* max_keys
    MaxTime,      \* bound: the clock
    MaxArrivals,  \* bound: deliveries that arrive
    MaxRequests,  \* bound: requests of the tenant
    MaxFaults     \* bound: restarts

ASSUME LimitsAssumption ==
    Tolerance \in Nat \ {0} /\ Window \in Nat /\ MaxHits \in Nat \ {0} /\ MaxKeys \in Nat \ {0}
ASSUME BoundsAssumption ==
    MaxTime \in Nat /\ MaxArrivals \in Nat /\ MaxRequests \in Nat /\ MaxFaults \in Nat
ASSUME NamesAssumption == Clients # {} /\ Deliveries # {}

Time == 0..MaxTime
Trigger == {"none", "webhook", "manual", "other"}
Secret == 0..MaxRequests  \* in the order of their generation, 0 is none
Header == {"bare", "prefixed"}  \* <hex> and sha256=<hex>

VARIABLES
    now,
    hits, lru,  \* WebhookGuard._hits: the times, and the order of the keys
    seen,       \* WebhookGuard._seen: the last use of each header of a delivery, if any
    mail,       \* the deliveries signed
    trigger,    \* the trigger of the definition
    stored,     \* the row of the secret
    op,         \* the requests under way
    secrets,    \* how many secrets have been generated
    passed,     \* history: the times allow said yes, since it knows the client
    accepted,   \* history: when verify and first_use said yes, to what, in which process
    shown,      \* history: the last secret shown to the tenant and not deleted since
    dead,       \* history: secrets replaced or deleted
    disturbed,  \* history: requests of the tenant overlapped or were cut
    arrivals, requests, faults  \* how much of each bound is used

guard == <<hits, lru, passed>>
keys == <<trigger, stored, secrets, shown, dead, disturbed>>
bounds == <<arrivals, requests, faults>>
vars == <<now, guard, seen, mail, op, accepted, keys, bounds>>

Mail == [ts : Time, secret : Secret]
NoMail == [ts |-> 0, secret |-> 0]

\* secret is the one read or generated, found whether there was a row, old
\* (history) what was dead when the request came in
Op == [pc : {"idle", "secret", "check", "resolve", "ensure", "insert", "rotate", "put", "answer",
             "forget"},
       of : Deliveries, header : Header, secret : Secret, found : BOOLEAN, old : SUBSET Secret]
IdleOp == [pc |-> "idle", of |-> CHOOSE d \in Deliveries : TRUE, header |-> "bare",
           secret |-> 0, found |-> FALSE, old |-> {}]

\* life counts the processes
Accepted == [header : Header, at : Time, life : 0..MaxFaults]

TypeOK ==
    /\ now \in Time
    /\ hits \in [Clients -> Seq(Time)] /\ passed \in [Clients -> Seq(Time)]
    /\ lru \in Seq(Clients) /\ Len(lru) <= MaxKeys
    /\ seen \in [Deliveries -> [Header -> SUBSET Time]] /\ accepted \in [Deliveries -> Seq(Accepted)]
    /\ mail \in [Deliveries -> Mail]
    /\ trigger \in Trigger /\ stored \in Secret /\ secrets \in Secret
    /\ shown \in Secret /\ dead \subseteq Secret /\ disturbed \in BOOLEAN
    /\ op \in [Ops -> Op]
    /\ arrivals \in 0..MaxArrivals /\ requests \in 0..MaxRequests /\ faults \in 0..MaxFaults

Nothing(S) == [x \in S |-> <<>>]
Unseen == [d \in Deliveries |-> [h \in Header |-> {}]]

Init ==
    /\ now = 0
    /\ hits = Nothing(Clients) /\ lru = <<>> /\ passed = Nothing(Clients)
    /\ seen = Unseen /\ accepted = Nothing(Deliveries)
    /\ mail = [d \in Deliveries |-> NoMail]
    /\ trigger = "none" /\ stored = 0 /\ secrets = 0
    /\ shown = 0 /\ dead = {} /\ disturbed = FALSE
    /\ op = [o \in Ops |-> IdleOp]
    /\ arrivals = 0 /\ requests = 0 /\ faults = 0

-----------------------------------------------------------------------------
(* The guard.                                                              *)

(* Times leave a queue at its head, until one is fresh. *)
Since(q, fresh) ==
    SubSeq(q, CHOOSE i \in fresh \cup {Len(q) + 1} : \A j \in fresh : i <= j, Len(q))
BugRecent(c) == Since(hits[c], {i \in DOMAIN hits[c] : now - hits[c][i] < Window})
Recent(c) == Since(hits[c], {i \in DOMAIN hits[c] : now - hits[c][i] <= Window})

Known(c) == \E i \in DOMAIN lru : lru[i] = c
Without(c) ==
    LET i == CHOOSE i \in DOMAIN lru : lru[i] = c IN
    SubSeq(lru, 1, i - 1) \o SubSeq(lru, i + 1, Len(lru))

(* Too many clients: the one that has not come for longest is forgotten. *)
BugCrowded(c) == ~Known(c) /\ Len(lru) > MaxKeys
Crowded(c) == ~Known(c) /\ Len(lru) >= MaxKeys
Kept(f, c) == [k \in Clients |-> IF Crowded(c) /\ k = Head(lru) THEN <<>> ELSE f[k]]
Allowed(c) == Len(Recent(c)) < MaxHits

Allow(c) ==
    /\ lru' = Append(IF Known(c) THEN Without(c) ELSE IF Crowded(c) THEN Tail(lru) ELSE lru, c)
    /\ hits' = [Kept(hits, c) EXCEPT ![c] = IF Allowed(c) THEN Append(Recent(c), now) ELSE Recent(c)]
    /\ passed' = [Kept(passed, c) EXCEPT ![c] = IF Allowed(c) THEN Append(@, now) ELSE @]

(* The purge of a large _seen drops what no longer counts. *)
BugFirstUse(d, h) == \A t \in seen[d][h] : now - t >= Tolerance
FirstUse(d, h) == \A t \in seen[d][h] : now - t >= 2 * Tolerance

Distance(a, b) == IF a > b THEN a - b ELSE b - a
(* The prefix of the signature is not looked at. *)
BugVerify(d, secret) == Distance(now, mail[d].ts) <= Tolerance
Verify(d, secret) == Distance(now, mail[d].ts) <= Tolerance /\ mail[d].secret = secret

-----------------------------------------------------------------------------
(* http_webhook.                                                           *)

Goto(o, from, to) == op[o].pc = from /\ op' = [op EXCEPT ![o].pc = to]
Over(o, from) == op[o].pc = from /\ op' = [op EXCEPT ![o] = IdleOp]

Arrive(o, c, d, h) ==
    /\ op[o].pc = "idle" /\ mail[d] # NoMail
    /\ arrivals < MaxArrivals /\ arrivals' = arrivals + 1
    /\ Allow(c)
    /\ op' = IF Allowed(c)
                THEN [op EXCEPT ![o] = [IdleOp EXCEPT !.pc = "secret", !.of = d, !.header = h, !.old = dead]]
                ELSE op
    /\ UNCHANGED <<now, seen, mail, accepted, keys, requests, faults>>

GetSecret(o) ==
    /\ \/ stored = 0 /\ Over(o, "secret")
       \/ stored # 0 /\ op[o].pc = "secret" /\ op' = [op EXCEPT ![o].pc = "check", ![o].secret = stored]
    /\ UNCHANGED <<now, guard, seen, mail, accepted, keys, bounds>>

Check(o) ==
    LET d == op[o].of
        h == op[o].header
    IN
    /\ op[o].pc = "check"
    /\ \/ /\ Verify(d, op[o].secret) /\ FirstUse(d, h)
          /\ Goto(o, "check", "resolve")
          /\ seen' = [seen EXCEPT ![d][h] = {now}]
          /\ accepted' = [accepted EXCEPT ![d] = Append(@, [header |-> h, at |-> now, life |-> faults])]
       \/ /\ ~(Verify(d, op[o].secret) /\ FirstUse(d, h))
          /\ Over(o, "check")
          /\ UNCHANGED <<seen, accepted>>
    /\ UNCHANGED <<now, guard, mail, keys, bounds>>

(* A run is created and queued, or refused: no such definition any more, not
   its trigger, no JSON object, a store that raises.  The delivery stays used. *)
Resolve(o) ==
    /\ Over(o, "resolve")
    /\ UNCHANGED <<now, guard, seen, mail, accepted, keys, bounds>>

-----------------------------------------------------------------------------
(* The requests of the tenant.                                             *)

Manages(o) == op[o].pc \in {"ensure", "insert", "rotate", "put", "answer", "forget"}

Ask(o, pc) ==
    /\ op[o].pc = "idle" /\ requests < MaxRequests /\ requests' = requests + 1
    /\ op' = [op EXCEPT ![o].pc = pc]
    /\ disturbed' = (disturbed \/ \E p \in Ops : Manages(p))

tenantFrame == <<now, guard, seen, mail, accepted, arrivals, faults>>

Store(s) ==
    /\ stored' = s
    /\ dead' = dead \cup ({stored} \ {0})

(* A commit, or an exception that ends the request. *)
Commits(o, pc, possible) ==
    IF possible
       THEN Goto(o, pc, "answer") /\ Store(op[o].secret)
       ELSE Over(o, pc) /\ UNCHANGED <<stored, dead>>

(* generate_secret. *)
Generated == secrets + 1

(* _deploy, once registered. *)
Deploy(o, t) ==
    /\ t # "none" /\ Ask(o, IF t = "webhook" THEN "ensure" ELSE "idle")
    /\ trigger' = t
    /\ UNCHANGED <<stored, secrets, shown, dead, tenantFrame>>

BugEnsure(o) ==
    /\ op[o].pc = "ensure"
    /\ op' = [op EXCEPT ![o].pc = IF stored = 0 THEN "insert" ELSE "answer", ![o].secret = Generated]
    /\ secrets' = Generated
    /\ UNCHANGED <<trigger, stored, shown, dead, disturbed, requests, tenantFrame>>

Ensure(o) ==
    /\ \/ stored # 0 /\ Over(o, "ensure") /\ UNCHANGED secrets
       \/ /\ stored = 0 /\ op[o].pc = "ensure"
          /\ op' = [op EXCEPT ![o].pc = "insert", ![o].secret = Generated]
          /\ secrets' = Generated
    /\ UNCHANGED <<trigger, stored, shown, dead, disturbed, requests, tenantFrame>>

(* The unique constraint on the workflow decides between two of them. *)
Insert(o) ==
    /\ Commits(o, "insert", stored = 0)
    /\ UNCHANGED <<trigger, secrets, shown, disturbed, requests, tenantFrame>>

Rotate(o) ==
    /\ trigger \in {"webhook", "manual"} /\ Ask(o, "rotate")
    /\ UNCHANGED <<trigger, stored, secrets, shown, dead, tenantFrame>>

ReadRow(o) ==
    /\ op[o].pc = "rotate"
    /\ op' = [op EXCEPT ![o].pc = "put", ![o].secret = Generated, ![o].found = stored # 0]
    /\ secrets' = Generated
    /\ UNCHANGED <<trigger, stored, shown, dead, disturbed, requests, tenantFrame>>

(* Raises when the row has come or gone in between. *)
Put(o) ==
    /\ Commits(o, "put", op[o].found = (stored # 0))
    /\ UNCHANGED <<trigger, secrets, shown, disturbed, requests, tenantFrame>>

(* The answer shows the secret, once. *)
Answer(o) ==
    /\ Over(o, "answer") /\ shown' = op[o].secret
    /\ UNCHANGED <<trigger, stored, secrets, dead, disturbed, requests, tenantFrame>>

Unregister(o) ==
    /\ trigger # "none" /\ Ask(o, "forget")
    /\ trigger' = "none"
    /\ UNCHANGED <<stored, secrets, shown, dead, tenantFrame>>

Forget(o) ==
    /\ Over(o, "forget") /\ Store(0) /\ shown' = 0
    /\ UNCHANGED <<trigger, secrets, disturbed, requests, tenantFrame>>

-----------------------------------------------------------------------------
(* A sender signs with the secret its owner was shown last. *)
Sign(d) ==
    /\ mail[d] = NoMail /\ shown # 0
    /\ \E ts \in Time : mail' = [mail EXCEPT ![d] = [ts |-> ts, secret |-> shown]]
    /\ UNCHANGED <<now, guard, seen, op, accepted, keys, bounds>>

Tick ==
    /\ now < MaxTime /\ now' = now + 1
    /\ UNCHANGED <<guard, seen, mail, op, accepted, keys, bounds>>

(* The process dies and is loaded again with an empty guard. *)
Restart ==
    /\ faults < MaxFaults /\ faults' = faults + 1
    /\ hits' = Nothing(Clients) /\ lru' = <<>> /\ passed' = Nothing(Clients)
    /\ seen' = Unseen
    /\ op' = [o \in Ops |-> IdleOp]
    /\ disturbed' = (disturbed \/ \E o \in Ops : Manages(o))
    /\ UNCHANGED <<now, mail, accepted, trigger, stored, secrets, shown, dead, arrivals, requests>>

Rest == now = MaxTime /\ (\A o \in Ops : op[o].pc = "idle") /\ UNCHANGED vars

Deliver(o) ==
    \/ \E c \in Clients, d \in Deliveries, h \in Header : Arrive(o, c, d, h)
    \/ GetSecret(o) \/ Check(o) \/ Resolve(o)
Manage(o) ==
    \/ \E t \in Trigger : Deploy(o, t)
    \/ Ensure(o) \/ Insert(o) \/ Rotate(o) \/ ReadRow(o) \/ Put(o) \/ Answer(o)
    \/ Unregister(o) \/ Forget(o)

Next ==
    \/ \E o \in Ops : Deliver(o) \/ Manage(o)
    \/ \E d \in Deliveries : Sign(d)
    \/ Tick \/ Restart \/ Rest

Spec == Init /\ [][Next]_vars

-----------------------------------------------------------------------------
(* Properties.                                                             *)

(* A header of a delivery is accepted once, however often it arrives and
   however its copies overlap.  There are two ways to a second time: another
   process, which remembers nothing, and the two ends of the time window, to
   the instant. *)
AcceptedOnce ==
    \A d \in Deliveries : \A i, j \in DOMAIN accepted[d] :
        LET a == accepted[d][i]
            b == accepted[d][j]
        IN  i < j /\ a.header = b.header =>
              \/ a.life # b.life
              \/ a.at + Tolerance = mail[d].ts /\ b.at = mail[d].ts + Tolerance

(* What the documentation says of the delivery itself: within its window, a
   process refuses it the second time. *)
ReplayRefused ==
    \A d \in Deliveries : \A i, j \in DOMAIN accepted[d] :
        LET a == accepted[d][i]
            b == accepted[d][j]
        IN  i < j /\ a.life = b.life => b.at - a.at >= 2 * Tolerance

(* No Window holds more than MaxHits requests of a client that were let in,
   for as long as the guard has not forgotten the client. *)
RateHeld ==
    \A c \in Clients : \A i, j \in DOMAIN passed[c] :
        j = i + MaxHits => passed[c][j] - passed[c][i] > Window

(* rotate: a delivery that arrives after its secret was replaced or deleted
   makes no run, whatever other requests do meanwhile. *)
OldSecretsDie ==
    \A o \in Ops : op[o].pc = "resolve" => mail[op[o].of].secret \notin op[o].old

(* As long as the tenant's requests came one after the other, the secret shown
   last is the one that works. *)
ShownSecretWorks ==
    ~disturbed /\ (\A o \in Ops : ~Manages(o)) => stored = shown

=============================================================================

------------------------- MODULE Deployments_proofs -------------------------
(* Proofs about Deployments, for any set of workflows and of concurrent      *)
(* requests, with or without a cache and under any bounds.                   *)
EXTENDS Deployments, TLAPS

(* The absent definition is a definition. *)
LEMMA NoDefsType == NoDefs \in Defs /\ NoDefs \in Jobs /\ NoDef \in Def
BY DEF NoDefs, Defs, Jobs, Def

(* The idle request is a request. *)
LEMMA IdleOpType == IdleOp \in Op
BY NamesAssumption, NoDefsType DEF IdleOp, Op

(* An operation that goes on, one that is over and one that starts are       *)
(* operations.                                                               *)
LEMMA StepType ==
    ASSUME op \in [Ops -> Op], NEW o \in Ops, NEW from,
           NEW to \in {"put", "unlist", "drop", "uncache"}, Step(o, from, to)
    PROVE  op' \in [Ops -> Op]
BY DEF Step, Op

(* A request that ends leaves requests. *)
LEMMA OverType ==
    ASSUME op \in [Ops -> Op], NEW o \in Ops, NEW from, Over(o, from)
    PROVE  op' \in [Ops -> Op]
BY IdleOpType DEF Over

(* A request that starts is one. *)
LEMMA StartType ==
    ASSUME op \in [Ops -> Op], NEW o \in Ops, NEW n \in Names, NEW d \in Def,
           NEW pc \in {"save", "drop", "filldrop", "fill"}, Start(o, pc, n, d)
    PROVE  op' \in [Ops -> Op]
BY NoDefsType DEF Start, Op

(* A cache.set keeps the type of the cache. *)
LEMMA SetCacheType ==
    ASSUME cache \in Defs, NEW n \in Names, NEW d \in Def, SetCache(n, d)
    PROVE  cache' \in Defs
BY DEF SetCache, Defs

(* Only names are ever disturbed. *)
LEMMA OverlapType ==
    ASSUME disturbed \subseteq Names, NEW ns \in SUBSET Names, Overlap(ns)
    PROVE  disturbed' \subseteq Names
BY DEF Overlap

(* Every action keeps the types: one step per action.                        *)
LEMMA TypeStep == TypeOK /\ [Next]_vars => TypeOK'
<1> SUFFICES ASSUME TypeOK, [Next]_vars PROVE TypeOK'
  OBVIOUS
<1> USE BoundsAssumption, NoDefsType
<1>1. ASSUME NEW o \in Ops, NEW n \in Names, NEW t \in Trigger, Deploy(o, n, t) PROVE TypeOK'
  <2> DEFINE d == [trigger |-> t, id |-> NextId]
  <2>1. d \in Def /\ JobOf(d) \in {c \in Def : c.trigger = "schedule"} \cup {NoDef} /\ deploys' \in 0..MaxDeploys
    BY <1>1 DEF TypeOK, Deploy, NextId, Def, JobOf
  <2>2. job' = [job EXCEPT ![n] = JobOf(d)] /\ Start(o, "save", n, d)
    BY <1>1 DEF Deploy
  <2> HIDE DEF d
  <2>3. job' \in Jobs /\ op' \in [Ops -> Op]
    BY <2>1, <2>2, StartType DEF TypeOK, Jobs
  <2> QED BY <1>1, <2>1, <2>3, OverlapType DEF TypeOK, Deploy
<1>2. ASSUME NEW o \in Ops, NEW n \in Names, Delete(o, n) PROVE TypeOK'
  <2>1. db[n] \in Def /\ job' \in Jobs
    BY <1>2 DEF TypeOK, Delete, Defs, Jobs
  <2>2. Start(o, "drop", n, NoDef) \/ Start(o, "filldrop", n, db[n])
    BY <1>2 DEF Delete
  <2>3. op' \in [Ops -> Op]
    BY <2>1, <2>2, StartType DEF TypeOK
  <2> QED BY <1>2, <2>1, <2>3, OverlapType DEF TypeOK, Delete
<1>3. ASSUME NEW o \in Ops, NEW n \in Names, Read(o, n) PROVE TypeOK'
  <2>1. op' \in [Ops -> Op]
    BY <1>3, StartType DEF TypeOK, Read, Defs
  <2> QED BY <1>3, <2>1, OverlapType DEF TypeOK, Read
<1>4. ASSUME NEW o \in Ops, List(o) PROVE TypeOK'
  <2>1. op' \in [Ops -> Op]
    BY <1>4, IdleOpType DEF TypeOK, List, Op
  <2> QED BY <1>4, <2>1, OverlapType DEF TypeOK, List
<1>5. ASSUME NEW o \in Ops, Continue(o) PROVE TypeOK'
  <2>1. op[o].name \in Names /\ op[o].def \in Def /\ op[o].all \in Defs
    BY DEF TypeOK, Op
  <2>2. CASE Save(o)
    BY <2>1, <2>2, StepType DEF TypeOK, Save, opFrame, Defs
  <2>3. CASE Put(o)
    BY <2>1, <2>3, StepType, SetCacheType DEF TypeOK, Put, opFrame
  <2>4. CASE Unlist(o)
    BY <2>4, OverType DEF TypeOK, Unlist, opFrame
  <2>5. CASE FillDrop(o)
    <3>1. job' \in Jobs
      BY <2>1, <2>5 DEF TypeOK, FillDrop, Jobs
    <3> QED BY <2>1, <2>5, <3>1, StepType, SetCacheType DEF TypeOK, FillDrop, opFrame
  <2>6. CASE Drop(o)
    <3>1. op' \in [Ops -> Op] /\ db' \in Defs
      BY <2>1, <2>6, StepType, OverType DEF TypeOK, Drop, Defs
    <3> QED BY <2>6, <3>1 DEF TypeOK, Drop, opFrame
  <2>7. CASE Uncache(o)
    BY <2>1, <2>7, StepType, SetCacheType DEF TypeOK, Uncache, opFrame
  <2>8. CASE Fill(o)
    BY <2>1, <2>8, OverType, SetCacheType DEF TypeOK, Fill, opFrame
  <2>9. CASE FillList(o)
    BY <2>1, <2>9, OverType DEF TypeOK, FillList, opFrame
  <2> QED BY <1>5, <2>2, <2>3, <2>4, <2>5, <2>6, <2>7, <2>8, <2>9 DEF Continue
<1>6. ASSUME NEW o \in Ops, SaveRaises(o) PROVE TypeOK'
  <2>1. op[o].name \in Names
    BY DEF TypeOK, Op
  <2> QED BY <1>6, <2>1, OverType DEF TypeOK, SaveRaises
<1>7. CASE Expire
  <2>1. cache' \in Defs
    BY <1>7, SetCacheType DEF TypeOK, Expire
  <2> QED BY <1>7, <2>1 DEF TypeOK, Expire, opFrame
<1>8. CASE Restart
  BY <1>8, IdleOpType DEF TypeOK, Restart
<1>9. CASE Quiet \/ UNCHANGED vars
  BY <1>9 DEF TypeOK, Quiet, vars
<1> QED BY <1>1, <1>2, <1>3, <1>4, <1>5, <1>6, <1>7, <1>8, <1>9 DEF Next

(* All variables keep their types.                                           *)
THEOREM TypeCorrect == Spec => []TypeOK
<1>1. Init => TypeOK
  BY BoundsAssumption, NoDefsType, IdleOpType DEF Init, TypeOK
<1> QED BY <1>1, TypeStep, PTL DEF Spec

-----------------------------------------------------------------------------
(* What a request has in hand once its save is through has been committed,   *)
(* like all rows.                                                            *)
Committed ==
    LET ok == saved \cup {NoDef} IN
    /\ \A n \in Names : {db[n], cache[n], list[n]} \subseteq ok
    /\ \A o \in Ops :
          /\ op[o].pc # "save" => op[o].def \in ok
          /\ \A n \in Names : op[o].all[n] \in ok

(* Every action keeps Committed: one step per action. *)
LEMMA CommittedStep == TypeOK /\ Committed /\ [Next]_vars => Committed'
<1> SUFFICES ASSUME TypeOK, Committed, [Next]_vars PROVE Committed'
  OBVIOUS
<1> USE DEF Committed
<1>0. /\ IdleOp.pc = "idle" /\ IdleOp.def = NoDef /\ IdleOp.all = NoDefs
      /\ IdleOp = [pc |-> IdleOp.pc, name |-> IdleOp.name, def |-> IdleOp.def, all |-> IdleOp.all]
      /\ \A n \in Names : NoDefs[n] = NoDef
  BY DEF IdleOp, NoDefs
<1>1. ASSUME NEW o \in Ops, NEW n \in Names, NEW t \in Trigger, Deploy(o, n, t) PROVE Committed'
  BY <1>0, <1>1 DEF TypeOK, Deploy, Start
<1>2. ASSUME NEW o \in Ops, NEW n \in Names, Delete(o, n) PROVE Committed'
  BY <1>0, <1>2 DEF TypeOK, Delete, Start
<1>3. ASSUME NEW o \in Ops, NEW n \in Names, Read(o, n) PROVE Committed'
  BY <1>0, <1>3 DEF TypeOK, Read, Start
<1>4. ASSUME NEW o \in Ops, List(o) PROVE Committed'
  BY <1>0, <1>4 DEF TypeOK, List
<1>5. ASSUME NEW o \in Ops, Continue(o) PROVE Committed'
  <2>0. op[o] \in Op
    BY DEF TypeOK
  <2>1. CASE Save(o)
    BY <2>0, <2>1 DEF TypeOK, Save, Step, Op, Defs, opFrame
  <2>2. CASE Put(o)
    BY <2>0, <2>2 DEF TypeOK, Put, Step, Op, Defs, SetCache, opFrame
  <2>3. CASE Unlist(o)
    BY <1>0, <2>3 DEF TypeOK, Unlist, Over, opFrame
  <2>4. CASE FillDrop(o)
    BY <2>0, <2>4 DEF TypeOK, FillDrop, Step, Op, Defs, SetCache, opFrame
  <2>5. CASE Drop(o)
    <3>1. \A p \in Ops : op'[p] \in {op[p], IdleOp, [op[p] EXCEPT !.pc = "uncache"]}
                         /\ (op[p].pc = "save" => op'[p] = op[p])
      BY <2>5 DEF TypeOK, Drop, Step, Over
    <3>2. \A p \in Ops : op[p] \in Op
      BY DEF TypeOK
    <3>3. \A p \in Ops : /\ op'[p].pc # "save" => op'[p].def \in saved \cup {NoDef}
                         /\ \A n \in Names : op'[p].all[n] \in saved \cup {NoDef}
      BY <1>0, <3>1, <3>2 DEF Op
    <3>4. \A n \in Names : db'[n] \in {db[n], NoDef}
      BY <2>5 DEF TypeOK, Drop, Defs
    <3> QED BY <2>5, <3>3, <3>4 DEF Drop, opFrame
  <2>6. CASE Uncache(o)
    BY <2>0, <2>6 DEF TypeOK, Uncache, Step, Op, Defs, SetCache, opFrame
  <2>7. CASE Fill(o)
    BY <1>0, <2>0, <2>7 DEF TypeOK, Fill, Over, Op, Defs, SetCache, opFrame
  <2>8. CASE FillList(o)
    BY <1>0, <2>8 DEF TypeOK, FillList, Over, opFrame
  <2> QED BY <1>5, <2>1, <2>2, <2>3, <2>4, <2>5, <2>6, <2>7, <2>8 DEF Continue
<1>6. ASSUME NEW o \in Ops, SaveRaises(o) PROVE Committed'
  BY <1>0, <1>6 DEF TypeOK, SaveRaises, Over
<1>7. CASE Expire
  BY <1>0, <1>7 DEF TypeOK, Expire, SetCache, Defs, opFrame
<1>8. CASE Restart
  BY <1>0, <1>8 DEF TypeOK, Restart
<1>9. CASE Quiet \/ UNCHANGED vars
  BY <1>9 DEF Quiet, vars
<1> QED BY <1>1, <1>2, <1>3, <1>4, <1>5, <1>6, <1>7, <1>8, <1>9 DEF Next

(* Whatever overlaps, fails or is cut, the caches serve committed            *)
(* definitions only.                                                         *)
THEOREM ServesCommitted == Spec => []OnlySavedIsServed
<1>1. Init => Committed
  BY DEF Init, Committed, NoDefs, IdleOp
<1>2. Committed => OnlySavedIsServed
  BY DEF Committed, OnlySavedIsServed
<1> QED BY <1>1, <1>2, TypeCorrect, CommittedStep, PTL DEF Spec

-----------------------------------------------------------------------------
(* What holds of a workflow whose requests came one after the other, also in *)
(* the middle of a request: there is one request at most; what it has in     *)
(* hand is still true; and what it has not come to yet is what may be stale. *)

InHand(o, n) ==
    /\ op[o].pc = "save" => job[n] = JobOf(op[o].def)
    /\ op[o].pc \in {"put", "filldrop", "fill"} => op[o].def = db[n]
    /\ op[o].pc \in {"drop", "uncache"} => job[n] = NoDef
    /\ op[o].pc = "filllist" => op[o].all[n] = db[n]

NoneAt(n, pcs) == \A o \in Ops : Touches(o, n) => op[o].pc \notin pcs

Orderly(n) ==
    /\ \A o, p \in Ops : Touches(o, n) /\ Touches(p, n) => o = p
    /\ \A o \in Ops : Touches(o, n) => InHand(o, n)
    /\ NoneAt(n, {"save"}) => job[n] \in {NoDef, JobOf(db[n])}
    /\ NoneAt(n, {"put", "uncache"}) => cache[n] \in {NoDef, db[n]}
    /\ NoneAt(n, {"put", "uncache", "unlist"}) => (list # NoDefs => list[n] = db[n])

AllOrderly ==
    /\ ~HasCache => cache = NoDefs
    /\ \A n \in Names \ disturbed : Orderly(n)

(* A request on another workflow, whatever it does to its own.               *)
LEMMA OthersKeepOrder ==
    ASSUME TypeOK, NEW n \in Names, Orderly(n), NEW o \in Ops,
           ~Touches(o, n), ~Touches(o, n)', \A p \in Ops \ {o} : op'[p] = op[p],
           db'[n] = db[n], cache'[n] \in {cache[n], NoDef}, job'[n] = job[n],
           list' \in {list, NoDefs}
    PROVE  Orderly(n)'
BY DEF TypeOK, Orderly, InHand, NoneAt, Touches, Idle

(* Every action keeps the order of the workflows it does not disturb: one    *)
(* step per action, for the workflow it is about and for the others.         *)
LEMMA OrderlyStep ==
    ASSUME TypeOK, AllOrderly, [Next]_vars, NEW n \in Names, n \notin disturbed'
    PROVE  Orderly(n)'
<1> USE DEF Orderly, InHand, NoneAt, Touches, Idle
<1>0. /\ IdleOp = [pc |-> "idle", name |-> IdleOp.name, def |-> IdleOp.def, all |-> IdleOp.all]
      /\ JobOf(NoDef) = NoDef /\ NoDefs[n] = NoDef
      /\ \A d \in Def : JobOf(d) \in Def
      /\ \A o \in Ops : op[o] \in Op
      /\ ~HasCache => cache = NoDefs
      /\ db \in Defs /\ cache \in Defs /\ list \in Defs /\ job \in Defs /\ op \in [Ops -> Op]
  <2>1. job \in Defs
    BY NoDefsType DEF TypeOK, Jobs, Defs
  <2> QED BY <2>1, NoDefsType DEF IdleOp, JobOf, NoDef, NoDefs, TypeOK, AllOrderly
<1>1. ASSUME NEW o \in Ops, NEW m \in Names, NEW t \in Trigger, Deploy(o, m, t) PROVE Orderly(n)'
  <2>1. Orderly(n) /\ (m = n => ~Busy(n))
    BY <1>1 DEF Deploy, Overlap, AllOrderly
  <2>2. CASE m = n
    BY <1>0, <1>1, <2>1, <2>2 DEF Deploy, Start, Busy, Defs
  <2>3. CASE m # n
    BY <1>0, <1>1, <2>1, <2>3, OthersKeepOrder DEF Deploy, Start, Defs
  <2> QED BY <2>2, <2>3
<1>2. ASSUME NEW o \in Ops, NEW m \in Names, Delete(o, m) PROVE Orderly(n)'
  <2>1. Orderly(n) /\ (m = n => ~Busy(n))
    BY <1>2 DEF Delete, Overlap, AllOrderly
  <2>2. CASE m = n
    BY <1>0, <1>2, <2>1, <2>2 DEF Delete, Start, Busy, Defs
  <2>3. CASE m # n
    BY <1>0, <1>2, <2>1, <2>3, OthersKeepOrder DEF Delete, Start, Defs
  <2> QED BY <2>2, <2>3
<1>3. ASSUME NEW o \in Ops, NEW m \in Names, Read(o, m) PROVE Orderly(n)'
  <2>1. Orderly(n) /\ (m = n => ~Busy(n))
    BY <1>3 DEF Read, Overlap, AllOrderly
  <2>2. CASE op' = op
    BY <1>3, <2>1, <2>2 DEF Read
  <2>3. CASE m = n /\ Start(o, "fill", n, db[n])
    BY <1>0, <1>3, <2>1, <2>3 DEF Read, Start, Busy
  <2>4. CASE m # n /\ Start(o, "fill", m, db[m])
    BY <1>0, <1>3, <2>1, <2>4, OthersKeepOrder DEF Read, Start
  <2> QED BY <1>3, <2>2, <2>3, <2>4 DEF Read
<1>4. ASSUME NEW o \in Ops, List(o) PROVE Orderly(n)'
  <2>1. Orderly(n) /\ ~Busy(n)
    BY <1>4 DEF List, Overlap, AllOrderly
  <2> QED BY <1>0, <1>4, <2>1 DEF List, Busy
<1>5. ASSUME NEW o \in Ops, Continue(o) PROVE Orderly(n)'
  <2>1. Orderly(n) /\ UNCHANGED disturbed
    BY <1>5 DEF Continue, Save, Put, Unlist, FillDrop, Drop, Uncache, Fill, FillList, opFrame, AllOrderly
  <2>2. CASE Touches(o, n) /\ op[o].pc # "filllist"
    <3>1. op[o].name = n /\ \A p \in Ops \ {o} : ~Touches(p, n)
      BY <2>1, <2>2
    <3>2. CASE Save(o)
      BY <1>0, <2>1, <2>2, <3>1, <3>2 DEF Save, Step, Op, Defs
    <3>3. CASE Put(o)
      BY <1>0, <2>1, <2>2, <3>1, <3>3 DEF Put, Step, SetCache, Op, Defs
    <3>4. CASE Unlist(o)
      BY <1>0, <2>1, <2>2, <3>1, <3>4 DEF Unlist, Over, Op, Defs
    <3>5. CASE FillDrop(o)
      BY <1>0, <2>1, <2>2, <3>1, <3>5 DEF FillDrop, Step, SetCache, Op, Defs
    <3>6. CASE Drop(o)
      <4>1. CASE db[n] # NoDef
        <5>1. /\ op' = [op EXCEPT ![o] = [op[o] EXCEPT !.pc = "uncache"]] /\ op[o].pc = "drop"
              /\ db'[n] = NoDef /\ UNCHANGED job
          BY <1>0, <3>1, <3>6, <4>1 DEF Drop, Step, Defs
        <5>2. Touches(o, n)' /\ op'[o].pc = "uncache"
          BY <1>0, <3>1, <5>1 DEF Op
        <5>3. ~NoneAt(n, {"put", "uncache"})' /\ ~NoneAt(n, {"put", "uncache", "unlist"})'
          BY <5>2
        <5>4. \A p \in Ops \ {o} : ~Touches(p, n)'
          BY <3>1, <5>1
        <5> QED BY <1>0, <2>1, <2>2, <5>1, <5>2, <5>3, <5>4
      <4>2. CASE db[n] = NoDef
        <5>1. /\ op' = [op EXCEPT ![o] = IdleOp] /\ op[o].pc = "drop"
              /\ UNCHANGED <<db, cache, list, job>>
          BY <1>0, <3>1, <3>6, <4>2 DEF Drop, Over, Defs
        <5> QED BY <1>0, <2>1, <2>2, <3>1, <4>2, <5>1
      <4> QED BY <4>1, <4>2
    <3>7. CASE Uncache(o)
      BY <1>0, <2>1, <2>2, <3>1, <3>7 DEF Uncache, Step, SetCache, Op, Defs
    <3>8. CASE Fill(o)
      BY <1>0, <2>1, <2>2, <3>1, <3>8 DEF Fill, Over, SetCache, Op, Defs
    <3> QED BY <1>5, <2>2, <3>2, <3>3, <3>4, <3>5, <3>6, <3>7, <3>8 DEF Continue, FillList, Over
  <2>3. CASE op[o].pc = "filllist"
    <3>1. FillList(o)
      BY <1>5, <2>3 DEF Continue, Save, Put, Unlist, FillDrop, Drop, Uncache, Fill, Step, Over
    <3> QED BY <1>0, <2>1, <2>3, <3>1 DEF FillList, Over
  <2>4. CASE ~Touches(o, n)
    <3>1. /\ ~Touches(o, n)' /\ \A p \in Ops \ {o} : op'[p] = op[p]
          /\ db'[n] = db[n] /\ cache'[n] \in {cache[n], NoDef} /\ job'[n] = job[n]
          /\ list' \in {list, NoDefs}
      <4>1. op[o].pc \notin {"idle", "filllist"} /\ op[o].name # n
        BY <1>5, <2>4 DEF Continue, Save, Put, Unlist, FillDrop, Drop, Uncache, Fill, FillList, Step, Over
      <4> QED BY <1>0, <1>5, <2>4, <4>1 DEF Continue, Save, Put, Unlist, FillDrop, Drop, Uncache, Fill,
                                            FillList, Step, Over, SetCache, Op, Defs
    <3> QED BY <2>1, <2>4, <3>1, OthersKeepOrder
  <2> QED BY <2>2, <2>3, <2>4
<1>6. ASSUME NEW o \in Ops, SaveRaises(o) PROVE Orderly(n)'
  <2>1. Orderly(n) /\ n # op[o].name
    BY <1>6 DEF SaveRaises, AllOrderly
  <2> QED BY <1>0, <1>6, <2>1, OthersKeepOrder DEF SaveRaises, Over
<1>7. CASE Expire
  <2>1. Orderly(n)
    BY <1>7 DEF Expire, opFrame, AllOrderly
  <2> QED BY <1>0, <1>7, <2>1 DEF Expire, SetCache, Defs, opFrame
<1>8. CASE Restart
  <2>1. Orderly(n) /\ ~Busy(n)
    BY <1>8 DEF Restart, AllOrderly
  <2> QED BY <1>0, <1>8, <2>1 DEF Restart, Busy
<1>9. CASE Quiet \/ UNCHANGED vars
  BY <1>9 DEF AllOrderly, Quiet, vars
<1> QED BY <1>1, <1>2, <1>3, <1>4, <1>5, <1>6, <1>7, <1>8, <1>9 DEF Next

(* The two theorems below rest on AllOrderly, the invariant that says what   *)
(* each request leaves stale and what it knows meanwhile.                    *)
LEMMA AllOrderlyStep == TypeOK /\ AllOrderly /\ [Next]_vars => AllOrderly'
<1> SUFFICES ASSUME TypeOK, AllOrderly, [Next]_vars PROVE AllOrderly'
  OBVIOUS
<1>1. ~HasCache => UNCHANGED cache
  BY DEF Next, vars, Deploy, Delete, Read, List, Continue, Save, SaveRaises, Put, Unlist, FillDrop, Drop,
         Uncache, Fill, FillList, Expire, Cached, Restart, Quiet, SetCache
<1> QED BY <1>1, OrderlyStep DEF AllOrderly

(* Nothing is under way at first. *)
LEMMA AllOrderlyInit == Init => AllOrderly
BY DEF Init, AllOrderly, Orderly, InHand, NoneAt, Touches, Idle, IdleOp, NoDefs

(* As long as the requests on a workflow came one after the other, the       *)
(* caches serve its latest version, and nothing once it is deleted.          *)
THEOREM FreshCaches == Spec => []CacheIsFresh
<1>1. AllOrderly => CacheIsFresh
  BY DEF AllOrderly, Orderly, NoneAt, CacheIsFresh, Calm, Busy
<1> QED BY <1>1, AllOrderlyInit, AllOrderlyStep, TypeCorrect, PTL DEF Spec

(* As long as the requests on a workflow came one after the other, its job   *)
(* is that of its latest version, or there is none.                          *)
THEOREM CurrentJobs == Spec => []JobIsCurrent
<1>1. AllOrderly => JobIsCurrent
  BY DEF AllOrderly, Orderly, NoneAt, JobIsCurrent, Calm, Busy
<1> QED BY <1>1, AllOrderlyInit, AllOrderlyStep, TypeCorrect, PTL DEF Spec

=============================================================================

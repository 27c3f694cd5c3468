-------------------------- MODULE MCWorkflowEngine --------------------------
(* WorkflowEngine on small graphs, each made for one of the hard cases. *)
EXTENDS WorkflowEngine, TLC

A == "a"
B == "b"
C == "c"
D == "d"
StepIds == {A, B, C, D}

Plain(kind) == [kind |-> kind, next |-> END, fail |-> None, to |-> {}, lists |-> <<>>,
                items |-> 0, together |-> TRUE, max |-> 1]
Action == Plain("action")
To(d, s) == [d EXCEPT !.next = s]
OrElse(d, s) == [d EXCEPT !.fail = s]
Parallel(lists) == [Plain("parallel") EXCEPT !.lists = lists]
Detached(lists) == [Parallel(lists) EXCEPT !.together = FALSE]
Each(n, s) == [Plain("foreach") EXCEPT !.lists = <<<<s>>>>, !.items = n, !.together = FALSE]
EachTogether(n, s, max) == [Each(n, s) EXCEPT !.together = TRUE, !.max = max]
Pick(kind, to) == [Plain(kind) EXCEPT !.to = to]

Graph(a, b, c, d) == [start |-> A, step |-> (A :> a @@ B :> b @@ C :> c @@ D :> d)]

(* Routes, computed steps, an AI step and a missing target. *)
Routes == {
    Graph(OrElse(To(Action, B), C), To(Plain("ai"), D), To(Plain("template"), D), Action),
    Graph(Pick("condition", {B, C}), To(Plain("wait"), D), To(Plain("transform"), D), Action),
    Graph(Pick("switch", {B, C, Missing}), OrElse(To(Action, D), C), Action, Plain("ai")) }

(* Sequential loops: an empty one, one whose body fails over, one between two
   actions, one whose body has two steps. *)
Loops == {
    Graph(To(Each(2, B), D), OrElse(Action, C), Action, Action),
    Graph(To(Each(0, B), C), Action, To(Action, D), Action),
    Graph(To(Action, B), To(Each(2, C), D), To(Action, END), OrElse(Action, END)),
    Graph(To(Each(3, B), D), To(Plain("wait"), C), Plain("ai"), Action) }

(* Awaited forks: convergent branches, an empty branch and a loop in one, a
   branch in a loop, parallel loops with and without a free place. *)
Forks == {
    Graph(To(Parallel(<<<<B>>, <<C>>>>), D), To(Action, D), Action, Action),
    Graph(OrElse(Parallel(<<<<B>>, <<>>, <<C>>>>), D), Each(2, C), Action, Action),
    Graph(To(EachTogether(3, B, 2), D), To(Plain("wait"), C), Plain("template"), Action),
    Graph(To(EachTogether(2, B, 3), D), Parallel(<<<<C>>, <<C>>>>), Plain("wait"), Action),
    Graph(To(Each(2, B), D), Parallel(<<<<C>>, <<D>>>>), OrElse(Action, END), Plain("wait")) }

Shapes == Routes \cup Loops \cup Forks

(* Every graph over three steps with this menu of steps: most of them are
   cyclic, through chains, routes, loops or branches. *)
Three == {A, B, C}
Menu ==
    {To(Plain("wait"), s) : s \in Three \cup {END}}
    \cup {OrElse(Plain("ai"), s) : s \in {A, B}}
    \cup {Each(2, s) : s \in Three}
    \cup {EachTogether(2, s, 1) : s \in {A, C}}
    \cup {To(Parallel(<<<<s>>, <<B>>>>), C) : s \in {A, C}}
AllGraphs == {[start |-> A, step |-> f @@ (D :> Action)] : f \in [Three -> Menu]}

(* Branches nobody waits for: one that converges on the next step of its
   parent, failing ones, one that leaves another behind, a cyclic one. *)
Converging == { Graph(To(Detached(<<<<B>>>>), D), To(Plain("wait"), D), Action, Action) }
DetachedForks == Converging \cup {
    Graph(To(Detached(<<<<B>>>>), D), To(Plain("wait"), C), To(Plain("template"), B), Action),
    Graph(To(Detached(<<<<B>>, <<C>>>>), D), Action, Plain("ai"), Action),
    Graph(To(Detached(<<<<B>>>>), D), Detached(<<<<C>>>>), Action, Action) }

Graphs == AllGraphs \cup DetachedForks

(* A loop that a crash may interrupt. *)
LoopThenAction == { Graph(To(Each(2, B), C), Action, Action, Action) }
=============================================================================

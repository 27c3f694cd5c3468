---------------------------- MODULE MCComposites ----------------------------
(* Composites on small instances: composites that route, fail over, loop,
   branch by a condition or end explicitly, and instances whose names are
   made of one word or two. *)
EXTENDS Composites, TLC

A == <<"a">>
B == <<"b">>
BA == <<"b", "a">>
End == <<"END">>
StepIds == {A, B, BA, End}
InstanceIds == {<<"x">>, <<"y">>, <<"x", "b">>}
InputIds == {"email"}

To(next, fail) == [next |-> next, fail |-> fail, to |-> {}]
Two(a, b) == [first |-> A, step |-> (A :> a @@ B :> b), given |-> (A :> {"email"} @@ B :> {}), out |-> B]
Three(a, b, c) == [first |-> A, step |-> (A :> a @@ B :> b @@ BA :> c),
                   given |-> (A :> {} @@ B :> {"email"} @@ BA :> {}), out |-> A]

Shapes == {
    Two(To(B, None), To(None, None)),
    Three(To(B, BA), To(BA, A), To(None, None)),
    Two([To(None, None) EXCEPT !.to = {B}], To(End, None)) }

Alike == Permutations(Ops)
=============================================================================

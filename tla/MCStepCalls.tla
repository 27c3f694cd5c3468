----------------------------- MODULE MCStepCalls -----------------------------
(* What surrounds the call of a step, on small instances: its retry policy,
   the conditions that lead to it and the paths of its payload. *)
EXTENDS Retry, Conditions, TLC

(* A step is reached through a condition and a path, and then called. *)
StepInit == Init /\ asked = Null /\ now = 0
Ask == asked = Null /\ pc = "ready" /\ attempt = 1 /\ asked' \in Operands \cup Lookups /\ UNCHANGED vars
CallStep == ~Asking /\ Next /\ UNCHANGED asked
Answered == Asking /\ asked' = Null /\ UNCHANGED vars
StepSpec == StepInit /\ [][Ask \/ Answered \/ CallStep]_<<vars, asked>>

Policy(max, delay, backoff, cap, codes) ==
    [max |-> max, delay |-> delay, backoff |-> backoff, cap |-> cap, codes |-> codes]

(* Capped and not, repeated on every error or on one code, and a cap below
   the delay. *)
SmallPolicies ==
    {Policy(max, 1, backoff, cap, codes) :
        max \in {1, 4}, backoff \in Backoff, cap \in {1, 3, 9}, codes \in {{}, {"busy"}}}
    \cup {Policy(4, 2, "exponential", 1, {}), NoPolicy}
ErrorCodes == {"busy", "denied"}

a == 30
b == 31
Operand == {Null, Num(1), Num(9), Bool(TRUE), Bool(FALSE), Str(<<>>), Str(<<1>>), Str(<<1, 0>>),
            Str(<<9>>), Str(<<a>>), Str(<<1, a>>), Str(<<a, b>>), List(<<>>),
            List(<<Num(1)>>), List(<<Num(1), Str(<<a>>)>>), List(<<Str(<<9>>)>>),
            List(<<Bool(TRUE)>>), List(<<Null, Num(9)>>)}

Value(n) == [is |-> Num(n)]
Dict(f) == [at |-> f]

(* Step identifiers with dots, a key that begins another, a wrong turn. *)
Trees == {
    Dict(<<"x">> :> Value(1) @@ <<"y">> :> Dict(<<"x">> :> Value(2))),
    Dict(<<"x", "y">> :> Dict(<<"z">> :> Value(1)) @@ <<"z">> :> Dict(<<"y", "z">> :> Value(2))),
    Dict(<<"x">> :> Dict(<<"y">> :> Value(1) @@ <<"z">> :> Value(2)) @@ <<"x", "y">> :> Value(3)),
    Dict(<<"x">> :> Dict(<<"y", "z">> :> Value(1)) @@ <<"x", "y">> :> Dict(<<"x">> :> Value(2))) }
Dicts(cs) == {c \in cs : IsDict(c)}
Inside(cs) == cs \cup UNION {{c.at[k] : k \in DOMAIN c.at} : c \in Dicts(cs)}
Nodes == Inside(Inside(Trees))
SomeWords == {"x", "y", "z", "__class__"}
SomePaths == UNION {[1..n -> SomeWords] : n \in 1..3}
=============================================================================

-------------------------- MODULE StepCalls_proofs --------------------------
(* Proofs about what surrounds the call of a step, for any error codes, retry *)
(* policies and clock, any contexts and any operands.  By induction: over the *)
(* number of calls, how long the pauses between them last; over the words of  *)
(* a path, which value it leads to.  Over the places where two sequences may  *)
(* part, how values compare.                                                  *)
EXTENDS Retry, Conditions, SequenceTheorems, WellFoundedInduction, TLAPS

(* A set of natural numbers has a least one. *)
LEMMA LeastOf ==
    ASSUME NEW U \in SUBSET Nat, U # {}
    PROVE  \E x \in U : \A y \in U : x <= y
<1>1. \E x \in U : \A y \in U : <<y, x>> \notin OpToRel(<, Nat)
  BY NatLessThanWellFounded, WFMin, Zenon
<1>2. PICK x \in U : \A y \in U : ~(y < x)
  BY <1>1, Zenon DEF OpToRel
<1> QED BY <1>2

(* Induction, for a set of natural numbers. *)
LEMMA Induction ==
    ASSUME NEW T \in SUBSET Nat, 0 \in T, \A n \in T : n + 1 \in T
    PROVE  T = Nat
<1> DEFINE U == Nat \ T
<1>1. CASE U # {}
  <2>1. PICK x \in U : \A y \in U : x <= y
    BY <1>1, LeastOf
  <2>2. x # 0 /\ x - 1 \in Nat /\ x - 1 < x /\ (x - 1) + 1 = x
    BY <2>1
  <2> QED BY <2>1, <2>2
<1> QED BY <1>1

-----------------------------------------------------------------------------
(* Calls and pauses.                                                         *)

(* A policy allows a call or more, and so does none. *)
LEMMA MaxAttemptsType == policy \in Policies => MaxAttempts \in Nat \ {0}
BY PoliciesAssumption DEF MaxAttempts

(* How many calls there have been, and that those after which the matter went *)
(* on did not settle it.                                                      *)
Counted ==
    /\ attempt <= MaxAttempts /\ (pc = "sleeping" => attempt < MaxAttempts)
    /\ pc \in {"ready", "calling"} => Len(calls) = attempt - 1
    /\ pc \in {"answered", "sleeping", "returned", "exhausted"} => Len(calls) = attempt
    /\ Len(calls) <= attempt

Unsettled ==
    /\ \A i \in DOMAIN calls : i < Len(calls) => ~Settled(calls[i].answer)
    /\ pc \in {"ready", "calling", "sleeping"} => \A i \in DOMAIN calls : ~Settled(calls[i].answer)

Ended ==
    /\ pc = "returned" => LastAnswer = "ok"
    /\ pc = "exhausted" => LastAnswer # "ok" /\ (Len(calls) = MaxAttempts \/ Settled(LastAnswer))

IInv == TypeOK /\ Counted /\ Unsettled /\ Ended

LEMMA InitInv == Init => IInv
<1> SUFFICES ASSUME Init PROVE IInv
  OBVIOUS
<1>1. calls = <<>> /\ pc = "ready" /\ attempt = 1 /\ now = 0 /\ until = 0 /\ policy \in Policies
  BY DEF Init
<1>2. TypeOK
  BY <1>1, TimeAssumption DEF TypeOK, Time
<1>3. Counted
  BY <1>1, MaxAttemptsType DEF Counted
<1>4. Unsettled /\ Ended
  BY <1>1 DEF Unsettled, Ended
<1> QED BY <1>2, <1>3, <1>4 DEF IInv

(* A call that ends is one more call. *)
LEMMA OneMore ==
    ASSUME calls \in Seq(Call), NEW c \in Call, calls' = Append(calls, c)
    PROVE  /\ calls' \in Seq(Call) /\ Len(calls) \in Nat /\ Len(calls') = Len(calls) + 1
           /\ DOMAIN calls = 1..Len(calls) /\ DOMAIN calls' = 1..Len(calls')
           /\ calls'[Len(calls')] = c
           /\ \A i \in DOMAIN calls : calls'[i] = calls[i]
OBVIOUS

(* An answer that is repeated does not settle the matter, one that is not    *)
(* repeated and no success does.                                             *)
LEMMA RepeatsUnsettled ==
    ASSUME NEW a \in Answer, a # "ok"
    PROVE  Repeats(a) <=> ~Settled(a)
BY CodesAssumption DEF Repeats, Settled, Answer

LEMMA Step == IInv /\ [Next]_vars => IInv'
<1> SUFFICES ASSUME IInv, [Next]_vars PROVE IInv'
  OBVIOUS
<1>t. TypeOK /\ Counted /\ Unsettled /\ Ended
  BY DEF IInv
<1>n. MaxAttempts \in Nat \ {0} /\ Len(calls) \in Nat /\ DOMAIN calls = 1..Len(calls) /\ attempt \in Nat
  BY <1>t, MaxAttemptsType DEF TypeOK
<1>l. Len(calls) > 0 => LastAnswer \in Answer
  <2> SUFFICES ASSUME Len(calls) > 0 PROVE LastAnswer \in Answer
    OBVIOUS
  <2>1. calls[Len(calls)] \in Call
    BY <1>t DEF TypeOK
  <2> QED BY <2>1 DEF Call, LastAnswer
<1> DEFINE Stays == UNCHANGED <<policy, calls>>
<1>s. Stays => MaxAttempts' = MaxAttempts /\ LastAnswer' = LastAnswer /\ \A a : Settled(a)' = Settled(a)
  BY DEF MaxAttempts, LastAnswer, Settled
<1>1. CASE BeginCall
  <2>1. Stays /\ pc = "ready" /\ pc' = "calling" /\ UNCHANGED <<attempt, now>> /\ until' = now
    BY <1>1 DEF BeginCall
  <2>2. TypeOK'
    BY <1>t, <2>1 DEF TypeOK
  <2>3. Counted' /\ Ended'
    BY <1>t, <1>s, <2>1 DEF Counted, Ended
  <2>4. Unsettled'
    BY <1>t, <1>s, <2>1 DEF Unsettled
  <2> QED BY <2>2, <2>3, <2>4 DEF IInv
<1>2. ASSUME NEW a \in Answer, EndCall(a) PROVE IInv'
  <2> DEFINE c == [began |-> until, ended |-> now, answer |-> a]
  <2>1. /\ pc = "calling" /\ pc' = "answered" /\ calls' = Append(calls, c)
        /\ UNCHANGED <<policy, attempt, now, until>>
    BY <1>2 DEF EndCall
  <2>2. c \in Call
    BY <1>t, <2>1 DEF TypeOK, Call
  <2> HIDE DEF c
  <2>3. /\ calls' \in Seq(Call) /\ Len(calls') = Len(calls) + 1
        /\ DOMAIN calls' = 1..Len(calls') /\ \A i \in DOMAIN calls : calls'[i] = calls[i]
    BY <1>t, <2>1, <2>2, OneMore DEF TypeOK
  <2>4. TypeOK'
    BY <1>t, <2>1, <2>3 DEF TypeOK
  <2>5. MaxAttempts' = MaxAttempts /\ \A x : Settled(x)' = Settled(x)
    BY <2>1 DEF MaxAttempts, Settled
  <2>6. Counted'
    BY <1>t, <1>n, <2>1, <2>3, <2>5 DEF Counted
  <2>7. Unsettled'
    BY <1>t, <1>n, <2>1, <2>3, <2>5 DEF Unsettled
  <2> QED BY <2>1, <2>4, <2>6, <2>7 DEF IInv, Ended
<1>3. CASE Return
  <2>1. Stays /\ pc = "answered" /\ LastAnswer = "ok" /\ pc' = "returned" /\ UNCHANGED <<attempt, now, until>>
    BY <1>3 DEF Return
  <2>2. TypeOK'
    BY <1>t, <2>1 DEF TypeOK
  <2>3. Counted' /\ Unsettled' /\ Ended'
    BY <1>t, <1>s, <2>1 DEF Counted, Unsettled, Ended
  <2> QED BY <2>2, <2>3 DEF IInv
<1>4. CASE GiveUp
  <2>1. /\ Stays /\ pc = "answered" /\ LastAnswer # "ok" /\ pc' = "exhausted" /\ UNCHANGED <<attempt, now, until>>
        /\ ~(Repeats(LastAnswer) /\ attempt < MaxAttempts)
    BY <1>4 DEF GiveUp
  <2>2. TypeOK'
    BY <1>t, <2>1 DEF TypeOK
  <2>3. Counted' /\ Unsettled'
    BY <1>t, <1>s, <2>1 DEF Counted, Unsettled
  <2>4. Len(calls) = attempt /\ attempt <= MaxAttempts /\ Len(calls) > 0
    BY <1>t, <1>n, <2>1 DEF Counted, TypeOK
  <2>5. Len(calls) = MaxAttempts \/ Settled(LastAnswer)
    BY <1>n, <1>l, <2>1, <2>4, RepeatsUnsettled
  <2>6. Ended'
    BY <1>s, <2>1, <2>5 DEF Ended
  <2> QED BY <2>2, <2>3, <2>6 DEF IInv
<1>5. CASE Sleep
  <2>1. /\ Stays /\ pc = "answered" /\ LastAnswer # "ok" /\ pc' = "sleeping" /\ UNCHANGED <<attempt, now>>
        /\ Repeats(LastAnswer) /\ attempt < MaxAttempts
    BY <1>5 DEF Sleep
  <2>2. TypeOK'
    BY <1>t, <2>1 DEF TypeOK
  <2>3. Len(calls) = attempt /\ Len(calls) > 0
    BY <1>t, <1>n, <2>1 DEF Counted, TypeOK
  <2>4. ~Settled(calls[Len(calls)].answer)
    BY <1>l, <2>1, <2>3, RepeatsUnsettled DEF LastAnswer
  <2>5. \A i \in DOMAIN calls : ~Settled(calls[i].answer)
    BY <1>t, <1>n, <2>4 DEF Unsettled
  <2>6. Counted' /\ Unsettled' /\ Ended'
    BY <1>t, <1>s, <2>1, <2>5 DEF Counted, Unsettled, Ended
  <2> QED BY <2>2, <2>6 DEF IInv
<1>6. CASE Wake
  <2>1. Stays /\ pc = "sleeping" /\ pc' = "ready" /\ attempt' = attempt + 1 /\ UNCHANGED <<now, until>>
    BY <1>6 DEF Wake
  <2>2. TypeOK'
    BY <1>t, <2>1 DEF TypeOK
  <2>3. Unsettled' /\ Ended'
    BY <1>t, <1>s, <2>1 DEF Unsettled, Ended
  <2>4. Counted'
    BY <1>t, <1>n, <1>s, <2>1 DEF Counted
  <2> QED BY <2>2, <2>3, <2>4 DEF IInv
<1>7. CASE Cancel
  BY <1>t, <1>s, <1>7 DEF Cancel, IInv, TypeOK, Counted, Unsettled, Ended
<1>8. CASE Tick
  <2>1. Stays /\ UNCHANGED <<pc, attempt, until>> /\ now' \in Time
    BY <1>t, <1>8, TimeAssumption DEF Tick, TypeOK, Time
  <2> QED BY <1>t, <1>s, <2>1 DEF IInv, TypeOK, Counted, Unsettled, Ended
<1>9. CASE UNCHANGED vars
  BY <1>t, <1>s, <1>9 DEF vars, IInv, TypeOK, Counted, Unsettled, Ended
<1> QED BY <1>1, <1>2, <1>3, <1>4, <1>5, <1>6, <1>7, <1>8, <1>9 DEF Next, Over

(* The variables of Retry keep their types. *)
THEOREM TypeCorrect == Spec => []TypeOK
<1>1. IInv => TypeOK
  BY DEF IInv
<1> QED BY <1>1, InitInv, Step, PTL DEF Spec

(* What that says of the calls. *)
LEMMA CallsAsAllowed == IInv => OnlyRetriesWhatItMay
<1> SUFFICES ASSUME IInv PROVE OnlyRetriesWhatItMay
  OBVIOUS
<1>1. attempt \in Nat /\ Len(calls) \in Nat /\ MaxAttempts \in Nat
  BY MaxAttemptsType DEF IInv, TypeOK
<1>2. Len(calls) <= MaxAttempts
  BY <1>1 DEF IInv, Counted
<1> QED BY <1>2 DEF IInv, Unsettled, Ended, OnlyRetriesWhatItMay

(* A step is called at most as often as its policy allows and never again    *)
(* after an answer that settles the matter, and it fails only when there have *)
(* been that many calls or on such an answer.                                *)
THEOREM OnlyRetries == Spec => []OnlyRetriesWhatItMay
BY InitInv, Step, CallsAsAllowed, PTL DEF Spec

-----------------------------------------------------------------------------
(* Pauses.                                                                   *)

(* The function that TwoTo computes with, up to any number, *)
Doubles(f, n) == f = [k \in 0..n |-> IF k = 0 THEN 1 ELSE 2 * f[k - 1]]

LEMMA TwoToChooses == \A n : TwoTo(n) = (CHOOSE f : Doubles(f, n))[n]
BY DEF TwoTo, Doubles

(* exists, *)
LEMMA DoublesExist == ASSUME NEW n \in Nat PROVE \E f \in [0..n -> Nat] : Doubles(f, n)
<1> DEFINE T == {m \in Nat : \E f \in [0..m -> Nat] : Doubles(f, m)}
<1>1. 0 \in T
  <2>1. [k \in 0..0 |-> 1] \in [0..0 -> Nat] /\ Doubles([k \in 0..0 |-> 1], 0)
    BY DEF Doubles
  <2> QED BY <2>1
<1>2. ASSUME NEW m \in T PROVE m + 1 \in T
  <2>1. PICK f \in [0..m -> Nat] : Doubles(f, m)
    BY <1>2
  <2> DEFINE g == [k \in 0..(m + 1) |-> IF k = m + 1 THEN 2 * f[m] ELSE f[k]]
  <2>2. g \in [0..(m + 1) -> Nat]
    BY <2>1
  <2>3. \A k \in 0..(m + 1) : g[k] = IF k = 0 THEN 1 ELSE 2 * g[k - 1]
    BY <2>1 DEF Doubles
  <2>4. Doubles(g, m + 1)
    BY <2>2, <2>3 DEF Doubles
  <2> QED BY <2>2, <2>4
<1>3. T = Nat
  <2> HIDE DEF T
  <2>1. T \in SUBSET Nat
    BY DEF T
  <2> QED BY <1>1, <1>2, <2>1, Induction
<1> QED BY <1>3

(* and is the same however far it goes. *)
LEMMA DoublesAgree ==
    ASSUME NEW n \in Nat, NEW m \in Nat, NEW f, NEW g, Doubles(f, n), Doubles(g, m),
           NEW k \in Nat, k <= n, k <= m
    PROVE  f[k] = g[k]
<1> DEFINE T == {j \in Nat : j <= n /\ j <= m => f[j] = g[j]}
<1>0. /\ \A j \in 0..n : f[j] = IF j = 0 THEN 1 ELSE 2 * f[j - 1]
      /\ \A j \in 0..m : g[j] = IF j = 0 THEN 1 ELSE 2 * g[j - 1]
  BY DEF Doubles
<1>1. 0 \in T
  BY <1>0
<1>2. ASSUME NEW j \in T PROVE j + 1 \in T
  <2>1. SUFFICES ASSUME j + 1 <= n, j + 1 <= m PROVE f[j + 1] = g[j + 1]
    BY <1>2
  <2>2. j + 1 \in 0..n /\ j + 1 \in 0..m /\ j + 1 # 0 /\ (j + 1) - 1 = j /\ f[j] = g[j]
    BY <1>2, <2>1
  <2> QED BY <1>0, <2>2
<1>3. T = Nat
  <2> HIDE DEF T
  <2>1. T \in SUBSET Nat
    BY DEF T
  <2> QED BY <1>1, <1>2, <2>1, Induction
<1> QED BY <1>3

(* So 2 ** n is what one expects of it. *)
LEMMA TwoToIs ==
    ASSUME NEW n \in Nat
    PROVE  TwoTo(n) \in Nat /\ TwoTo(n) = IF n = 0 THEN 1 ELSE 2 * TwoTo(n - 1)
<1> DEFINE F(m) == CHOOSE f : Doubles(f, m)
<1>1. \A m \in Nat : Doubles(F(m), m)
  BY DoublesExist
<1>2. \A m \in Nat : TwoTo(m) = F(m)[m]
  BY TwoToChooses
<1> HIDE DEF F
<1>3. PICK f \in [0..n -> Nat] : Doubles(f, n)
  BY DoublesExist
<1>4. TwoTo(n) = f[n] /\ n \in 0..n
  BY <1>1, <1>2, <1>3, DoublesAgree
<1>5. ASSUME n # 0 PROVE TwoTo(n - 1) = f[n - 1]
  <2>1. n - 1 \in Nat /\ n - 1 <= n
    BY <1>5
  <2> QED BY <1>1, <1>2, <1>3, <2>1, DoublesAgree
<1>6. f[n] = IF n = 0 THEN 1 ELSE 2 * f[n - 1]
  BY <1>3, <1>4 DEF Doubles
<1> QED BY <1>3, <1>4, <1>5, <1>6

(* What compute_delay answers, without the cap. *)
Uncapped(n) ==
    CASE policy.backoff = "constant" -> policy.delay
      [] policy.backoff = "linear" -> policy.delay * n
      [] policy.backoff = "exponential" -> policy.delay * TwoTo(n - 1)

(* It grows from one call to the next as the policy promises. *)
LEMMA DelayGrows ==
    ASSUME policy \in Policies \ {NoPolicy}, NEW n \in Nat \ {0}
    PROVE  /\ ComputeDelay(n) \in Nat
           /\ ComputeDelay(1) = Least(policy.delay, policy.cap)
           /\ n # 1 => ComputeDelay(n) =
                 Least(policy.cap, CASE policy.backoff = "constant" -> ComputeDelay(n - 1)
                                     [] policy.backoff = "linear" -> ComputeDelay(n - 1) + policy.delay
                                     [] policy.backoff = "exponential" -> 2 * ComputeDelay(n - 1))
<1> DEFINE d == policy.delay
           c == policy.cap
<1>1. d \in Nat /\ c \in Nat /\ policy.backoff \in {"constant", "linear", "exponential"}
  BY PoliciesAssumption DEF Backoff
<1>2. \A m \in Nat \ {0} : ComputeDelay(m) = Least(Uncapped(m), c)
  BY DEF ComputeDelay, Uncapped
<1>3. \A m \in Nat \ {0} : Uncapped(m) \in Nat
  <2> SUFFICES ASSUME NEW m \in Nat \ {0} PROVE Uncapped(m) \in Nat
    OBVIOUS
  <2>1. m - 1 \in Nat
    OBVIOUS
  <2>2. TwoTo(m - 1) \in Nat
    BY <2>1, TwoToIs
  <2> QED BY <1>1, <2>2 DEF Uncapped
<1>4. ComputeDelay(n) \in Nat
  <2>1. ComputeDelay(n) = Least(Uncapped(n), c) /\ Uncapped(n) \in Nat
    BY <1>2, <1>3
  <2> QED BY <1>1, <2>1 DEF Least
<1>5. Uncapped(1) = d
  <2>1. TwoTo(0) = 1
    BY TwoToIs
  <2> QED BY <1>1, <2>1 DEF Uncapped
<1>6. ASSUME n # 1
      PROVE  Uncapped(n) = CASE policy.backoff = "constant" -> Uncapped(n - 1)
                             [] policy.backoff = "linear" -> Uncapped(n - 1) + d
                             [] policy.backoff = "exponential" -> 2 * Uncapped(n - 1)
  <2>1. n - 1 \in Nat \ {0} /\ (n - 1) - 1 = n - 2 /\ n - 2 \in Nat /\ n - 1 # 0
    BY <1>6
  <2>2. TwoTo(n - 1) = 2 * TwoTo(n - 2) /\ TwoTo(n - 2) \in Nat
    BY <2>1, TwoToIs
  <2>3. d * n = d * (n - 1) + d
    BY <1>1
  <2>4. d * (2 * TwoTo(n - 2)) = 2 * (d * TwoTo(n - 2))
    BY <1>1, <2>2
  <2> QED BY <1>1, <2>1, <2>2, <2>3, <2>4 DEF Uncapped
<1>7. ASSUME n # 1
      PROVE  ComputeDelay(n) =
                 Least(policy.cap, CASE policy.backoff = "constant" -> ComputeDelay(n - 1)
                                     [] policy.backoff = "linear" -> ComputeDelay(n - 1) + policy.delay
                                     [] policy.backoff = "exponential" -> 2 * ComputeDelay(n - 1))
  <2>1. n - 1 \in Nat \ {0}
    BY <1>7
  <2> DEFINE u == Uncapped(n - 1)
  <2>2. /\ u \in Nat /\ ComputeDelay(n - 1) = Least(u, c)
        /\ ComputeDelay(n) = Least(Uncapped(n), c) /\ Uncapped(n) \in Nat
    BY <1>2, <1>3, <2>1
  <2> HIDE DEF u
  <2>3. Least(c, Least(u, c)) = Least(u, c) /\ Least(c, Least(u, c) + d) = Least(u + d, c)
    BY <1>1, <2>2 DEF Least
  <2>4. Least(c, 2 * Least(u, c)) = Least(2 * u, c)
    BY <1>1, <2>2 DEF Least
  <2>5. CASE policy.backoff = "constant"
    BY <1>6, <1>7, <2>2, <2>3, <2>5 DEF u
  <2>6. CASE policy.backoff = "linear"
    BY <1>6, <1>7, <2>2, <2>3, <2>6 DEF u
  <2>7. CASE policy.backoff = "exponential"
    BY <1>6, <1>7, <2>2, <2>4, <2>7 DEF u
  <2> QED BY <1>1, <2>5, <2>6, <2>7
<1>8. ComputeDelay(1) = Least(policy.delay, policy.cap)
  <2>1. ComputeDelay(1) = Least(Uncapped(1), c)
    BY <1>2
  <2> QED BY <1>5, <2>1
<1> QED BY <1>4, <1>7, <1>8

(* So what the policy promises is what compute_delay answers. *)
Promises(f, i) ==
    f = [k \in 1..i |->
          IF k = 1 THEN Least(policy.delay, policy.cap)
          ELSE Least(policy.cap, CASE policy.backoff = "constant" -> f[k - 1]
                                   [] policy.backoff = "linear" -> f[k - 1] + policy.delay
                                   [] policy.backoff = "exponential" -> 2 * f[k - 1])]

LEMMA PromisedIs ==
    ASSUME policy \in Policies \ {NoPolicy}, NEW i \in Nat \ {0}
    PROVE  Promised(i) = ComputeDelay(i)
<1> DEFINE g == [k \in 1..i |-> ComputeDelay(k)]
           f == CHOOSE h : Promises(h, i)
<1>1. Promises(g, i)
  <2>1. \A k \in 1..i :
          ComputeDelay(k) =
            IF k = 1 THEN Least(policy.delay, policy.cap)
            ELSE Least(policy.cap, CASE policy.backoff = "constant" -> g[k - 1]
                                     [] policy.backoff = "linear" -> g[k - 1] + policy.delay
                                     [] policy.backoff = "exponential" -> 2 * g[k - 1])
    <3> SUFFICES ASSUME NEW k \in 1..i, k # 1
                 PROVE  ComputeDelay(k) =
                          Least(policy.cap, CASE policy.backoff = "constant" -> g[k - 1]
                                              [] policy.backoff = "linear" -> g[k - 1] + policy.delay
                                              [] policy.backoff = "exponential" -> 2 * g[k - 1])
      BY DelayGrows
    <3>1. k \in Nat \ {0} /\ g[k - 1] = ComputeDelay(k - 1)
      OBVIOUS
    <3> HIDE DEF g
    <3> QED BY <3>1, DelayGrows
  <2> QED BY <2>1 DEF Promises
<1>2. Promises(f, i)
  BY <1>1
<1>3. Promised(i) = f[i]
  BY DEF Promised, Promises
<1> HIDE DEF f
<1> DEFINE T == {n \in Nat : n + 1 <= i => f[n + 1] = ComputeDelay(n + 1)}
<1>4. 0 \in T
  BY <1>2, DelayGrows DEF Promises
<1>5. ASSUME NEW n \in T PROVE n + 1 \in T
  <2> SUFFICES ASSUME n + 2 <= i PROVE f[n + 2] = ComputeDelay(n + 2)
    BY <1>5
  <2>1. /\ n \in Nat /\ n + 2 \in 1..i /\ n + 2 # 1 /\ (n + 2) - 1 = n + 1 /\ n + 2 \in Nat \ {0}
        /\ f[n + 1] = ComputeDelay(n + 1)
    BY <1>5
  <2>2. f[n + 2] = Least(policy.cap, CASE policy.backoff = "constant" -> f[n + 1]
                                       [] policy.backoff = "linear" -> f[n + 1] + policy.delay
                                       [] policy.backoff = "exponential" -> 2 * f[n + 1])
    BY <1>2, <2>1 DEF Promises
  <2> QED BY <2>1, <2>2, DelayGrows
<1>6. T = Nat
  <2> HIDE DEF T
  <2>1. T \in SUBSET Nat
    BY DEF T
  <2> QED BY <1>4, <1>5, <2>1, Induction
<1>7. i - 1 \in T
  <2> HIDE DEF T
  <2> QED BY <1>6
<1> QED BY <1>3, <1>7

(* How long the pauses so far were, and where the one under way ends. *)
Lasts(i, t) == t >= calls[i].ended + ComputeDelay(i)

Paced ==
    /\ \A i \in DOMAIN calls : i < Len(calls) => Lasts(i, calls[i + 1].began)
    /\ pc = "answered" => now = calls[Len(calls)].ended
    /\ pc = "sleeping" => until \in Nat /\ Lasts(Len(calls), until)
    /\ pc = "ready" /\ calls # <<>> => Lasts(Len(calls), now)
    /\ pc = "calling" /\ calls # <<>> => Lasts(Len(calls), until)

(* Calls have their times. *)
LEMMA TimesOfCalls ==
    ASSUME TypeOK
    PROVE  /\ now \in Nat /\ attempt \in Nat \ {0} /\ Len(calls) \in Nat /\ DOMAIN calls = 1..Len(calls)
           /\ calls \in Seq(Call) /\ policy \in Policies
           /\ \A i \in DOMAIN calls : calls[i].ended \in Nat /\ calls[i].began \in Nat
<1>1. calls \in Seq(Call) /\ now \in Nat /\ attempt \in Nat \ {0} /\ policy \in Policies
  BY TimeAssumption DEF TypeOK, Time
<1>2. \A c \in Call : c.ended \in Nat /\ c.began \in Nat
  BY TimeAssumption DEF Call, Time
<1>3. \A i \in DOMAIN calls : calls[i] \in Call
  BY <1>1
<1> QED BY <1>1, <1>2, <1>3

LEMMA PacedStep == IInv /\ Paced /\ [Next]_vars => Paced'
<1> SUFFICES ASSUME IInv, Paced, [Next]_vars PROVE Paced'
  OBVIOUS
<1>t. /\ TypeOK /\ calls \in Seq(Call) /\ now \in Nat /\ attempt \in Nat
      /\ Len(calls) \in Nat /\ DOMAIN calls = 1..Len(calls)
      /\ \A i \in DOMAIN calls : calls[i].ended \in Nat /\ calls[i].began \in Nat
  BY TimesOfCalls DEF IInv
<1>d. UNCHANGED policy => \A n : ComputeDelay(n)' = ComputeDelay(n)
  BY DEF ComputeDelay
<1>k. UNCHANGED <<policy, calls>> => \A i, t : Lasts(i, t) => t >= calls'[i].ended + ComputeDelay(i)'
  BY <1>d DEF Lasts
<1>1. CASE BeginCall
  BY <1>d, <1>1 DEF BeginCall, Paced, Lasts
<1>2. ASSUME NEW a \in Answer, EndCall(a) PROVE Paced'
  <2> DEFINE c == [began |-> until, ended |-> now, answer |-> a]
  <2>1. /\ pc = "calling" /\ pc' = "answered" /\ calls' = Append(calls, c)
        /\ UNCHANGED <<policy, attempt, now, until>>
    BY <1>2 DEF EndCall
  <2>2. c \in Call /\ c.ended = now /\ c.began = until
    BY <1>t, <2>1 DEF TypeOK, Call
  <2> HIDE DEF c
  <2>3. /\ Len(calls') = Len(calls) + 1 /\ calls'[Len(calls')] = c
        /\ DOMAIN calls' = 1..Len(calls') /\ \A i \in DOMAIN calls : calls'[i] = calls[i]
    BY <1>t, <2>1, <2>2, OneMore
  <2>4. ASSUME NEW i \in DOMAIN calls', i < Len(calls') PROVE Lasts(i, calls[i + 1].began)'
    <3>1. i \in DOMAIN calls /\ calls'[i] = calls[i]
      BY <1>t, <2>3, <2>4
    <3>2. CASE i = Len(calls)
      <4>1. Lasts(i, until) /\ calls'[i + 1] = c
        BY <1>t, <2>1, <2>3, <3>1, <3>2 DEF Paced
      <4> QED BY <1>d, <2>1, <2>2, <3>1, <4>1 DEF Lasts
    <3>3. CASE i # Len(calls)
      <4>1. i < Len(calls) /\ i + 1 \in DOMAIN calls
        BY <1>t, <3>1, <3>3
      <4>2. Lasts(i, calls[i + 1].began) /\ calls'[i + 1] = calls[i + 1]
        BY <2>3, <3>1, <4>1 DEF Paced
      <4> QED BY <1>d, <2>1, <3>1, <4>2 DEF Lasts
    <3> QED BY <3>2, <3>3
  <2> QED BY <2>1, <2>2, <2>3, <2>4 DEF Paced
<1>5. CASE Sleep
  <2>1. /\ pc = "answered" /\ pc' = "sleeping" /\ UNCHANGED <<policy, calls>>
        /\ until' = now + ComputeDelay(attempt) /\ attempt = Len(calls)
    BY <1>5 DEF Sleep, IInv, Counted
  <2>2. until' \in Nat /\ Lasts(Len(calls), until)'
    <3>1. ComputeDelay(attempt) \in Nat
      <4>1. policy \in Policies \ {NoPolicy} /\ attempt \in Nat \ {0}
        BY <1>5 DEF IInv, TypeOK, Sleep, Repeats
      <4> QED BY <4>1, DelayGrows
    <3> QED BY <1>d, <1>t, <2>1, <3>1 DEF Lasts, Paced
  <2> QED BY <1>d, <2>1, <2>2 DEF Paced, Lasts
<1>6. CASE Wake
  <2>1. pc = "sleeping" /\ pc' = "ready" /\ now >= until /\ UNCHANGED <<policy, calls, now>>
    BY <1>6 DEF Wake
  <2>2. attempt = Len(calls) /\ attempt \in 1..Len(calls) /\ policy # NoPolicy
    BY <1>t, <2>1, MaxAttemptsType DEF IInv, TypeOK, Counted, MaxAttempts
  <2>3. ComputeDelay(Len(calls)) \in Nat /\ calls[Len(calls)].ended \in Nat /\ until \in Nat
    BY <1>t, <2>1, <2>2, DelayGrows DEF Paced, TypeOK
  <2>4. Lasts(Len(calls), now)
    BY <1>t, <2>1, <2>3 DEF Paced, Lasts
  <2> QED BY <1>d, <2>1, <2>4 DEF Paced, Lasts
<1>7. CASE UNCHANGED <<policy, calls>> /\ pc' \in {"returned", "exhausted", "cancelled"}
  BY <1>d, <1>7 DEF Paced, Lasts
<1>8. CASE Tick
  BY <1>d, <1>8 DEF Tick, Paced, Lasts
<1>9. CASE UNCHANGED vars
  BY <1>d, <1>9 DEF vars, Paced, Lasts
<1> QED BY <1>1, <1>2, <1>5, <1>6, <1>7, <1>8, <1>9 DEF Next, Over, Return, GiveUp, Cancel

(* For every policy: after each answer that does not settle the matter the    *)
(* step is called again, but not before the pause that the policy promises is *)
(* over - the delay, one more of it each time or twice the last pause, never  *)
(* more than the cap - and not more often than it allows.                     *)
THEOREM PoliciesAreFollowed == Spec => []RetriesFollowPolicy
<1>1. Init => Paced
  BY DEF Init, Paced
<1>2. IInv /\ Paced => PausesAreKept
  <2> SUFFICES ASSUME IInv, Paced, NEW i \in DOMAIN calls, i < Len(calls)
               PROVE  calls[i + 1].began - calls[i].ended >= Promised(i)
    BY DEF PausesAreKept
  <2>1. /\ Len(calls) \in Nat /\ DOMAIN calls = 1..Len(calls) /\ attempt \in Nat /\ policy \in Policies
        /\ \A k \in DOMAIN calls : calls[k].ended \in Nat /\ calls[k].began \in Nat
    BY TimesOfCalls DEF IInv
  <2>2. policy \in Policies \ {NoPolicy}
    <3>1. MaxAttempts \in Nat /\ Len(calls) <= attempt /\ attempt <= MaxAttempts
      BY <2>1, MaxAttemptsType DEF IInv, Counted
    <3>2. 1 < MaxAttempts
      BY <2>1, <3>1
    <3> QED BY <2>1, <3>2 DEF MaxAttempts
  <2>3. calls[i].ended \in Nat /\ calls[i + 1].began \in Nat
    BY <2>1
  <2>4. ComputeDelay(i) \in Nat /\ Promised(i) = ComputeDelay(i)
    BY <2>1, <2>2, DelayGrows, PromisedIs
  <2>5. calls[i + 1].began >= calls[i].ended + ComputeDelay(i)
    BY DEF Paced, Lasts
  <2> QED BY <2>3, <2>4, <2>5
<1>3. IInv /\ PausesAreKept => RetriesFollowPolicy
  BY CallsAsAllowed DEF RetriesFollowPolicy
<1> QED BY <1>1, <1>2, <1>3, InitInv, Step, PacedStep, PTL DEF Spec

-----------------------------------------------------------------------------
(* Paths.                                                                    *)

(* Where the loop may be: at a dictionary or a value. *)
Leaf == [is : Plains \cup Lists]
Spot == [rest : Seq(Words), current : Things \cup Leaf]

LEMMA CurrentIs ==
    ASSUME NEW c \in Things \cup Leaf
    PROVE  IF IsDict(c) THEN c \in Things /\ DOMAIN c.at \subseteq Key /\ \A k \in DOMAIN c.at : c.at[k] \in Things
                        ELSE c \in Leaf
BY ContextsAssumption DEF IsDict, Leaf

LEMMA NoDicts ==
    /\ Missing \in Leaf /\ ~IsDict(Missing) /\ Attribute \in Leaf /\ ~IsDict(Attribute)
    /\ NotFound \in Spot /\ NotFound.rest = <<>> /\ NotFound.current = Missing
<1>1. <<24>> \in Seq(Nat)
  OBVIOUS
<1>2. Null \in Plains /\ Str(<<24>>) \in Plains
  BY <1>1 DEF Plains, Str
<1> QED BY <1>2 DEF Missing, Attribute, IsDict, Leaf, NotFound, Start, Spot

(* The keys that match are parts of the path, so one of them is the longest. *)
LEMMA MatchingIs ==
    ASSUME NEW c \in Things, IsDict(c), NEW path \in Seq(Words), NEW k \in Matching(path, c)
    PROVE  /\ k \in Key /\ Len(k) \in Nat /\ 1 <= Len(k) /\ Len(k) <= Len(path) /\ k = SubSeq(path, 1, Len(k))
           /\ k \in DOMAIN c.at /\ c.at[k] \in Things
           /\ Rest(path, k) \in Seq(Words) /\ Len(Rest(path, k)) = Len(path) - Len(k)
<1>1. k \in Key /\ k \in DOMAIN c.at /\ c.at[k] \in Things /\ IsPrefix(k, path)
  BY CurrentIs DEF Matching
<1>2. Len(k) \in Nat /\ 1 <= Len(k) /\ Len(k) <= Len(path) /\ SubSeq(k, 1, Len(k)) = SubSeq(path, 1, Len(k))
  BY <1>1 DEF IsPrefix, Key
<1>3. SubSeq(k, 1, Len(k)) = k
  BY <1>1 DEF Key
<1>4. Rest(path, k) \in Seq(Words) /\ Len(Rest(path, k)) = Len(path) - Len(k)
  BY <1>2 DEF Rest
<1> QED BY <1>1, <1>2, <1>3, <1>4

LEMMA ChosenIs ==
    ASSUME NEW c \in Things, IsDict(c), NEW path \in Seq(Words), Matching(path, c) # {}
    PROVE  Chosen(Matching(path, c)) \in Matching(path, c)
           /\ \A j \in Matching(path, c) : Len(j) <= Len(Chosen(Matching(path, c)))
<1> DEFINE M == Matching(path, c)
           U == {Len(path) - Len(k) : k \in M}
<1>1. \A k \in M : Len(k) \in Nat /\ Len(k) <= Len(path) /\ Len(path) \in Nat
  BY MatchingIs
<1> HIDE DEF M
<1>2. U \in SUBSET Nat /\ U # {}
  BY <1>1 DEF M
<1>3. PICK x \in U : \A y \in U : x <= y
  <2> HIDE DEF U
  <2> QED BY <1>2, LeastOf
<1>4. \E k \in M : \A j \in M : Len(j) <= Len(k)
  <2>1. PICK k \in M : x = Len(path) - Len(k)
    BY <1>3
  <2>2. \A j \in M : Len(path) - Len(k) <= Len(path) - Len(j)
    BY <1>3, <2>1
  <2> QED BY <1>1, <2>1, <2>2
<1> QED BY <1>4 DEF Chosen, M

(* A turn takes a word or more of what is left. *)
LEMMA TurnIs ==
    ASSUME NEW p \in Spot
    PROVE  /\ Turn(p) \in Spot /\ (p.rest = <<>> => Turn(p) = p)
           /\ p.rest # <<>> => Len(Turn(p).rest) < Len(p.rest)
<1>0. p.rest \in Seq(Words) /\ p.current \in Things \cup Leaf /\ Len(p.rest) \in Nat
      /\ (p.rest # <<>> => 0 < Len(p.rest))
  BY DEF Spot
<1>1. CASE p.rest = <<>>
  BY <1>1 DEF Turn
<1>2. CASE p.rest # <<>> /\ IsDict(p.current) /\ Matching(p.rest, p.current) # {}
  <2> DEFINE k == Chosen(Matching(p.rest, p.current))
  <2>1. p.current \in Things
    BY <1>0, <1>2, CurrentIs
  <2>2. k \in Matching(p.rest, p.current)
    BY <1>0, <1>2, <2>1, ChosenIs
  <2>3. /\ p.current.at[k] \in Things /\ Rest(p.rest, k) \in Seq(Words) /\ Len(k) \in Nat /\ 1 <= Len(k)
        /\ Len(Rest(p.rest, k)) = Len(p.rest) - Len(k)
    BY <1>0, <1>2, <2>1, <2>2, MatchingIs
  <2>4. Turn(p) = Into(p, k)
    BY <1>2 DEF Turn
  <2> HIDE DEF k
  <2> QED BY <1>0, <1>2, <2>3, <2>4 DEF Into, Start, Spot
<1>3. CASE p.rest # <<>> /\ ~IsDict(p.current) /\ p.rest[1] \in Attributes
  <2>1. Turn(p) = Start(Tail(p.rest), Attribute)
    BY <1>3 DEF Turn
  <2>2. Tail(p.rest) \in Seq(Words) /\ Len(Tail(p.rest)) < Len(p.rest)
    BY <1>0, <1>3
  <2> QED BY <1>3, <2>1, <2>2, NoDicts DEF Start, Spot
<1>4. CASE p.rest # <<>> /\ Turn(p) = NotFound
  BY <1>0, <1>4, NoDicts
<1> QED BY <1>1, <1>2, <1>3, <1>4 DEF Turn

(* The turns of the loop, up to any number of them, *)
Turns(f, path, c, m) == f = [n \in 0..m |-> IF n = 0 THEN Start(path, c) ELSE Turn(f[n - 1])]

LEMMA ResolveChooses ==
    ASSUME NEW path, NEW c
    PROVE  Resolve(path, c) = (CHOOSE f : Turns(f, path, c, Len(path)))[Len(path)].current
BY DEF Resolve, Turns

LEMMA TurnsExist == ASSUME NEW path, NEW c, NEW n \in Nat PROVE \E f : Turns(f, path, c, n)
<1> DEFINE T == {m \in Nat : \E f : Turns(f, path, c, m)}
<1>1. 0 \in T
  <2>1. Turns([k \in 0..0 |-> Start(path, c)], path, c, 0)
    BY DEF Turns
  <2> QED BY <2>1
<1>2. ASSUME NEW m \in T PROVE m + 1 \in T
  <2>1. PICK f : Turns(f, path, c, m)
    BY <1>2
  <2> DEFINE g == [k \in 0..(m + 1) |-> IF k = m + 1 THEN Turn(f[m]) ELSE f[k]]
  <2>2. \A k \in 0..(m + 1) : g[k] = IF k = 0 THEN Start(path, c) ELSE Turn(g[k - 1])
    BY <2>1 DEF Turns
  <2>3. Turns(g, path, c, m + 1)
    BY <2>2 DEF Turns
  <2> QED BY <2>3
<1>3. T = Nat
  <2> HIDE DEF T
  <2>1. T \in SUBSET Nat
    BY DEF T
  <2> QED BY <1>1, <1>2, <2>1, Induction
<1> QED BY <1>3

(* and the places that a path may lead to. *)
Spreads(g, path, c, m) == g = [n \in 0..m |-> IF n = 0 THEN {Start(path, c)} ELSE UNION {Ways(p) : p \in g[n - 1]}]

LEMMA PlacesChoose ==
    ASSUME NEW path, NEW c
    PROVE  Places(path, c) = CHOOSE g : Spreads(g, path, c, Len(path))
BY DEF Places, Spreads

LEMMA SpreadsExist == ASSUME NEW path, NEW c, NEW n \in Nat PROVE \E g : Spreads(g, path, c, n)
<1> DEFINE T == {m \in Nat : \E g : Spreads(g, path, c, m)}
<1>1. 0 \in T
  <2>1. Spreads([k \in 0..0 |-> {Start(path, c)}], path, c, 0)
    BY DEF Spreads
  <2> QED BY <2>1
<1>2. ASSUME NEW m \in T PROVE m + 1 \in T
  <2>1. PICK f : Spreads(f, path, c, m)
    BY <1>2
  <2> DEFINE All(s) == UNION {Ways(p) : p \in s}
             g == [k \in 0..(m + 1) |-> IF k = m + 1 THEN All(f[m]) ELSE f[k]]
  <2>0. \A k \in 0..m : f[k] = IF k = 0 THEN {Start(path, c)} ELSE All(f[k - 1])
    BY <2>1 DEF Spreads
  <2> HIDE DEF All
  <2>2. \A k \in 0..(m + 1) : g[k] = IF k = 0 THEN {Start(path, c)} ELSE All(g[k - 1])
    <3>1. m \in Nat
      BY <1>2
    <3> SUFFICES ASSUME NEW k \in 0..(m + 1) PROVE g[k] = IF k = 0 THEN {Start(path, c)} ELSE All(g[k - 1])
      OBVIOUS
    <3>2. CASE k \in 0..m
      <4>1. g[k] = f[k] /\ (k # 0 => k - 1 \in 0..m /\ g[k - 1] = f[k - 1])
        BY <3>1, <3>2
      <4> HIDE DEF g
      <4> QED BY <2>0, <3>2, <4>1
    <3>3. CASE k = m + 1
      <4>1. g[k] = All(f[m]) /\ g[m] = f[m] /\ k # 0 /\ k - 1 = m
        BY <3>1, <3>3
      <4> HIDE DEF g
      <4> QED BY <4>1
    <3> QED BY <3>1, <3>2, <3>3
  <2>3. Spreads(g, path, c, m + 1)
    BY <2>2 DEF Spreads, All
  <2> QED BY <2>3
<1>3. T = Nat
  <2> HIDE DEF T
  <2>1. T \in SUBSET Nat
    BY DEF T
  <2> QED BY <1>1, <1>2, <2>1, Induction
<1> QED BY <1>3

(* The loop and what it finds: its turns, places it may lead to, and both ends. *)
LEMMA WalkIs ==
    ASSUME NEW path \in Key, NEW c \in Things
    PROVE  \E f, g :
              /\ Len(path) \in Nat \ {0}
              /\ Resolve(path, c) = f[Len(path)].current /\ Places(path, c) = g
              /\ f[0] = Start(path, c) /\ g[0] = {Start(path, c)}
              /\ \A n \in 0..(Len(path) - 1) : f[n + 1] = Turn(f[n]) /\ g[n + 1] = UNION {Ways(p) : p \in g[n]}
<1> DEFINE m == Len(path)
           f == CHOOSE h : Turns(h, path, c, m)
           g == CHOOSE h : Spreads(h, path, c, m)
<1>1. m \in Nat \ {0}
  BY DEF Key
<1>2. Turns(f, path, c, m)
  BY <1>1, TurnsExist
<1>3. Spreads(g, path, c, m)
  BY <1>1, SpreadsExist
<1>4. Resolve(path, c) = f[m].current /\ Places(path, c) = g
  BY ResolveChooses, PlacesChoose
<1> HIDE DEF f, g, m
<1>5. f[0] = Start(path, c) /\ g[0] = {Start(path, c)}
  BY <1>1, <1>2, <1>3 DEF Turns, Spreads
<1>6. ASSUME NEW n \in 0..(m - 1)
      PROVE  f[n + 1] = Turn(f[n]) /\ g[n + 1] = UNION {Ways(p) : p \in g[n]}
  <2>1. n + 1 \in 0..m /\ n + 1 # 0 /\ (n + 1) - 1 = n
    BY <1>1
  <2>2. f[n + 1] = Turn(f[n])
    BY <1>2, <2>1 DEF Turns
  <2>3. g[n + 1] = UNION {Ways(p) : p \in g[(n + 1) - 1]}
    BY <1>3, <2>1 DEF Spreads
  <2> QED BY <2>1, <2>2, <2>3
<1> QED BY <1>1, <1>2, <1>3, <1>4, <1>5, <1>6 DEF m

(* After as many turns as there are words nothing is left of the path. *)
LEMMA WalkEnds ==
    ASSUME NEW m \in Nat, NEW f, NEW path \in Seq(Words), Len(path) = m, NEW c \in Things, f[0] = Start(path, c),
           \A n \in 0..(m - 1) : f[n + 1] = Turn(f[n])
    PROVE  /\ \A n \in 0..m : f[n] \in Spot
           /\ f[m].rest = <<>>
<1> DEFINE Fits(n) == f[n] \in Spot /\ (f[n].rest = <<>> \/ Len(f[n].rest) + n <= m)
           T == {n \in Nat : n <= m => Fits(n)}
<1>1. 0 \in T
  BY DEF Start, Spot
<1>2. ASSUME NEW n \in T PROVE n + 1 \in T
  <2>0. n \in Nat /\ (n <= m => Fits(n))
    BY <1>2
  <2> SUFFICES ASSUME n + 1 <= m PROVE Fits(n + 1)
    <3> HIDE DEF Fits
    <3> QED BY <2>0
  <2>1. /\ n \in Nat /\ f[n] \in Spot /\ (f[n].rest = <<>> \/ Len(f[n].rest) + n <= m) /\ f[n + 1] = Turn(f[n])
    BY <2>0
  <2>2. Turn(f[n]) \in Spot /\ (f[n].rest = <<>> => Turn(f[n]) = f[n])
        /\ (f[n].rest # <<>> => Len(Turn(f[n]).rest) < Len(f[n].rest))
    BY <2>1, TurnIs
  <2>3. Len(f[n].rest) \in Nat /\ Len(Turn(f[n]).rest) \in Nat
    BY <2>1, <2>2 DEF Spot
  <2>4. CASE f[n].rest = <<>>
    BY <2>1, <2>2, <2>4
  <2>5. CASE f[n].rest # <<>>
    <3>1. Len(f[n].rest) + n <= m /\ Len(Turn(f[n]).rest) < Len(f[n].rest)
      BY <2>1, <2>2, <2>5
    <3> DEFINE i == Len(f[n].rest)
               j == Len(Turn(f[n]).rest)
    <3>2. j + (n + 1) <= m
      <4>1. i + n <= m /\ j < i /\ i \in Nat /\ j \in Nat
        BY <2>3, <3>1
      <4> HIDE DEF i, j
      <4> QED BY <2>0, <4>1
    <3> QED BY <2>1, <2>2, <3>2
  <2> QED BY <2>4, <2>5
<1>3. T = Nat
  <2> HIDE DEF T
  <2>1. T \in SUBSET Nat
    BY DEF T
  <2> QED BY <1>1, <1>2, <2>1, Induction
<1>4. \A n \in 0..m : Fits(n)
  <2> HIDE DEF Fits
  <2> QED BY <1>3
<1>5. f[m].rest \in Seq(Words) /\ (f[m].rest = <<>> \/ Len(f[m].rest) + m <= m)
  BY <1>4 DEF Spot
<1> QED BY <1>4, <1>5

(* It walks a way that the path may lead, unless it finds nothing or an          *)
(* attribute, and where no key begins another there is no other way.             *)
LEMMA WalkIsAWay ==
    ASSUME NEW m \in Nat, NEW f, NEW g, NEW start, f[0] = start, g[0] = {start},
           \A n \in 0..(m - 1) : f[n + 1] = Turn(f[n]) /\ g[n + 1] = UNION {Ways(p) : p \in g[n]},
           \A n \in 0..m : f[n] \in Spot
    PROVE  \A n \in 0..m : f[n] \in g[n] \/ f[n].current \in {Missing, Attribute}
<1> DEFINE Fits(n) == f[n] \in g[n] \/ f[n].current \in {Missing, Attribute}
           T == {n \in Nat : n <= m => Fits(n)}
<1>1. 0 \in T
  OBVIOUS
<1>2. ASSUME NEW n \in T PROVE n + 1 \in T
  <2>0. n \in Nat /\ (n <= m => Fits(n))
    BY <1>2
  <2> SUFFICES ASSUME n + 1 <= m PROVE Fits(n + 1)
    <3> HIDE DEF Fits
    <3> QED BY <2>0
  <2>1. n \in 0..(m - 1) /\ n \in 0..m /\ f[n] \in Spot /\ Fits(n)
    BY <2>0
  <2>2. f[n + 1] = Turn(f[n]) /\ g[n + 1] = UNION {Ways(p) : p \in g[n]}
    BY <2>1
  <2>3. ASSUME f[n] \in g[n], f[n].current \notin {Missing, Attribute}, f[n + 1].current \notin {Missing, Attribute}
        PROVE  f[n + 1] \in Ways(f[n])
    <3>1. CASE f[n].rest = <<>>
      BY <2>2, <3>1 DEF Turn, Ways
    <3>2. CASE f[n].rest # <<>>
      <4> DEFINE ks == Matching(f[n].rest, f[n].current)
      <4>1. f[n].rest # <<>> /\ IsDict(f[n].current) /\ ks # {} /\ f[n + 1] = Into(f[n], Chosen(ks))
        BY <2>2, <2>3, <3>2, NoDicts DEF Turn, Start
      <4>2. f[n].current \in Things /\ f[n].rest \in Seq(Words)
        BY <2>1, <4>1, CurrentIs DEF Spot
      <4>3. Chosen(ks) \in ks
        BY <4>1, <4>2, ChosenIs
      <4> HIDE DEF ks
      <4> QED BY <4>1, <4>3 DEF Ways, ks
    <3> QED BY <3>1, <3>2
  <2>4. CASE f[n].current \in {Missing, Attribute}
    <3>1. ~IsDict(f[n].current)
      BY <2>4, NoDicts
    <3> QED BY <2>2, <2>4, <3>1, NoDicts DEF Turn, Start
  <2>5. CASE f[n].current \notin {Missing, Attribute} /\ f[n + 1].current \notin {Missing, Attribute}
    <3>1. f[n] \in g[n]
      BY <2>1, <2>5
    <3>2. f[n + 1] \in Ways(f[n])
      BY <2>3, <2>5, <3>1
    <3> QED BY <2>2, <3>1, <3>2
  <2> QED BY <2>4, <2>5
<1>3. T = Nat
  <2> HIDE DEF T
  <2>1. T \in SUBSET Nat
    BY DEF T
  <2> QED BY <1>1, <1>2, <2>1, Induction
<1> HIDE DEF Fits
<1>4. \A n \in 0..m : Fits(n)
  BY <1>3
<1> QED BY <1>4 DEF Fits

LEMMA ClearWalk ==
    ASSUME NEW m \in Nat, NEW f, NEW g, NEW start, f[0] = start, g[0] = {start},
           \A n \in 0..(m - 1) : f[n + 1] = Turn(f[n]) /\ g[n + 1] = UNION {Ways(p) : p \in g[n]},
           \A n \in 0..m : f[n] \in Spot,
           \A n \in 0..m : \A p \in g[n] :
               IsDict(p.current) => \A j, k \in Matching(p.rest, p.current) : j = k
    PROVE  \A n \in 0..m : g[n] \subseteq {f[n]}
<1> DEFINE Fits(n) == g[n] \subseteq {f[n]}
           T == {n \in Nat : n <= m => Fits(n)}
<1>1. 0 \in T
  OBVIOUS
<1>2. ASSUME NEW n \in T PROVE n + 1 \in T
  <2>0. n \in Nat /\ (n <= m => Fits(n))
    BY <1>2
  <2> SUFFICES ASSUME n + 1 <= m PROVE Fits(n + 1)
    <3> HIDE DEF Fits
    <3> QED BY <2>0
  <2>1. n \in 0..(m - 1) /\ n \in 0..m /\ f[n] \in Spot /\ Fits(n)
    BY <2>0
  <2>2. f[n + 1] = Turn(f[n]) /\ g[n + 1] = UNION {Ways(p) : p \in g[n]}
    BY <2>1
  <2> SUFFICES ASSUME NEW q \in g[n + 1] PROVE q = f[n + 1]
    OBVIOUS
  <2>3. f[n] \in g[n] /\ q \in Ways(f[n])
    BY <2>1, <2>2
  <2>4. CASE f[n].rest = <<>>
    BY <2>2, <2>3, <2>4 DEF Turn, Ways
  <2>5. CASE f[n].rest # <<>>
    <3> DEFINE ks == Matching(f[n].rest, f[n].current)
    <3>1. IsDict(f[n].current) /\ \E k \in ks : q = Into(f[n], k)
      BY <2>3, <2>5 DEF Ways
    <3>2. \A j, k \in ks : j = k
      BY <2>1, <2>3, <3>1
    <3>3. f[n].current \in Things /\ f[n].rest \in Seq(Words) /\ ks # {}
      BY <2>1, <3>1, CurrentIs DEF Spot
    <3>4. Chosen(ks) \in ks
      BY <3>1, <3>3, ChosenIs
    <3>5. f[n + 1] = Into(f[n], Chosen(ks))
      BY <2>2, <2>5, <3>1 DEF Turn
    <3> HIDE DEF ks
    <3> QED BY <3>1, <3>2, <3>4, <3>5
  <2> QED BY <2>4, <2>5
<1>3. T = Nat
  <2> HIDE DEF T
  <2>1. T \in SUBSET Nat
    BY DEF T
  <2> QED BY <1>1, <1>2, <2>1, Induction
<1> HIDE DEF Fits
<1>4. \A n \in 0..m : Fits(n)
  BY <1>3
<1> QED BY <1>4 DEF Fits

(* A key that is the whole path is the longest of those that match. *)
LEMMA WholeKey ==
    ASSUME NEW m \in Nat, m # 0, NEW f, NEW path \in Key, NEW c \in Things, f[0] = Start(path, c),
           \A n \in 0..(m - 1) : f[n + 1] = Turn(f[n]), IsDict(c), path \in DOMAIN c.at
    PROVE  f[m].current = c.at[path]
<1> DEFINE ks == Matching(path, c)
           found == Start(<<>>, c.at[path])
<1>1. path \in Seq(Words) /\ path # <<>> /\ SubSeq(path, 1, Len(path)) = path /\ Len(path) \in Nat
  BY DEF Key
<1>2. path \in ks
  BY <1>1 DEF Matching, IsPrefix
<1>3. Chosen(ks) = path
  <2> DEFINE k == Chosen(ks)
  <2>1. k \in ks /\ Len(path) <= Len(k)
    BY <1>1, <1>2, ChosenIs
  <2>2. Len(k) \in Nat /\ Len(k) <= Len(path) /\ k = SubSeq(path, 1, Len(k))
    BY <1>1, <2>1, MatchingIs
  <2> HIDE DEF k
  <2>3. Len(k) = Len(path)
    <3>1. Len(k) \in Nat /\ Len(path) \in Nat /\ Len(k) <= Len(path) /\ Len(path) <= Len(k)
      BY <1>1, <2>1, <2>2
    <3> QED BY <3>1
  <2>4. k = path
    BY <1>1, <2>2, <2>3
  <2> QED BY <2>4 DEF k
<1>4. Rest(path, path) = <<>>
  BY <1>1 DEF Rest
<1>5. f[1] = found
  <2>1. f[0 + 1] = Turn(f[0])
    OBVIOUS
  <2>2. Turn(Start(path, c)) = Into(Start(path, c), path)
    BY <1>1, <1>2, <1>3 DEF Turn, Start
  <2> QED BY <1>4, <2>1, <2>2 DEF Into, Start
<1>6. Turn(found) = found
  BY DEF Turn, Start
<1> DEFINE T == {n \in Nat : n + 1 <= m => f[n + 1] = found}
<1> HIDE DEF found
<1>7. 0 \in T
  BY <1>5
<1>8. ASSUME NEW n \in T PROVE n + 1 \in T
  <2> SUFFICES ASSUME n + 2 <= m PROVE f[n + 2] = found
    BY <1>8
  <2>1. n \in Nat /\ n + 1 \in 0..(m - 1) /\ (n + 1) + 1 = n + 2 /\ f[n + 1] = found
    BY <1>8
  <2> QED BY <1>6, <2>1
<1>9. T = Nat
  <2> HIDE DEF T
  <2>1. T \in SUBSET Nat
    BY DEF T
  <2> QED BY <1>7, <1>8, <2>1, Induction
<1>10. m - 1 \in T
  <2> HIDE DEF T
  <2> QED BY <1>9
<1> QED BY <1>10 DEF found, Start

(* The text of a value is a sequence of numbers. *)
LEMMA TextIs == ASSUME NEW v \in Plains \cup Lists PROVE Text(v) \in Seq(Nat)
<1>1. CASE v = Null
  BY <1>1 DEF Null, Text
<1>2. CASE v \in [kind : {"num"}, n : 0..9]
  BY <1>2 DEF Text
<1>3. CASE v \in [kind : {"bool"}, b : BOOLEAN]
  BY <1>3 DEF Text
<1>4. CASE v \in [kind : {"str"}, s : Seq(Nat)]
  BY <1>4 DEF Text
<1>5. CASE v \in Lists
  BY <1>5 DEF Lists, Text
<1> QED BY <1>1, <1>2, <1>3, <1>4, <1>5 DEF Plains

(* What two texts one after the other are. *)
LEMMA FlattenTwo == ASSUME NEW S, NEW s \in Seq(S) PROVE FlattenSeq(<<s, s>>) = s \o s
<1> DEFINE Flattens(f) == f = [i \in 1..2 |-> IF i = 1 THEN <<s, s>>[i] ELSE f[i - 1] \o <<s, s>>[i]]
<1>1. FlattenSeq(<<s, s>>) = (CHOOSE f : Flattens(f))[2]
  BY DEF FlattenSeq
<1>2. Flattens([i \in 1..2 |-> IF i = 1 THEN s ELSE s \o s])
  OBVIOUS
<1>3. \A f : Flattens(f) => f[2] = s \o s
  <2> SUFFICES ASSUME NEW f, Flattens(f) PROVE f[2] = s \o s
    OBVIOUS
  <2>1. \A i \in 1..2 : f[i] = IF i = 1 THEN <<s, s>>[i] ELSE f[i - 1] \o <<s, s>>[i]
    <3> DEFINE F(i) == IF i = 1 THEN <<s, s>>[i] ELSE f[i - 1] \o <<s, s>>[i]
    <3>1. f = [i \in 1..2 |-> F(i)]
      OBVIOUS
    <3> HIDE DEF F
    <3>2. \A i \in 1..2 : f[i] = F(i)
      BY <3>1
    <3> QED BY <3>2 DEF F
  <2> QED BY <2>1
<1> HIDE DEF Flattens
<1> QED BY <1>1, <1>2, <1>3

LEMMA TwiceIs ==
    ASSUME NEW s \in Seq(Nat), NEW t \in Seq(Nat), Len(t) = 2
    PROVE  s \o s = t \o t <=> s = t
<1>1. Len(s) \in Nat /\ Len(s \o s) = Len(s) + Len(s) /\ Len(t \o t) = Len(t) + Len(t)
  <2>1. Len(s) \in Nat
    OBVIOUS
  <2>2. Len(s \o s) = Len(s) + Len(s)
    BY ConcatProperties, Zenon
  <2>3. Len(t \o t) = Len(t) + Len(t)
    BY ConcatProperties, Zenon
  <2> QED BY <2>1, <2>2, <2>3
<1>2. ASSUME s \o s = t \o t PROVE Len(s) = 2
  <2>1. Len(s) + Len(s) = 4
    BY <1>1, <1>2
  <2> HIDE <1>2
  <2> QED BY <1>1, <2>1
<1>3. Len(s) = 2 => \A i \in 1..2 : (s \o s)[i] = s[i] /\ (t \o t)[i] = t[i]
  BY <1>1, ConcatProperties
<1>4. (Len(s) = 2 /\ \A i \in 1..2 : s[i] = t[i]) => s = t
  BY SeqEqual
<1> QED BY <1>2, <1>3, <1>4

LEMMA RenderTwice ==
    ASSUME NEW path \in Key, NEW c, Resolve(path, c) \in Things \cup Leaf
    PROVE  LET found == Resolve(path, c) IN
           Render(<<Template(path), Template(path)>>, c).is.s = Unresolved(path) \o Unresolved(path) <=>
              found = Missing \/ (~IsDict(found) /\ Text(found.is) = Unresolved(path))
<1> DEFINE t == Template(path)
           parts == <<t, t>>
           found == Resolve(path, c)
           u == Unresolved(path)
           p == Put(t, c)
<1>1. u \in Seq(Nat) /\ Len(u) = 2
  BY DEF Unresolved, Key
<1>2. p = IF found = Missing THEN u ELSE IF IsDict(found) THEN <<26>> ELSE Text(found.is)
  BY DEF Put, Template
<1>3. p \in Seq(Nat)
  <2>1. ASSUME ~IsDict(found) PROVE Text(found.is) \in Seq(Nat)
    <3>1. found \in Leaf
      BY <2>1, CurrentIs
    <3> QED BY <3>1, TextIs DEF Leaf
  <2>2. <<26>> \in Seq(Nat)
    OBVIOUS
  <2> HIDE DEF p, found, u
  <2> QED BY <1>1, <1>2, <2>1, <2>2
<1>4. Render(parts, c).is.s = p \o p
  <2>1. [i \in DOMAIN parts |-> Put(parts[i], c)] = <<p, p>>
    OBVIOUS
  <2>2. Render(parts, c) = [is |-> Str(FlattenSeq(<<p, p>>))]
    BY <2>1 DEF Render
  <2>3. FlattenSeq(<<p, p>>) = p \o p
    BY <1>3, FlattenTwo
  <2> DEFINE r == Render(parts, c)
             q == p \o p
  <2>4. r = [is |-> Str(q)]
    BY <2>2, <2>3
  <2> HIDE DEF r, q
  <2>5. r.is.s = q
    BY <2>4 DEF Str
  <2> QED BY <2>5 DEF r, q
<1> HIDE DEF p, found, u
<1>5. p \o p = u \o u <=> p = u
  BY <1>1, <1>3, TwiceIs
<1>6. p = u <=> found = Missing \/ (~IsDict(found) /\ Text(found.is) = u)
  <2>1. <<26>> # u
    BY <1>1
  <2> QED BY <1>2, <2>1
<1> QED BY <1>4, <1>5, <1>6 DEF found, u

(* What is found is a value the path may mean. *)
LEMMA Found ==
    ASSUME NEW path \in Key, NEW c \in Things
    PROVE  LET found == Resolve(path, c) IN
           /\ found \in Things \cup Leaf
           /\ found \in Meanings(path, c) \cup {Missing, Attribute}
           /\ Clear(path, c) /\ Meanings(path, c) # {} => found \in Meanings(path, c)
           /\ IsDict(c) /\ path \in DOMAIN c.at => found = c.at[path]
<1>1. PICK f, g :
              /\ Len(path) \in Nat \ {0}
              /\ Resolve(path, c) = f[Len(path)].current /\ Places(path, c) = g
              /\ f[0] = Start(path, c) /\ g[0] = {Start(path, c)}
              /\ \A n \in 0..(Len(path) - 1) : f[n + 1] = Turn(f[n]) /\ g[n + 1] = UNION {Ways(p) : p \in g[n]}
  BY WalkIs
<1> DEFINE m == Len(path)
           start == Start(path, c)
<1>2. m \in Nat \ {0} /\ m \in Nat /\ m \in 0..m /\ path \in Seq(Words) /\ Len(path) = m
  BY <1>1 DEF Key
<1>3. /\ f[0] = start /\ g[0] = {start}
      /\ \A n \in 0..(m - 1) : f[n + 1] = Turn(f[n]) /\ g[n + 1] = UNION {Ways(p) : p \in g[n]}
  BY <1>1
<1>4. Places(path, c) = g /\ Resolve(path, c) = f[m].current
  BY <1>1
<1>5. start = Start(path, c)
  OBVIOUS
<1> HIDE DEF m, start
<1>6. \A n \in 0..(m - 1) : f[n + 1] = Turn(f[n])
  BY <1>3
<1>7. (\A n \in 0..m : f[n] \in Spot) /\ f[m] \in Spot
  BY <1>2, <1>3, <1>5, <1>6, WalkEnds
<1>8. Meanings(path, c) = {p.current : p \in g[m]}
  BY <1>2, <1>4 DEF Meanings
<1>9. f[m] \in g[m] \/ f[m].current \in {Missing, Attribute}
  BY <1>2, <1>3, <1>7, WalkIsAWay
<1>10. ASSUME Clear(path, c), Meanings(path, c) # {} PROVE f[m].current \in Meanings(path, c)
  <2>1. \A n \in 0..m : \A p \in g[n] :
          IsDict(p.current) => \A j, k \in Matching(p.rest, p.current) : j = k
    BY <1>2, <1>4, <1>10 DEF Clear
  <2>2. \A n \in 0..m : g[n] \subseteq {f[n]}
    BY <1>2, <1>3, <1>7, <2>1, ClearWalk
  <2>3. g[m] \subseteq {f[m]}
    BY <1>2, <2>2
  <2> QED BY <1>8, <1>10, <2>3
<1>11. ASSUME IsDict(c), path \in DOMAIN c.at PROVE f[m].current = c.at[path]
  <2>1. f[0] = Start(path, c) /\ m # 0
    BY <1>2, <1>3, <1>5
  <2> QED BY <1>2, <1>6, <1>11, <2>1, WholeKey, ZenonT(30)
<1> QED BY <1>4, <1>7, <1>8, <1>9, <1>10, <1>11 DEF Spot

(* For any contexts, with keys of any number of words, and any path: what    *)
(* replaces a template is a value the path may mean or an attribute, the one *)
(* of the whole key where there is one, and what is left in the text is what *)
(* was not found.                                                            *)
THEOREM PathsAreFollowed == FindsTheValue
<1> SUFFICES ASSUME asked \in Lookups PROVE FindsTheValue
  BY DEF FindsTheValue
<1> DEFINE path == asked.path
           c == asked.context
           found == Render(<<Template(path)>>, c)
<1>1. path \in Key /\ c \in Things
  BY ContextsAssumption DEF Lookups
<1> HIDE DEF path, c
<1>2. found = Resolve(path, c)
  BY DEF Render, Template
<1> HIDE DEF found
<1>3. /\ found \in Things \cup Leaf
      /\ found \in Meanings(path, c) \cup {Missing, Attribute}
      /\ Clear(path, c) /\ Meanings(path, c) # {} => found \in Meanings(path, c)
      /\ IsDict(c) /\ path \in DOMAIN c.at => found = c.at[path]
  BY <1>1, <1>2, Found
<1>4. LET twice == Render(<<Template(path), Template(path)>>, c) IN
      twice.is.s = Unresolved(path) \o Unresolved(path) <=>
         found = Missing \/ (~IsDict(found) /\ Text(found.is) = Unresolved(path))
  BY <1>1, <1>2, <1>3, RenderTwice
<1> QED BY <1>3, <1>4 DEF FindsTheValue, found, path, c

-----------------------------------------------------------------------------
(* Comparisons.                                                              *)

(* Where two sequences part is one place, whichever of them comes first. *)
Part(m, n, alike, k) ==
    /\ k \in Nat /\ k <= m /\ k <= n /\ 1..k \subseteq alike
    /\ k = m \/ k = n \/ k + 1 \notin alike

LEMMA PartExists == ASSUME NEW m \in Nat, NEW n \in Nat, NEW alike PROVE \E k : Part(m, n, alike, k)
<1> DEFINE U == {j \in Nat : j = m \/ j = n \/ j + 1 \notin alike}
<1>1. U \in SUBSET Nat /\ m \in U /\ n \in U
  OBVIOUS
<1>2. PICK k \in U : \A j \in U : k <= j
  <2> HIDE DEF U
  <2> QED BY <1>1, LeastOf
<1>3. k \in Nat /\ k <= m /\ k <= n /\ (k = m \/ k = n \/ k + 1 \notin alike)
  BY <1>1, <1>2
<1>4. ASSUME NEW i \in 1..k PROVE i \in alike
  <2>1. i - 1 \in Nat /\ ~(k <= i - 1) /\ (i - 1) + 1 = i
    BY <1>3, <1>4
  <2> QED BY <1>2, <2>1
<1> QED BY <1>3, <1>4 DEF Part

LEMMA OnePart ==
    ASSUME NEW m \in Nat, NEW n \in Nat, NEW alike, NEW j, NEW k, Part(m, n, alike, j), Part(m, n, alike, k)
    PROVE  j = k
<1>1. j \in Nat /\ k \in Nat
  BY DEF Part
<1>2. ~(j < k)
  <2> SUFFICES ASSUME j < k PROVE FALSE
    OBVIOUS
  <2>1. j + 1 \in 1..k /\ j # m /\ j # n
    BY <1>1 DEF Part
  <2> QED BY <2>1 DEF Part
<1>3. ~(k < j)
  <2> SUFFICES ASSUME k < j PROVE FALSE
    OBVIOUS
  <2>1. k + 1 \in 1..j /\ k # m /\ k # n
    BY <1>1 DEF Part
  <2> QED BY <2>1 DEF Part
<1> QED BY <1>1, <1>2, <1>3

LEMMA AgreeIs ==
    ASSUME NEW s, NEW t, Len(s) \in Nat, Len(t) \in Nat, NEW alike
    PROVE  /\ Part(Len(s), Len(t), alike, Agree(s, t, alike))
           /\ Agree(t, s, alike) = Agree(s, t, alike)
<1> DEFINE P(k, a, b) == /\ k <= b /\ 1..k \subseteq alike
                         /\ k = a \/ k = b \/ k + 1 \notin alike
           m == Len(s)
           n == Len(t)
<1>0. Agree(s, t, alike) = (CHOOSE k \in 0..m : P(k, m, n)) /\ Agree(t, s, alike) = CHOOSE k \in 0..n : P(k, n, m)
  BY DEF Agree
<1>m. m \in Nat /\ n \in Nat
  OBVIOUS
<1> HIDE DEF m, n
<1>1. PICK k : Part(m, n, alike, k)
  BY <1>m, PartExists
<1>2. k \in 0..m /\ P(k, m, n) /\ k \in 0..n /\ P(k, n, m)
  BY <1>m, <1>1 DEF Part
<1>3. Agree(s, t, alike) \in 0..m /\ P(Agree(s, t, alike), m, n)
  <2> HIDE DEF P
  <2> QED BY <1>0, <1>2
<1>4. Agree(t, s, alike) \in 0..n /\ P(Agree(t, s, alike), n, m)
  <2> HIDE DEF P
  <2> QED BY <1>0, <1>2
<1>5. Part(m, n, alike, Agree(s, t, alike)) /\ Part(m, n, alike, Agree(t, s, alike))
  BY <1>m, <1>3, <1>4 DEF Part
<1> QED BY <1>m, <1>5, OnePart DEF m, n

(* Of two texts one is less, or they are the same. *)
OnlyOne(a, b, c) == (a \/ b \/ c) /\ ~(a /\ b) /\ ~(a /\ c) /\ ~(b /\ c)

LEMMA TextsCompare ==
    ASSUME NEW s \in Seq(Nat), NEW t \in Seq(Nat)
    PROVE  OnlyOne(LessText(s, t), s = t, LessText(t, s))
<1> DEFINE A == {i \in Both(s, t) : s[i] = t[i]}
           k == Agree(s, t, A)
           m == Len(s)
           n == Len(t)
<1>1. {i \in Both(t, s) : t[i] = s[i]} = A
  BY DEF Both
<1>2. m \in Nat /\ n \in Nat /\ DOMAIN s = 1..m /\ DOMAIN t = 1..n
      /\ (\A i \in 1..m : s[i] \in Nat) /\ (\A i \in 1..n : t[i] \in Nat)
  OBVIOUS
<1>3. Part(m, n, A, k) /\ Agree(t, s, A) = k
  BY <1>2, AgreeIs
<1>4. /\ LessText(s, t) <=> k < n /\ (k = m \/ k + 1 \in {i \in Both(s, t) : s[i] < t[i]})
      /\ LessText(t, s) <=> k < m /\ (k = n \/ k + 1 \in {i \in Both(t, s) : t[i] < s[i]})
  BY <1>1, <1>3 DEF LessText, Earlier
<1>5. s = t <=> k = m /\ k = n
  <2>1. ASSUME s = t PROVE k = m /\ k = n
    <3>1. k # m => k + 1 \in A
      BY <1>2, <1>3, <2>1 DEF Part, Both
    <3> QED BY <1>2, <1>3, <2>1, <3>1 DEF Part
  <2>2. ASSUME k = m, k = n PROVE s = t
    <3>1. m = n /\ \A i \in 1..m : s[i] = t[i]
      BY <1>3, <2>2 DEF Part
    <3> QED BY <3>1, SeqEqual
  <2> QED BY <2>1, <2>2
<1> HIDE DEF k, m, n, A
<1>6. CASE k < m /\ k < n
  <2>1. k + 1 \in 1..m /\ k + 1 \in 1..n /\ k + 1 \in Both(s, t) /\ k + 1 \notin A /\ Both(s, t) = Both(t, s)
    BY <1>2, <1>3, <1>6 DEF Part, Both
  <2>2. s[k + 1] # t[k + 1] /\ s[k + 1] \in Nat /\ t[k + 1] \in Nat
    BY <1>2, <2>1 DEF A
  <2>3. k # m /\ k # n /\ k \in Nat
    BY <1>2, <1>3, <1>6 DEF Part
  <2>4. (LessText(s, t) <=> s[k + 1] < t[k + 1]) /\ (LessText(t, s) <=> t[k + 1] < s[k + 1])
    BY <1>4, <1>6, <2>1, <2>3
  <2> QED BY <1>5, <2>2, <2>3, <2>4 DEF OnlyOne
<1>7. CASE ~(k < m /\ k < n)
  BY <1>2, <1>3, <1>4, <1>5, <1>7 DEF Part, OnlyOne
<1> QED BY <1>6, <1>7

(* What float() reads is a number. *)
Reads(f, s, m) == f = [i \in 0..m |-> IF i = 0 THEN 0 ELSE 10 * f[i - 1] + s[i]]

LEMMA ReadsExist == ASSUME NEW s, NEW n \in Nat PROVE \E f : Reads(f, s, n)
<1> DEFINE T == {m \in Nat : \E f : Reads(f, s, m)}
<1>1. 0 \in T
  <2>1. Reads([i \in 0..0 |-> 0], s, 0)
    BY DEF Reads
  <2> QED BY <2>1
<1>2. ASSUME NEW m \in T PROVE m + 1 \in T
  <2>1. PICK f : Reads(f, s, m)
    BY <1>2
  <2> DEFINE Read(k, i) == 10 * k + s[i]
             g == [i \in 0..(m + 1) |-> IF i = m + 1 THEN Read(f[m], m + 1) ELSE f[i]]
  <2>2. \A i \in 0..m : f[i] = IF i = 0 THEN 0 ELSE Read(f[i - 1], i)
    BY <2>1 DEF Reads
  <2> HIDE DEF Read
  <2>3. \A i \in 0..(m + 1) : g[i] = IF i = 0 THEN 0 ELSE Read(g[i - 1], i)
    <3>1. m \in Nat
      BY <1>2
    <3> SUFFICES ASSUME NEW i \in 0..(m + 1) PROVE g[i] = IF i = 0 THEN 0 ELSE Read(g[i - 1], i)
      OBVIOUS
    <3>2. CASE i \in 0..m
      <4>1. g[i] = f[i] /\ (i # 0 => i - 1 \in 0..m /\ g[i - 1] = f[i - 1])
        BY <3>1, <3>2
      <4> HIDE DEF g
      <4> QED BY <2>2, <3>2, <4>1
    <3>3. CASE i = m + 1
      <4>1. g[i] = Read(f[m], m + 1) /\ g[m] = f[m] /\ i # 0 /\ i - 1 = m
        BY <3>1, <3>3
      <4> HIDE DEF g
      <4> QED BY <3>3, <4>1
    <3> QED BY <3>1, <3>2, <3>3
  <2>4. Reads(g, s, m + 1)
    BY <2>3 DEF Reads, Read
  <2> QED BY <2>4
<1>3. T = Nat
  <2> HIDE DEF T
  <2>1. T \in SUBSET Nat
    BY DEF T
  <2> QED BY <1>1, <1>2, <2>1, Induction
<1> QED BY <1>3

LEMMA FloatIs == ASSUME NEW s \in Seq(Nat) PROVE \E n \in Nat : Float(s) = Num(n)
<1> DEFINE m == Len(s)
           f == CHOOSE g : Reads(g, s, m)
<1>1. m \in Nat
  OBVIOUS
<1>2. Reads(f, s, m)
  BY <1>1, ReadsExist
<1>3. Float(s) = Num(f[m])
  BY DEF Float, Reads
<1> HIDE DEF f
<1>4. \A i \in 0..m : f[i] = IF i = 0 THEN 0 ELSE 10 * f[i - 1] + s[i]
  BY <1>2 DEF Reads
<1> DEFINE T == {n \in Nat : n <= m => f[n] \in Nat}
<1>5. 0 \in T
  BY <1>1, <1>4
<1>6. ASSUME NEW n \in T PROVE n + 1 \in T
  <2> SUFFICES ASSUME n + 1 <= m PROVE f[n + 1] \in Nat
    BY <1>6
  <2>1. n \in Nat /\ n + 1 \in 0..m /\ n + 1 # 0 /\ (n + 1) - 1 = n /\ f[n] \in Nat /\ s[n + 1] \in Nat
    BY <1>1, <1>6
  <2>2. f[n + 1] = 10 * f[n] + s[n + 1]
    BY <1>4, <2>1
  <2> QED BY <2>1, <2>2
<1>7. T = Nat
  <2> HIDE DEF T
  <2>1. T \in SUBSET Nat
    BY DEF T
  <2> QED BY <1>5, <1>6, <2>1, Induction
<1> HIDE DEF m
<1> QED BY <1>1, <1>3, <1>7

(* The operands that are no lists, as they are or read as numbers. *)
Scalars == Plains \cup {Num(n) : n \in Nat}

LEMMA ScalarIs ==
    ASSUME NEW v \in Scalars
    PROVE  /\ v.kind \in {"null", "num", "bool", "str"}
           /\ (Counts(v) => Count(v) \in Nat)
           /\ (v.kind = "str" => v.s \in Seq(Nat) /\ v = Str(v.s))
<1>1. CASE v = Null
  BY <1>1 DEF Null, Counts
<1>2. CASE v \in [kind : {"num"}, n : 0..9]
  BY <1>2 DEF Counts, Count
<1>3. CASE v \in [kind : {"bool"}, b : BOOLEAN]
  BY <1>3 DEF Counts, Count
<1>4. CASE v \in [kind : {"str"}, s : Seq(Nat)]
  BY <1>4 DEF Counts, Str
<1>5. CASE v \in {Num(n) : n \in Nat}
  BY <1>5 DEF Num, Counts, Count
<1> QED BY <1>1, <1>2, <1>3, <1>4, <1>5 DEF Scalars, Plains

LEMMA PlainSwaps ==
    ASSUME NEW v, NEW w
    PROVE  (SamePlain(v, w) <=> SamePlain(w, v)) /\ (Comparable(v, w) <=> Comparable(w, v))
BY DEF SamePlain, Comparable

LEMMA PlainsCompare ==
    ASSUME NEW v \in Scalars, NEW w \in Scalars, Comparable(v, w)
    PROVE  OnlyOne(LessPlain(v, w), SamePlain(v, w), LessPlain(w, v))
<1>1. CASE Counts(v) /\ Counts(w)
  <2>1. Count(v) \in Nat /\ Count(w) \in Nat
    BY <1>1, ScalarIs
  <2> QED BY <1>1, <2>1 DEF LessPlain, SamePlain, OnlyOne
<1>2. CASE v.kind = "str" /\ w.kind = "str"
  <2>1. /\ v.s \in Seq(Nat) /\ v = Str(v.s) /\ w.s \in Seq(Nat) /\ w = Str(w.s)
        /\ ~Counts(v) /\ ~Counts(w)
    BY <1>2, ScalarIs DEF Counts
  <2>2. OnlyOne(LessText(v.s, w.s), v.s = w.s, LessText(w.s, v.s))
    BY <2>1, TextsCompare
  <2>3. v.s = w.s <=> v = w
    BY <2>1
  <2> QED BY <2>1, <2>2, <2>3 DEF LessPlain, SamePlain, OnlyOne
<1> QED BY <1>1, <1>2 DEF Comparable

LEMMA ListsSwap ==
    ASSUME NEW l, NEW m
    PROVE  AlikeIn(m, l) = AlikeIn(l, m)
BY PlainSwaps DEF AlikeIn, Both

LEMMA ListsCompare ==
    ASSUME NEW v \in Lists, NEW w \in Lists
    PROVE  /\ (Same(v, w) <=> Same(w, v)) /\ (Ordered(v, w) <=> Ordered(w, v))
           /\ Ordered(v, w) => OnlyOne(Less(v, w), Same(v, w), Less(w, v))
<1> DEFINE A == AlikeIn(v.l, w.l)
           k == Agree(v.l, w.l, A)
           m == Len(v.l)
           n == Len(w.l)
<1>1. v.l \in Seq(Plains) /\ w.l \in Seq(Plains) /\ v.kind = "list" /\ w.kind = "list"
  BY DEF Lists
<1>2. m \in Nat /\ n \in Nat /\ DOMAIN v.l = 1..m /\ DOMAIN w.l = 1..n
      /\ (\A i \in 1..m : v.l[i] \in Plains) /\ (\A i \in 1..n : w.l[i] \in Plains)
  BY <1>1
<1>3. Part(m, n, A, k) /\ Agree(w.l, v.l, A) = k /\ AlikeIn(w.l, v.l) = A
  BY <1>2, AgreeIs, ListsSwap
<1>4. /\ Less(v, w) <=> k < n /\ (k = m \/ k + 1 \in LessIn(v.l, w.l))
      /\ Less(w, v) <=> k < m /\ (k = n \/ k + 1 \in LessIn(w.l, v.l))
  BY <1>1, <1>3 DEF Less, BothLists, Earlier
<1>5. /\ Ordered(v, w) <=> k = m \/ k = n \/ Comparable(v.l[k + 1], w.l[k + 1])
      /\ Ordered(w, v) <=> k = m \/ k = n \/ Comparable(w.l[k + 1], v.l[k + 1])
  BY <1>1, <1>3 DEF Ordered, BothLists, Comparable, Counts
<1>6. /\ Same(v, w) <=> m = n /\ 1..m \subseteq A
      /\ Same(w, v) <=> m = n /\ 1..n \subseteq A
  BY <1>1, <1>2, <1>3 DEF Same, BothLists
<1>7. A = {i \in 1..m : i \in 1..n /\ SamePlain(v.l[i], w.l[i])}
  BY <1>2 DEF AlikeIn, Both
<1>8. /\ LessIn(v.l, w.l) = {i \in 1..m : i \in 1..n /\ Comparable(v.l[i], w.l[i]) /\ LessPlain(v.l[i], w.l[i])}
      /\ LessIn(w.l, v.l) = {i \in 1..m : i \in 1..n /\ Comparable(w.l[i], v.l[i]) /\ LessPlain(w.l[i], v.l[i])}
  BY <1>2 DEF LessIn, Both
<1> HIDE DEF A, k, m, n
<1>9. Same(v, w) <=> k = m /\ k = n
  <2>1. k \in Nat /\ k <= m /\ k <= n /\ 1..k \subseteq A /\ (k = m \/ k = n \/ k + 1 \notin A)
    BY <1>3 DEF Part
  <2>2. ASSUME m = n, 1..m \subseteq A PROVE k = m
    <3>1. k # m => k + 1 \in 1..m
      BY <1>2, <2>1
    <3> QED BY <2>1, <2>2, <3>1
  <2> QED BY <1>6, <2>1, <2>2
<1>10. (Same(v, w) <=> Same(w, v)) /\ (Ordered(v, w) <=> Ordered(w, v))
  BY <1>5, <1>6, PlainSwaps
<1>11. ASSUME Ordered(v, w), k < m, k < n PROVE OnlyOne(Less(v, w), Same(v, w), Less(w, v))
  <2> DEFINE x == v.l[k + 1]
             y == w.l[k + 1]
  <2>1. k \in Nat /\ k # m /\ k # n /\ k + 1 \in 1..m /\ k + 1 \in 1..n /\ k + 1 \notin A
    BY <1>2, <1>3, <1>11 DEF Part
  <2>2. x \in Scalars /\ y \in Scalars /\ ~SamePlain(x, y)
    BY <1>2, <1>7, <2>1 DEF Scalars
  <2>3. Comparable(x, y) /\ Comparable(y, x)
    BY <1>5, <1>11, <2>1, PlainSwaps
  <2>4. OnlyOne(LessPlain(x, y), SamePlain(x, y), LessPlain(y, x))
    BY <2>2, <2>3, PlainsCompare
  <2>5. (Less(v, w) <=> LessPlain(x, y)) /\ (Less(w, v) <=> LessPlain(y, x))
    BY <1>4, <1>8, <1>11, <2>1, <2>3
  <2> QED BY <1>9, <2>1, <2>2, <2>4, <2>5 DEF OnlyOne
<1>12. ASSUME ~(k < m /\ k < n) PROVE OnlyOne(Less(v, w), Same(v, w), Less(w, v))
  BY <1>2, <1>3, <1>4, <1>9, <1>12 DEF Part, OnlyOne
<1> QED BY <1>10, <1>11, <1>12

LEMMA OperandsCompare ==
    ASSUME NEW v \in Scalars \cup Lists, NEW w \in Scalars \cup Lists
    PROVE  /\ (Same(v, w) <=> Same(w, v)) /\ (Ordered(v, w) <=> Ordered(w, v))
           /\ Ordered(v, w) => OnlyOne(Less(v, w), Same(v, w), Less(w, v))
<1>1. CASE v \in Lists /\ w \in Lists
  BY <1>1, ListsCompare
<1>2. CASE ~(v \in Lists /\ w \in Lists)
  <2>1. (v \in Scalars => v.kind # "list") /\ (w \in Scalars => w.kind # "list")
    BY ScalarIs
  <2>2. (v \in Lists => v.kind = "list") /\ (w \in Lists => w.kind = "list")
    BY DEF Lists
  <2>3. ~BothLists(v, w) /\ ~BothLists(w, v)
    BY <1>2, <2>1, <2>2 DEF BothLists
  <2>4. Ordered(v, w) => v \in Scalars /\ w \in Scalars /\ Comparable(v, w)
    BY <2>2, <2>3 DEF Ordered, Comparable, Counts
  <2> QED BY <2>3, <2>4, PlainSwaps, PlainsCompare DEF Same, Ordered, Less
<1> QED BY <1>1, <1>2

(* What reads as a number is converted into one, and what does not stays. *)
LEMMA SpellsIs ==
    ASSUME NEW v \in Plains \cup Lists
    PROVE  IsNumber(v) <=> Spells(Text(v))
<1>1. CASE v = Null
  BY <1>1 DEF Null, IsNumber, Spells, Text
<1>2. CASE v \in [kind : {"num"}, n : 0..9]
  <2>1. Text(v) = <<v.n>> /\ v.n \in 0..9 /\ v.kind = "num"
    BY <1>2 DEF Text
  <2> QED BY <2>1 DEF IsNumber, Spells
<1>3. CASE v \in [kind : {"bool"}, b : BOOLEAN]
  BY <1>3 DEF IsNumber, Spells, Text
<1>4. CASE v \in [kind : {"str"}, s : Seq(Nat)]
  BY <1>4 DEF IsNumber, Text
<1>5. CASE v \in Lists
  BY <1>5 DEF Lists, IsNumber, Spells, Text
<1> QED BY <1>1, <1>2, <1>3, <1>4, <1>5 DEF Plains

LEMMA ConvertedIs ==
    ASSUME NEW v \in Plains \cup Lists, NEW w \in Plains \cup Lists
    PROVE  LET x == Converted(v, w)[1]
               y == Converted(v, w)[2] IN
           /\ x \in Scalars \cup Lists /\ y \in Scalars \cup Lists
           /\ Alike(v, w) => Converted(w, v)[1] = y /\ Converted(w, v)[2] = x
           /\ IsNumber(v) /\ IsNumber(w) =>
                 /\ x = Float(Text(v)) /\ x.kind = "num" /\ x.n \in Nat
                 /\ y = Float(Text(w)) /\ y.kind = "num" /\ y.n \in Nat
<1>1. /\ \E n \in Nat : Float(Text(v)) = Num(n)
      /\ \E n \in Nat : Float(Text(w)) = Num(n)
  BY TextIs, FloatIs
<1>2. v \in Scalars \cup Lists /\ w \in Scalars \cup Lists
      /\ Float(Text(v)) \in Scalars /\ Float(Text(w)) \in Scalars
  BY <1>1 DEF Scalars
<1>3. (IsNumber(v) <=> Spells(Text(v))) /\ (IsNumber(w) <=> Spells(Text(w)))
  BY SpellsIs
<1>4. /\ Converted(v, w)[1] = IF IsNumber(v) THEN Float(Text(v)) ELSE v
      /\ Converted(v, w)[2] = IF IsNumber(v) /\ IsNumber(w) THEN Float(Text(w)) ELSE w
      /\ Converted(w, v)[1] = IF IsNumber(w) THEN Float(Text(w)) ELSE w
      /\ Converted(w, v)[2] = IF IsNumber(w) /\ IsNumber(v) THEN Float(Text(v)) ELSE v
  BY <1>3 DEF Converted
<1>5. Alike(v, w) => (IsNumber(v) <=> IsNumber(w))
  BY DEF Alike, IsNumber
<1>6. /\ Float(Text(v)).kind = "num" /\ Float(Text(v)).n \in Nat
      /\ Float(Text(w)).kind = "num" /\ Float(Text(w)).n \in Nat
  BY <1>1 DEF Num
<1> QED BY <1>2, <1>4, <1>5, <1>6

(* For any operands that are null, numbers, booleans, strings or lists of     *)
(* these, of any length: comparisons that do not raise order them, numbers as *)
(* numbers, and agree with their mirror images and negations.                 *)
THEOREM LikeIsComparedWithLike == ComparesLikeWithLike
<1> SUFFICES ASSUME asked \in Operands PROVE ComparesLikeWithLike
  BY DEF ComparesLikeWithLike
<1> DEFINE v == asked.left
           w == asked.right
           x == Converted(v, w)[1]
           y == Converted(v, w)[2]
<1>1. v \in Plains \cup Lists /\ w \in Plains \cup Lists
  BY ValuesAssumption DEF Operands
<1> HIDE DEF v, w
<1>2. /\ x \in Scalars \cup Lists /\ y \in Scalars \cup Lists
      /\ Alike(v, w) => Converted(w, v)[1] = y /\ Converted(w, v)[2] = x
      /\ IsNumber(v) /\ IsNumber(w) =>
            /\ x = Float(Text(v)) /\ x.kind = "num" /\ x.n \in Nat
            /\ y = Float(Text(w)) /\ y.kind = "num" /\ y.n \in Nat
  BY <1>1, ConvertedIs
<1> HIDE DEF x, y
<1>3. /\ (Same(x, y) <=> Same(y, x)) /\ (Ordered(x, y) <=> Ordered(y, x))
      /\ Ordered(x, y) => OnlyOne(Less(x, y), Same(x, y), Less(y, x))
  BY <1>2, OperandsCompare
<1>4. /\ Evaluate("==", v, w) = Verdict(Same(x, y)) /\ Evaluate("!=", v, w) = Verdict(~Same(x, y))
      /\ Evaluate("<", v, w) = IF Ordered(x, y) THEN Verdict(Less(x, y)) ELSE "raises"
      /\ Evaluate(">", v, w) = IF Ordered(x, y) THEN Verdict(Less(y, x)) ELSE "raises"
      /\ Evaluate("<=", v, w) = IF Ordered(x, y) THEN Verdict(~Less(y, x)) ELSE "raises"
  BY DEF Evaluate, Compare, Orders, x, y
<1>5. ASSUME IsNumber(v), IsNumber(w)
      PROVE  Evaluate(">", v, w) = Verdict(Float(Text(v)).n > Float(Text(w)).n)
  <2>1. x.kind = "num" /\ y.kind = "num" /\ x.n \in Nat /\ y.n \in Nat /\ x = Float(Text(v)) /\ y = Float(Text(w))
    BY <1>2, <1>5
  <2>2. Ordered(x, y) /\ (Less(y, x) <=> y.n < x.n)
    BY <2>1 DEF Ordered, Comparable, Counts, Less, BothLists, LessPlain, Count
  <2>3. y.n < x.n <=> x.n > y.n
    BY <2>1
  <2>4. Verdict(Less(y, x)) = Verdict(x.n > y.n)
    BY <2>2, <2>3 DEF Verdict
  <2> QED BY <1>4, <2>1, <2>2, <2>4
<1>6. ASSUME Alike(v, w)
      PROVE  /\ Evaluate("==", v, w) = Evaluate("==", w, v)
             /\ Evaluate("<", v, w) = Evaluate(">", w, v)
             /\ Evaluate("<=", v, w) = Evaluate(">=", w, v)
  <2>1. Converted(w, v)[1] = y /\ Converted(w, v)[2] = x
    BY <1>2, <1>6
  <2>2. /\ Evaluate("==", w, v) = Verdict(Same(y, x))
        /\ Evaluate(">", w, v) = IF Ordered(y, x) THEN Verdict(Less(x, y)) ELSE "raises"
        /\ Evaluate(">=", w, v) = IF Ordered(y, x) THEN Verdict(~Less(y, x)) ELSE "raises"
    BY <2>1 DEF Evaluate, Compare, Orders
  <2> QED BY <1>3, <1>4, <2>2 DEF Verdict
<1>7. ASSUME Evaluate("<", v, w) # "raises"
      PROVE  \E op \in {"<", "==", ">"} :
                \A o \in {"<", "==", ">"} : (Evaluate(o, v, w) = "yes") = (o = op)
  <2>1. Ordered(x, y)
    BY <1>4, <1>7
  <2>2. /\ (Evaluate("<", v, w) = "yes" <=> Less(x, y)) /\ (Evaluate("==", v, w) = "yes" <=> Same(x, y))
        /\ (Evaluate(">", v, w) = "yes" <=> Less(y, x))
    BY <1>4, <2>1 DEF Verdict
  <2>3. OnlyOne(Less(x, y), Same(x, y), Less(y, x))
    BY <1>3, <2>1
  <2>4. CASE Less(x, y)
    <3>1. \A o \in {"<", "==", ">"} : (Evaluate(o, v, w) = "yes") = (o = "<")
      BY <2>2, <2>3, <2>4 DEF OnlyOne
    <3> QED BY <3>1
  <2>5. CASE Same(x, y)
    <3>1. \A o \in {"<", "==", ">"} : (Evaluate(o, v, w) = "yes") = (o = "==")
      BY <2>2, <2>3, <2>5 DEF OnlyOne
    <3> QED BY <3>1
  <2>6. CASE Less(y, x)
    <3>1. \A o \in {"<", "==", ">"} : (Evaluate(o, v, w) = "yes") = (o = ">")
      BY <2>2, <2>3, <2>6 DEF OnlyOne
    <3> QED BY <3>1
  <2> QED BY <2>3, <2>4, <2>5, <2>6 DEF OnlyOne
<1>8. Evaluate("!=", v, w) # Evaluate("==", v, w)
  BY <1>4 DEF Verdict
<1>9. Evaluate("not_in", v, w) # Evaluate("in", v, w)
  BY DEF Evaluate, Verdict
<1>10. Evaluate("in", v, w) = Evaluate("contains", w, v)
  BY DEF Evaluate
<1> QED BY <1>5, <1>6, <1>7, <1>8, <1>9, <1>10 DEF ComparesLikeWithLike, v, w

=============================================================================

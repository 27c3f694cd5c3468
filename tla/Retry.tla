-------------------------------- MODULE Retry --------------------------------
(***************************************************************************)
(* execute_with_retry: one step calls a plugin until it answers, or until  *)
(* the retry policy of the step gives up.                                  *)
(*                                                                         *)
(* A call answers, answers with an error code (a soft error), raises, or   *)
(* is cancelled, after any time.  Time is counted in units of the clock.   *)
(*                                                                         *)
(* Definitions named Bug... are faults put in the place of the definition  *)
(* that follows them, to see that the properties notice.                   *)
(***************************************************************************)
EXTENDS Naturals, Sequences

CONSTANTS
    Codes,     \* error codes of the plugins
    Policies,  \* retry policies
    NoPolicy,  \* a step without retry
    MaxTime    \* bound: the clock

ASSUME CodesAssumption == "ok" \notin Codes /\ "raised" \notin Codes
ASSUME TimeAssumption == MaxTime \in Nat

Backoff == {"constant", "linear", "exponential"}
ASSUME PoliciesAssumption ==
    \A p \in Policies \ {NoPolicy} :
        /\ p.max \in Nat \ {0} /\ p.delay \in Nat \ {0} /\ p.cap \in Nat
        /\ p.backoff \in Backoff /\ p.codes \subseteq Codes

Time == 0..MaxTime
Answer == Codes \cup {"ok", "raised"}

VARIABLES
    policy,   \* retry_cfg
    pc,
    attempt,
    now, until,  \* the clock, and when the sleep is over
    calls     \* history: when each call began and ended, and its answer

vars == <<policy, pc, attempt, now, until, calls>>

Call == [began : Time, ended : Time, answer : Answer]

TypeOK ==
    /\ policy \in Policies
    /\ pc \in {"ready", "calling", "answered", "sleeping", "returned", "exhausted", "cancelled"}
    /\ attempt \in Nat \ {0}
    /\ now \in Time /\ (pc = "calling" => until \in Time)
    /\ calls \in Seq(Call)

Init ==
    /\ policy \in Policies
    /\ pc = "ready" /\ attempt = 1
    /\ now = 0 /\ until = 0
    /\ calls = <<>>

-----------------------------------------------------------------------------
MaxAttempts == IF policy = NoPolicy THEN 1 ELSE policy.max

(* 2 ** n. *)
TwoTo(n) == LET f[k \in 0..n] == IF k = 0 THEN 1 ELSE 2 * f[k - 1] IN f[n]

(* compute_delay. *)
Least(a, b) == IF a < b THEN a ELSE b
BugComputeDelay(n) == policy.delay
ComputeDelay(n) ==
    Least(CASE policy.backoff = "constant" -> policy.delay
            [] policy.backoff = "linear" -> policy.delay * n
            [] policy.backoff = "exponential" -> policy.delay * TwoTo(n - 1),
          policy.cap)

(* Exceptions are repeated whatever their kind, soft errors by their code. *)
Repeats(answer) == policy # NoPolicy /\ (policy.codes = {} \/ answer \notin Codes \ policy.codes)

LastAnswer == calls[Len(calls)].answer

BeginCall ==
    /\ pc = "ready" /\ pc' = "calling"
    /\ until' = now
    /\ UNCHANGED <<policy, attempt, now, calls>>

EndCall(answer) ==
    /\ pc = "calling" /\ pc' = "answered"
    /\ calls' = Append(calls, [began |-> until, ended |-> now, answer |-> answer])
    /\ UNCHANGED <<policy, attempt, now, until>>

Return ==
    /\ pc = "answered" /\ LastAnswer = "ok" /\ pc' = "returned"
    /\ UNCHANGED <<policy, attempt, now, until, calls>>

GiveUp ==
    /\ pc = "answered"
    /\ LastAnswer # "ok"
    /\ ~(Repeats(LastAnswer) /\ attempt < MaxAttempts)
    /\ pc' = "exhausted"
    /\ UNCHANGED <<policy, attempt, now, until, calls>>

Sleep ==
    /\ pc = "answered"
    /\ LastAnswer # "ok"
    /\ Repeats(LastAnswer) /\ attempt < MaxAttempts
    /\ pc' = "sleeping" /\ until' = now + ComputeDelay(attempt)
    /\ UNCHANGED <<policy, attempt, now, calls>>

Wake ==
    /\ pc = "sleeping" /\ now >= until
    /\ pc' = "ready" /\ attempt' = attempt + 1
    /\ UNCHANGED <<policy, now, until, calls>>

(* The timeout of the run or an unload, at an await. *)
Cancel ==
    /\ pc \in {"calling", "sleeping"} /\ pc' = "cancelled"
    /\ UNCHANGED <<policy, attempt, now, until, calls>>

Tick ==
    /\ pc \in {"calling", "sleeping"} /\ now < MaxTime /\ now' = now + 1
    /\ UNCHANGED <<policy, pc, attempt, until, calls>>

Over == pc \in {"returned", "exhausted", "cancelled"} /\ UNCHANGED vars

Next ==
    \/ BeginCall \/ (\E a \in Answer : EndCall(a)) \/ Return \/ GiveUp \/ Sleep \/ Wake
    \/ Cancel \/ Tick \/ Over

Spec == Init /\ [][Next]_vars

-----------------------------------------------------------------------------
(* Properties.                                                             *)

(* Nothing more is to be expected of the call. *)
Settled(answer) ==
    \/ answer = "ok" \/ policy = NoPolicy
    \/ answer \in Codes /\ policy.codes # {} /\ answer \notin policy.codes

(* No call follows an answer that settles the matter, there are at most as
   many as the policy allows, and the step fails only on an error that settles
   it or when there have been that many. *)
OnlyRetriesWhatItMay ==
    /\ Len(calls) <= MaxAttempts
    /\ \A i \in DOMAIN calls : i < Len(calls) => ~Settled(calls[i].answer)
    /\ pc = "returned" => LastAnswer = "ok"
    /\ pc = "exhausted" => LastAnswer # "ok" /\ (Len(calls) = MaxAttempts \/ Settled(LastAnswer))

(* What the policy promises of the pause after call i, from the one before:
   the same again, one more delay, or twice as long, up to the cap. *)
Promised(i) ==
    LET f[k \in 1..i] ==
          IF k = 1 THEN Least(policy.delay, policy.cap)
          ELSE Least(policy.cap, CASE policy.backoff = "constant" -> f[k - 1]
                                   [] policy.backoff = "linear" -> f[k - 1] + policy.delay
                                   [] policy.backoff = "exponential" -> 2 * f[k - 1])
    IN f[i]

PausesAreKept ==
    \A i \in DOMAIN calls : i < Len(calls) => calls[i + 1].began - calls[i].ended >= Promised(i)

(* A step is called again exactly as often and as soon as its policy allows,
   whatever mix of soft errors, exceptions and successes the calls end in. *)
RetriesFollowPolicy == OnlyRetriesWhatItMay /\ PausesAreKept

=============================================================================

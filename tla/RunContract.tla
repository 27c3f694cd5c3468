---------------------------- MODULE RunContract ----------------------------
(***************************************************************************)
(* What xflows promises about a run, with no queue, cache, worker, crash   *)
(* or copy in sight: its steps are done one after the other, and it is     *)
(* called a success only when they all are.                                *)
(*                                                                         *)
(* The promise is as weak as the code: a cancellation may be undone by the *)
(* execution it was aimed at, and a run that has ended may be started      *)
(* again.                                                                  *)
(***************************************************************************)
EXTENDS Naturals

CONSTANTS Runs, NSteps

VARIABLES
    status,     \* the status of each run, "none" before it exists
    done        \* the steps that have been done

vars == <<status, done>>

Become(r, s) == status' = [status EXCEPT ![r] = s]

Init ==
    /\ status = [r \in Runs |-> "none"]
    /\ done = [r \in Runs |-> {}]

Create(r) == status[r] = "none" /\ Become(r, "pending") /\ UNCHANGED done

(* The trigger, still busy with the run, has not seen it cancelled. *)
Revive(r) == status[r] = "cancelled" /\ Become(r, "pending") /\ UNCHANGED done

Start(r) == status[r] # "none" /\ Become(r, "running") /\ UNCHANGED done

(* The next step, or one that had been done already, is done. *)
DoStep(r) ==
    /\ status[r] \in {"running", "cancelled"}
    /\ \E s \in 1..NSteps :
          /\ 1..(s - 1) \subseteq done[r]
          /\ done' = [done EXCEPT ![r] = @ \cup {s}]
    /\ UNCHANGED status

Succeed(r) ==
    /\ status[r] \in {"running", "cancelled"}
    /\ done[r] = 1..NSteps
    /\ Become(r, "success") /\ UNCHANGED done

Fail(r) == status[r] \in {"running", "cancelled", "success"} /\ Become(r, "failed") /\ UNCHANGED done

Cancel(r) == status[r] # "none" /\ Become(r, "cancelled") /\ UNCHANGED done

Next == \E r \in Runs :
    Create(r) \/ Revive(r) \/ Start(r) \/ DoStep(r) \/ Succeed(r) \/ Fail(r) \/ Cancel(r)

Spec == Init /\ [][Next]_vars

(* What a caller may conclude from the status. *)
SuccessMeansDone == \A r \in Runs : status[r] = "success" => done[r] = 1..NSteps
=============================================================================

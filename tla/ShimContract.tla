---------------------------- MODULE ShimContract ----------------------------
(***************************************************************************)
(* What rawChild.Send promises to the HTTP handler, with no process, pipe  *)
(* or channel in sight: a call is executed by a backend at most once, and  *)
(* the handler is given either the answer of that execution or an error.   *)
(* An error says nothing about whether the call was executed.              *)
(***************************************************************************)
EXTENDS Naturals

CONSTANT Requests

VARIABLES status,     \* what the handler of each request knows
          executions \* how often a backend has executed each call

vars == <<status, executions>>

Init == /\ status = [r \in Requests |-> "idle"]
        /\ executions = [r \in Requests |-> 0]

Submit(r) == /\ status[r] = "idle"
             /\ status' = [status EXCEPT ![r] = "submitted"]
             /\ UNCHANGED executions

\* The caller may have given up already.
Execute(r) == /\ status[r] \in {"submitted", "failed"} /\ executions[r] = 0
              /\ executions' = [executions EXCEPT ![r] = 1]
              /\ UNCHANGED status

Answer(r) == /\ status[r] = "submitted" /\ executions[r] = 1
             /\ status' = [status EXCEPT ![r] = "answered"]
             /\ UNCHANGED executions

GiveUp(r) == /\ status[r] = "submitted"
             /\ status' = [status EXCEPT ![r] = "failed"]
             /\ UNCHANGED executions

Next == \E r \in Requests : Submit(r) \/ Execute(r) \/ Answer(r) \/ GiveUp(r)

Spec == Init /\ [][Next]_vars
=============================================================================

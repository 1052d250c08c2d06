----------------------------- MODULE PlanPromise -----------------------------
(***************************************************************************)
(* What an approved agent plan promises the person who approves it, with   *)
(* no workers, leases or crashes: its steps are applied in order, each     *)
(* once, only between the approval and the end; after a request to stop at *)
(* most the step under way is still applied.                               *)
(***************************************************************************)
EXTENDS Integers

CONSTANT StepCount  \* the steps of the plan are 1..StepCount

VARIABLES
  stage,   \* where the plan stands
  applied  \* the steps whose change is in the event's data

vars == <<stage, applied>>

Stages == {"proposed", "open", "stopping", "held", "closed"}

TypeOK == /\ stage \in Stages
          /\ applied \subseteq 1..StepCount

Init == stage = "proposed" /\ applied = {}

Approve == /\ stage = "proposed"
           /\ stage' = "open"
           /\ UNCHANGED applied

\* The next step is applied; a stopping plan gets no further one.
Apply == /\ stage \in {"open", "stopping"}
         /\ \E s \in 1..StepCount : /\ applied = 1..s - 1
                                    /\ applied' = 1..s
         /\ stage' = IF stage = "stopping" THEN "held" ELSE "open"

AskToStop == /\ stage = "open"
             /\ stage' = "stopping"
             /\ UNCHANGED applied

Reopen == /\ stage \in {"stopping", "held"}
          /\ stage' = "open"
          /\ UNCHANGED applied

Close == /\ stage # "closed"
         /\ stage' = "closed"
         /\ UNCHANGED applied

Next == Approve \/ Apply \/ AskToStop \/ Reopen \/ Close

Spec == Init /\ [][Next]_vars
=============================================================================

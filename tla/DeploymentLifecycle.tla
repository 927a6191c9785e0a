------------------------- MODULE DeploymentLifecycle ------------------------
(***************************************************************************)
(* What the update service promises of each deployment, whatever devices,  *)
(* firmware, crashes and retries do around it: it is created once, started *)
(* at most once, and ends at most once, completed only after it started.   *)
(***************************************************************************)
CONSTANT DeploymentIds

VARIABLE status

LifecycleStatus == {"none", "pending", "in_progress", "completed", "failed"}

Init == status = [x \in DeploymentIds |-> "none"]

Move(x, from, to) ==
  /\ status[x] \in from
  /\ status' = [status EXCEPT ![x] = to]

Create(x) == Move(x, {"none"}, "pending")
Start(x) == Move(x, {"pending"}, "in_progress")
Complete(x) == Move(x, {"in_progress"}, "completed")
Fail(x) == Move(x, {"pending", "in_progress"}, "failed")

Next == \E x \in DeploymentIds : Create(x) \/ Start(x) \/ Complete(x) \/ Fail(x)

Spec == Init /\ [][Next]_status
=============================================================================

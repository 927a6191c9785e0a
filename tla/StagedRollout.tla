---------------------------- MODULE StagedRollout ---------------------------
(***************************************************************************)
(* DeploymentTracker (app/ota/deployment.py): staged rollouts, kept in a   *)
(* dictionary of the server process and gone when it restarts.  A batch is *)
(* a slice of the list of device identifiers in the request, which may     *)
(* name a device twice: `assigned' keeps the slice's places 0 .. size - 1, *)
(* and Batch reads the identifiers there.                                  *)
(***************************************************************************)
EXTENDS Integers, Sequences

CONSTANTS
  RolloutIds,
  Devices,      \* device identifiers
  DeviceLists,  \* lists of identifiers in requests, repeats and all
  StageLists    \* stage lists in requests: any list of integers

ASSUME RolloutAssumption ==
  DeviceLists \subseteq Seq(Devices) /\ StageLists \subseteq Seq(Int)

VARIABLE rollouts

None == [status |-> "none"]
Rollout ==
  [status : {"active", "completed", "cancelled"}, devices : Seq(Devices),
   stages : Seq(Int), assigned : Seq(SUBSET Nat), current : Nat]

Exists(r) == rollouts[r].status # "none"
Size(ro) == Len(ro.devices)

\* stage_assignments[i], the identifiers of a batch.
Batch(ro, i) == {ro.devices[p + 1] : p \in ro.assigned[i]}

TypeOK ==
  /\ rollouts \in [RolloutIds -> Rollout \cup {None}]
  /\ \A r \in RolloutIds : Exists(r) =>
       /\ DOMAIN rollouts[r].assigned = DOMAIN rollouts[r].stages
       /\ rollouts[r].current + 1 \in DOMAIN rollouts[r].stages

Init == rollouts = [r \in RolloutIds |-> None]

-----------------------------------------------------------------------------
\* math.ceil(size * pct / 100), clamped to the list.
CeilDiv(a, b) == -((-a) \div b)
Lesser(a, b) == IF a < b THEN a ELSE b
\* Altered: the share is rounded down.
Target_Floor(size, pct) == Lesser((size * pct) \div 100, size)
Target(size, pct) == Lesser(CeilDiv(size * pct, 100), size)

\* The places of the Python slice list[from:to] of a list of this size, where
\* a negative bound counts from the end.
Bound(size, i) == IF i >= 0 THEN Lesser(i, size)
                  ELSE IF size + i < 0 THEN 0 ELSE size + i
Slice(size, from, to) == Bound(size, from) .. Bound(size, to) - 1

\* Stage i takes the list from the target of the stage before up to its own.
\* (Stages count from 0 in the code and from 1 here.)
\* Altered: every stage starts over at the head of the list.
AssignStages_FromHead(size, stages) ==
  [i \in 1 .. Len(stages) |-> Slice(size, 0, Target(size, stages[i]))]
AssignStages(size, stages) ==
  [i \in 1 .. Len(stages) |->
     Slice(size, IF i = 1 THEN 0 ELSE Target(size, stages[i - 1]),
                 Target(size, stages[i]))]

CreateStagedRollout(r, devices, stages) ==
  /\ ~Exists(r)
  /\ Len(stages) > 0 /\ Len(devices) > 0
  /\ rollouts' = [rollouts EXCEPT ![r] =
       [status |-> "active", devices |-> devices, stages |-> stages,
        assigned |-> AssignStages(Len(devices), stages), current |-> 0]]

\* Altered: the last stage is left as if another followed.
AdvanceStage_PastLast(r) ==
  /\ rollouts[r].status = "active"
  /\ rollouts' = [rollouts EXCEPT ![r].current = @ + 1]
\* Altered: the rollout completes when its last stage begins.
AdvanceStage_EndsEarly(r) ==
  /\ rollouts[r].status = "active"
  /\ IF rollouts[r].current + 2 >= Len(rollouts[r].stages)
     THEN rollouts' = [rollouts EXCEPT ![r].status = "completed"]
     ELSE rollouts' = [rollouts EXCEPT ![r].current = @ + 1]
AdvanceStage(r) ==
  /\ rollouts[r].status = "active"
  /\ IF rollouts[r].current + 1 >= Len(rollouts[r].stages)
     THEN rollouts' = [rollouts EXCEPT ![r].status = "completed"]
     ELSE rollouts' = [rollouts EXCEPT ![r].current = @ + 1]

\* Altered: a completed rollout can be cancelled.
CancelRollout_Completed(r) ==
  /\ rollouts[r].status \in {"active", "completed"}
  /\ rollouts' = [rollouts EXCEPT ![r].status = "cancelled"]
CancelRollout(r) ==
  /\ rollouts[r].status = "active"
  /\ rollouts' = [rollouts EXCEPT ![r].status = "cancelled"]

\* Nothing is persisted: a new process starts with an empty dictionary.
Restart == rollouts' = [r \in RolloutIds |-> None]

Next ==
  \/ \E r \in RolloutIds :
       \/ \E devices \in DeviceLists, stages \in StageLists :
            CreateStagedRollout(r, devices, stages)
       \/ AdvanceStage(r)
       \/ CancelRollout(r)
  \/ Restart

Spec == Init /\ [][Next]_rollouts

-----------------------------------------------------------------------------
NonNegative(stages) == \A i \in DOMAIN stages : stages[i] >= 0

\* What the API calls cumulative percentage thresholds.
Cumulative(stages) ==
  /\ NonNegative(stages)
  /\ \A i, j \in DOMAIN stages : i < j => stages[i] <= stages[j]

\* The places of get_current_stage_devices of this stage and of all before it.
Reached(ro) == UNION {ro.assigned[i] : i \in 1 .. ro.current + 1}

\* At every stage of a rollout with cumulative thresholds, the places handed
\* out so far are the head of the list, and the least number of places that
\* makes up the stage's percentage (create_staged_rollout, advance_stage).
ReachedShare ==
  \A r \in RolloutIds :
    LET ro == rollouts[r]
        share == Size(ro) * Lesser(ro.stages[ro.current + 1], 100)
    IN  Exists(r) /\ Cumulative(ro.stages) =>
          \E k \in 0 .. Size(ro) :
            /\ Reached(ro) = 0 .. k - 1
            /\ 100 * k >= share /\ 100 * (k - 1) < share

\* With cumulative thresholds only a device that the list names at two places
\* is in two batches of a rollout, each place being in one of them
\* (create_staged_rollout slices the list as it was sent).
BatchesDisjoint ==
  \A r \in RolloutIds : Exists(r) /\ Cumulative(rollouts[r].stages) =>
    LET ro == rollouts[r]
    IN  \A i, j \in DOMAIN ro.stages :
          i # j => \A d \in Batch(ro, i) \cap Batch(ro, j) :
                     \E p, q \in DOMAIN ro.devices :
                       p # q /\ ro.devices[p] = d /\ ro.devices[q] = d

\* A rollout completes only from its last stage; when one of its thresholds
\* was 100 or more and none was below zero, every place of the list was
\* handed out, whatever the order of the thresholds (advance_stage).
CompletedCovers ==
  \A r \in RolloutIds :
    LET ro == rollouts[r]
    IN  ro.status = "completed" =>
          /\ ro.current + 1 = Len(ro.stages)
          /\ /\ NonNegative(ro.stages)
             /\ \E i \in DOMAIN ro.stages : ro.stages[i] >= 100
             => Reached(ro) = 0 .. Size(ro) - 1

\* An existing rollout changes only while active, keeps its batches, and moves
\* one stage at a time, or vanishes with every other one at a restart.
OneStageAtATime ==
  [][\A r \in RolloutIds :
       Exists(r) /\ rollouts'[r] # rollouts[r] =>
         \/ \A q \in RolloutIds : ~Exists(q)'
         \/ /\ rollouts[r].status = "active"
            /\ rollouts'[r].assigned = rollouts[r].assigned
            /\ rollouts'[r].current \in {rollouts[r].current, rollouts[r].current + 1}]_rollouts
=============================================================================

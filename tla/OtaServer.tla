------------------------------ MODULE OtaServer -----------------------------
(***************************************************************************)
(* The update server: the device registry and the update manager over one  *)
(* store, the firmware rows changing underneath them, and handlers cut     *)
(* short between two commits.  Requests arrive in any order from operators *)
(* and devices; one event loop serves them, so no request begins while     *)
(* call is in flight.                                                      *)
(***************************************************************************)
EXTENDS DeviceRegistry, UpdateManager

CONSTANTS
  Releases,       \* firmware status changes that occur, a subset of
                  \* FirmwareStatus \ {"draft"}
  MaxInterrupts   \* bound: handlers cut short

ASSUME ServerAssumption ==
  /\ Releases \subseteq FirmwareStatus \ {"draft"}
  /\ MaxInterrupts \in Nat

VARIABLES
  drifted,        \* history: devices whose status column was last written by
                  \* a heartbeat, or should have been written by a handler
                  \* that was cut short
  interrupts      \* history: how many handlers were cut short

store == <<devices, firmware, deployments>>
vars == <<devices, firmware, deployments, call, drifted, interrupts>>

TypeOK ==
  /\ StoreTypeOK
  /\ call \in CallState
  /\ drifted \subseteq DeviceIds
  /\ interrupts \in 0 .. MaxInterrupts

Init ==
  /\ StoreInit
  /\ call = Idle
  /\ drifted = {}
  /\ interrupts = 0

-----------------------------------------------------------------------------
\* /api/devices.
Register(d) ==
  /\ call = Idle
  /\ \E t \in DeviceTypes, v \in RegisterVersions, g \in Groups \cup {NoGroup} :
       RegisterDevice(d, t, v, g)
  /\ UNCHANGED <<call, drifted, interrupts>>

Heartbeat(d) ==
  /\ call = Idle
  /\ \E v \in ReportedVersions, s \in ReportedStatuses : ProcessHeartbeat(d, v, s)
  /\ drifted' = drifted \cup {d}
  /\ UNCHANGED <<call, interrupts>>

AssignGroup(d) ==
  /\ call = Idle
  /\ \E g \in Groups : AssignDeviceToGroup(d, g)
  /\ UNCHANGED <<call, drifted, interrupts>>

Decommission(d) ==
  /\ call = Idle
  /\ DecommissionDevice(d)
  /\ drifted' = drifted \ {d}
  /\ UNCHANGED <<call, interrupts>>

\* /api/firmware, as far as the update service sees it: an upload inserts a
\* draft row, of any version (each upload has files of its own); sign, publish
\* and deprecate set the status of any row.
Upload(f) ==
  /\ call = Idle
  /\ ~FirmwareExists(f)
  /\ \E t \in DeviceTypes, v \in Versions :
       SaveFirmware(f, [status |-> "draft", type |-> t, version |-> v])
  /\ UNCHANGED <<devices, deployments, call, drifted, interrupts>>

Release(f, s) ==
  /\ call = Idle
  /\ FirmwareExists(f)
  /\ UpdateFirmwareStatus(f, s)
  /\ UNCHANGED <<devices, deployments, call, drifted, interrupts>>

-----------------------------------------------------------------------------
\* /api/updates.
BeginCall ==
  /\ \/ \E x \in DeploymentIds :
          \/ \E f \in FirmwareIds, d \in DeviceIds : CreateDeployment(x, f, d)
          \/ StartDeployment(x)
          \/ CompleteDeployment(x)
          \/ CancelDeployment(x)
     \/ \E f \in FirmwareIds, g \in Groups : DeployToGroup(f, g)
  /\ UNCHANGED <<drifted, interrupts>>

FinishUpdateCall ==
  /\ \/ MarkDevice("start", "updating")
     \/ MarkDevice("cancel", "active")
     \/ RecordVersion
  /\ drifted' = drifted \ {deployments[call.dep].dev}
  /\ UNCHANGED interrupts

ContinueGroupCall ==
  /\ \E x \in DeploymentIds : DeployToNextMember(x)
  /\ UNCHANGED <<drifted, interrupts>>

ContinueCall == FinishUpdateCall \/ ContinueGroupCall

\* The process dies, or the store raises, after a commit and before the next.
Interrupt ==
  /\ call # Idle
  /\ interrupts < MaxInterrupts
  /\ interrupts' = interrupts + 1
  /\ drifted' = IF call.op = "group" THEN drifted
                ELSE drifted \cup {deployments[call.dep].dev}
  /\ call' = Idle
  /\ UNCHANGED store

Next ==
  \/ \E d \in DeviceIds :
       Register(d) \/ Heartbeat(d) \/ AssignGroup(d) \/ Decommission(d)
  \/ \E f \in FirmwareIds : Upload(f) \/ \E s \in Releases : Release(f, s)
  \/ BeginCall
  \/ ContinueCall
  \/ Interrupt

Spec == Init /\ [][Next]_vars

\* A handler that has begun runs on: the event loop never suspends it.
FairSpec == Spec /\ WF_vars(ContinueCall)

-----------------------------------------------------------------------------
Settled(d) ==        \* no handler is part-way through a deployment of d
  call.op \in {"idle", "group"} \/ deployments[call.dep].dev # d

\* A handler's second commit finds the deployment as its first commit left it,
\* and a group deployment still to be created has its rows (update_manager.py).
CallMatchesRow ==
  /\ call.op = "start" => deployments[call.dep].status = "in_progress"
  /\ call.op = "complete" => deployments[call.dep].status = "completed"
  /\ call.op = "cancel" => deployments[call.dep].status = "failed"
  /\ call.op = "group" => /\ FirmwareExists(call.fw) /\ call.todo # {}
                          /\ \A d \in call.todo : DeviceExists(d)

\* No foreign key is declared, yet a deployment always points at a firmware
\* and a device that exist (create_deployment, deploy_to_group).
ReferencesExist ==
  \A x \in DeploymentIds : DeploymentExists(x) =>
    FirmwareExists(deployments[x].fw) /\ DeviceExists(deployments[x].dev)

\* started_at, completed_at and error_message tell the history of a deployment
\* through every path to a terminal status (update_deployment_status).
ColumnsTellHistory ==
  \A x \in DeploymentIds :
    LET row == deployments[x]
    IN  /\ row.status = "pending" => ~row.started /\ ~row.finished
        /\ row.status = "in_progress" => row.started /\ ~row.finished
        /\ row.status = "completed" => row.started /\ row.finished /\ ~row.error
        /\ row.status = "failed" => row.finished /\ row.error

\* A device shown as updating has a deployment in progress, unless the device
\* itself reported the status or a handler was cut between its two commits
\* (start_deployment, complete_deployment, cancel_deployment).
UpdatingHasDeployment ==
  \A d \in DeviceIds :
    devices[d].status = "updating" /\ d \notin drifted /\ Settled(d) =>
      \E x \in DeploymentIds :
        deployments[x].dev = d /\ deployments[x].status = "in_progress"

\* A device with a deployment in progress is shown as updating; it loses the
\* mark only to another deployment of the same device that ended, or to
\* decommissioning (start_deployment sets it, complete and cancel clear it).
MarkLostOnlyToAnother ==
  \A x \in DeploymentIds :
    LET d == deployments[x].dev
    IN  deployments[x].status = "in_progress" /\ d \notin drifted /\ Settled(d)
          => \/ devices[d].status \in {"updating", "revoked"}
             \/ \E y \in DeploymentIds \ {x} :
                  deployments[y].dev = d /\ deployments[y].status \in Terminal

\* The version recorded for a device moves only by its own heartbeat or by a
\* deployment of exactly that version, to that device, that is completed.
VersionIsEarned ==
  [][\A d \in DeviceIds :
       DeviceExists(d) /\ devices'[d].version # devices[d].version =>
         \/ d \in drifted'
         \/ \E x \in DeploymentIds :
              /\ deployments[x].dev = d
              /\ deployments[x].status = "completed"
              /\ firmware[deployments[x].fw].version = devices'[d].version]_vars

\* When a deployment of the firmware that check_for_update offers a device
\* completes, the next check offers that device nothing.
CompletedOfferSettles ==
  [][\A d \in DeviceIds :
       /\ call.op = "complete" /\ deployments[call.dep].dev = d
       /\ call' = Idle /\ interrupts' = interrupts
       /\ deployments[call.dep].fw \in Offers(d)
       => Offers(d)' = {}]_vars

\* Each deployment follows the abstract lifecycle, whatever is cut short.
Lifecycle ==
  INSTANCE DeploymentLifecycle
    WITH status <- [x \in DeploymentIds |-> deployments[x].status]
FollowsLifecycle == Lifecycle!Spec

\* A group deployment that is not cut short leaves every member of the group
\* with a deployment of that firmware (deploy_to_group).
GroupDeployCovers ==
  \A f \in FirmwareIds, g \in Groups, n \in 0 .. MaxInterrupts :
    (call.op = "group" /\ call.fw = f /\ call.group = g /\ interrupts = n)
      ~> \/ interrupts > n
         \/ /\ call = Idle
            /\ \A d \in Members(g) : \E x \in DeploymentIds :
                 deployments[x].fw = f /\ deployments[x].dev = d

\* "The manager enforces version-ordering rules (no downgrades by default)"
\* (UpdateManager): completing a deployment never lowers a recorded version.
NoDowngrade ==
  [][\A d \in DeviceIds :
       /\ call.op = "complete" /\ call' = Idle
       /\ devices[d].version \in Versions /\ devices'[d].version \in Versions
       => devices'[d].version >= devices[d].version]_vars
=============================================================================

---------------------------- MODULE UpdateManager ---------------------------
(***************************************************************************)
(* UpdateManager (app/ota/update_manager.py) as the /api/updates router    *)
(* drives it.  start, complete and cancel commit twice, the deployment row *)
(* first and the device row second; deploy_to_group commits once for each  *)
(* device.  The handlers never await, so no other request is served in     *)
(* between, but the process can die or the store can raise between two     *)
(* commits.  The variable call is the handler that has begun and has a     *)
(* commit left to do.                                                      *)
(***************************************************************************)
EXTENDS OtaStore

VARIABLE call

Idle == [op |-> "idle"]
CallState ==
  {Idle} \cup [op : {"start", "complete", "cancel"}, dep : DeploymentIds]
         \cup [op : {"group"}, fw : FirmwareIds, group : Groups,
               todo : SUBSET DeviceIds]

-----------------------------------------------------------------------------
\* check_for_update: the published firmware of the device's type with the
\* highest version, offered when the device has no version or a lower one.
Published(t) ==
  {f \in FirmwareIds : firmware[f].status = "published" /\ firmware[f].type = t}

\* Altered: the same version counts as newer.
NewerThan_OrSame(v, current) ==
  current = NoVersion \/ (current # Unparsable /\ v >= current)

NewerThan(v, current) ==
  \/ current = NoVersion
  \/ current # Unparsable /\ v > current

Offers(d) ==
  {f \in Published(devices[d].type) :
     /\ \A g \in Published(devices[d].type) :
          firmware[g].version <= firmware[f].version
     /\ NewerThan(firmware[f].version, devices[d].version)}

-----------------------------------------------------------------------------
\* Altered: the device is not looked up.
CreateDeployment_AnyDevice(x, f, d) ==
  /\ call = Idle
  /\ FirmwareExists(f) /\ ~DeploymentExists(x)
  /\ SaveDeployment(x, f, d)
  /\ UNCHANGED <<devices, firmware, call>>

\* create_deployment: both rows must exist; nothing else is required of them.
CreateDeployment(x, f, d) ==
  /\ call = Idle
  /\ FirmwareExists(f) /\ DeviceExists(d)
  /\ ~DeploymentExists(x)
  /\ SaveDeployment(x, f, d)
  /\ UNCHANGED <<devices, firmware, call>>

StartDeployment(x) ==
  /\ call = Idle
  /\ deployments[x].status = "pending"
  /\ UpdateDeploymentStatus(x, "in_progress", FALSE)
  /\ call' = [op |-> "start", dep |-> x]
  /\ UNCHANGED <<devices, firmware>>

CompleteDeployment(x) ==
  /\ call = Idle
  /\ deployments[x].status = "in_progress"
  /\ UpdateDeploymentStatus(x, "completed", FALSE)
  /\ call' = [op |-> "complete", dep |-> x]
  /\ UNCHANGED <<devices, firmware>>

\* Altered: a deployment can be cancelled in any status.
CancelDeployment_AnyStatus(x) ==
  /\ call = Idle
  /\ DeploymentExists(x)
  /\ UpdateDeploymentStatus(x, "failed", TRUE)
  /\ call' = [op |-> "cancel", dep |-> x]
  /\ UNCHANGED <<devices, firmware>>

CancelDeployment(x) ==
  /\ call = Idle
  /\ deployments[x].status \in {"pending", "in_progress"}
  /\ UpdateDeploymentStatus(x, "failed", TRUE)
  /\ call' = [op |-> "cancel", dep |-> x]
  /\ UNCHANGED <<devices, firmware>>

\* Altered: the device row gets row instead of the new status alone.
MarkDeviceAs(op, d, row) ==
  /\ call.op = op
  /\ d = deployments[call.dep].dev
  /\ UpdateDevice(d, row)
  /\ call' = Idle
  /\ UNCHANGED <<firmware, deployments>>
MarkDevice_DeploymentStatus(op, s) ==
  \E d \in DeviceIds : MarkDeviceAs(op, d,
    [devices[d] EXCEPT !.status = deployments[call.dep].status])
MarkDevice_Active(op, s) ==
  \E d \in DeviceIds : MarkDeviceAs(op, d, [devices[d] EXCEPT !.status = "active"])
MarkDevice_Version(op, s) ==
  \E d \in DeviceIds : MarkDeviceAs(op, d,
    [devices[d] EXCEPT !.status = s,
                       !.version = firmware[deployments[call.dep].fw].version])
\* Altered: complete leaves the device's status alone.
RecordVersion_KeepsStatus ==
  \E d \in DeviceIds : MarkDeviceAs("complete", d,
    [devices[d] EXCEPT !.version = firmware[deployments[call.dep].fw].version])

\* The second commit of start and of cancel.
MarkDevice(op, s) ==
  /\ call.op = op
  /\ LET d == deployments[call.dep].dev
     IN  UpdateDevice(d, [devices[d] EXCEPT !.status = s])
  /\ call' = Idle
  /\ UNCHANGED <<firmware, deployments>>

\* The second commit of complete: the firmware row is read again for it.
RecordVersion ==
  /\ call.op = "complete"
  /\ LET d == deployments[call.dep].dev
         f == deployments[call.dep].fw
     IN  UpdateDevice(d, [devices[d] EXCEPT !.status = "active",
                            !.version = IF FirmwareExists(f)
                                        THEN firmware[f].version ELSE @])
  /\ call' = Idle
  /\ UNCHANGED <<firmware, deployments>>

-----------------------------------------------------------------------------
Members(g) == {d \in DeviceIds : DeviceExists(d) /\ devices[d].group = g}
FreshIds == {x \in DeploymentIds : ~DeploymentExists(x)}

\* deploy_to_group takes the members once, then creates one deployment each.
\* It takes them newest registration first; rows registered within one clock
\* tick come in any order, and the model leaves every order open.  The last
\* guard is a bound: enough unused identifiers are left for all members.
DeployToGroup(f, g) ==
  /\ call = Idle
  /\ FirmwareExists(f)
  /\ Members(g) # {}
  /\ Cardinality(Members(g)) <= Cardinality(FreshIds)
  /\ call' = [op |-> "group", fw |-> f, group |-> g, todo |-> Members(g)]
  /\ UNCHANGED <<devices, firmware, deployments>>

\* Altered: the loop returns after its first device.
DeployToNextMember_Once(x) ==
  /\ call.op = "group"
  /\ ~DeploymentExists(x)
  /\ \E d \in call.todo : SaveDeployment(x, call.fw, d)
  /\ call' = Idle
  /\ UNCHANGED <<devices, firmware>>

DeployToNextMember(x) ==
  /\ call.op = "group"
  /\ ~DeploymentExists(x)
  /\ \E d \in call.todo :
       /\ SaveDeployment(x, call.fw, d)
       /\ call' = IF call.todo = {d} THEN Idle
                  ELSE [call EXCEPT !.todo = @ \ {d}]
  /\ UNCHANGED <<devices, firmware>>
=============================================================================

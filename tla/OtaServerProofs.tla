--------------------------- MODULE OtaServerProofs --------------------------
(***************************************************************************)
(* Invariants of the update server, proved for any number of devices,      *)
(* firmware images, deployments and cut handlers.                          *)
(***************************************************************************)
EXTENDS OtaServer, TLAPS

USE DEF NoRow, NoGroup, NoVersion, Terminal, DeviceExists, FirmwareExists,
        DeploymentExists, store

\* Every table keeps its columns' types and the handler in flight is one of
\* those that commit more than once.
LEMMA TypeInit == Init => TypeOK
<1> SUFFICES ASSUME Init PROVE TypeOK
  OBVIOUS
<1>1. /\ AnyOf(DeviceTypes) \in DeviceTypes
      /\ AnyOf(FirmwareIds) \in FirmwareIds
      /\ AnyOf(DeviceIds) \in DeviceIds
  BY StoreAssumption DEF AnyOf
<1>2. 1 \in Versions
  BY StoreAssumption DEF Versions
<1>3. StoreTypeOK
  BY <1>1, <1>2 DEF Init, StoreInit, StoreTypeOK, DeviceRow, FirmwareRow,
     DeploymentRow
<1> QED
  BY <1>3, ServerAssumption DEF Init, TypeOK, CallState

\* A status update keeps the shape of the deployments table.
LEMMA StatusUpdateType ==
  ASSUME StoreTypeOK, NEW x \in DeploymentIds, NEW s \in DeploymentStatus,
         NEW e \in BOOLEAN, UpdateDeploymentStatus(x, s, e)
  PROVE  deployments' \in [DeploymentIds -> DeploymentRow]
<1>1. deployments \in [DeploymentIds -> DeploymentRow]
  BY DEF StoreTypeOK
<1>2. deployments[x] \in DeploymentRow
  BY <1>1
<1> DEFINE row == [deployments[x] EXCEPT
              !.status = s, !.started = @ \/ s = "in_progress",
              !.finished = @ \/ s \in Terminal,
              !.error = IF s \in Terminal THEN e ELSE @]
<1>3. row \in DeploymentRow
  BY <1>2 DEF DeploymentRow
<1>4. deployments' = [deployments EXCEPT ![x] = row]
  BY <1>1 DEF UpdateDeploymentStatus
<1> QED
  BY <1>1, <1>3, <1>4

\* Every handler, and a cut between two commits, keeps the columns' types.
LEMMA TypeStep == TypeOK /\ [Next]_vars => TypeOK'
<1> SUFFICES ASSUME TypeOK, [Next]_vars PROVE TypeOK'
  OBVIOUS
<1> USE DEF TypeOK, StoreTypeOK
<1>1. ASSUME NEW d \in DeviceIds, Register(d) PROVE TypeOK'
  <2>1. PICK t \in DeviceTypes, v \in RegisterVersions, g \in Groups \cup {NoGroup} :
          RegisterDevice(d, t, v, g)
    BY <1>1 DEF Register
  <2>2. [status |-> "registered", type |-> t, version |-> v, group |-> g,
         heard |-> FALSE] \in DeviceRow
    BY RegistryAssumption DEF DeviceRow, DeviceStatus
  <2> QED
    BY <1>1, <2>1, <2>2 DEF Register, RegisterDevice, SaveDevice
<1>2. ASSUME NEW d \in DeviceIds, Heartbeat(d) PROVE TypeOK'
  <2>1. PICK v \in ReportedVersions, s \in ReportedStatuses : ProcessHeartbeat(d, v, s)
    BY <1>2 DEF Heartbeat
  <2>2. [devices[d] EXCEPT !.heard = TRUE, !.version = v, !.status = s] \in DeviceRow
    BY RegistryAssumption DEF DeviceRow
  <2> QED
    BY <1>2, <2>1, <2>2 DEF Heartbeat, ProcessHeartbeat, UpdateDevice
<1>3. ASSUME NEW d \in DeviceIds, AssignGroup(d) PROVE TypeOK'
  <2>1. PICK g \in Groups : AssignDeviceToGroup(d, g)
    BY <1>3 DEF AssignGroup
  <2>2. [devices[d] EXCEPT !.group = g] \in DeviceRow
    BY DEF DeviceRow
  <2> QED
    BY <1>3, <2>1, <2>2 DEF AssignGroup, AssignDeviceToGroup, UpdateDevice
<1>4. ASSUME NEW d \in DeviceIds, Decommission(d) PROVE TypeOK'
  BY <1>4 DEF Decommission, DecommissionDevice, UpdateDevice, DeviceRow, DeviceStatus
<1>5. ASSUME NEW f \in FirmwareIds, Upload(f) PROVE TypeOK'
  BY <1>5 DEF Upload, SaveFirmware, FirmwareRow, FirmwareStatus
<1>6. ASSUME NEW f \in FirmwareIds, NEW s \in Releases, Release(f, s) PROVE TypeOK'
  BY <1>6, ServerAssumption DEF Release, UpdateFirmwareStatus, FirmwareRow
<1>7. ASSUME BeginCall PROVE TypeOK'
  <2>1. ASSUME NEW x \in DeploymentIds, NEW f \in FirmwareIds, NEW d \in DeviceIds,
               CreateDeployment(x, f, d)
        PROVE TypeOK'
    BY <1>7, <2>1 DEF BeginCall, CreateDeployment, SaveDeployment, DeploymentRow,
       DeploymentStatus
  <2>2. ASSUME NEW x \in DeploymentIds, StartDeployment(x) PROVE TypeOK'
    BY <1>7, <2>2, StatusUpdateType DEF BeginCall, StartDeployment,
       DeploymentStatus, CallState
  <2>3. ASSUME NEW x \in DeploymentIds, CompleteDeployment(x) PROVE TypeOK'
    BY <1>7, <2>3, StatusUpdateType DEF BeginCall, CompleteDeployment,
       DeploymentStatus, CallState
  <2>4. ASSUME NEW x \in DeploymentIds, CancelDeployment(x) PROVE TypeOK'
    BY <1>7, <2>4, StatusUpdateType DEF BeginCall, CancelDeployment,
       DeploymentStatus, CallState
  <2>5. ASSUME NEW f \in FirmwareIds, NEW g \in Groups, DeployToGroup(f, g)
        PROVE TypeOK'
    BY <1>7, <2>5 DEF BeginCall, DeployToGroup, Members, CallState
  <2> QED
    BY <1>7, <2>1, <2>2, <2>3, <2>4, <2>5 DEF BeginCall
<1>8. ASSUME FinishUpdateCall PROVE TypeOK'
  <2> DEFINE d == deployments[call.dep].dev
             f == deployments[call.dep].fw
  <2>1. call.op # "group" /\ call.op # "idle"
    BY <1>8 DEF FinishUpdateCall, MarkDevice, RecordVersion
  <2>2. call.dep \in DeploymentIds /\ d \in DeviceIds /\ f \in FirmwareIds
    BY <2>1 DEF CallState, Idle, DeploymentRow
  <2>3. /\ devices[d] \in DeviceRow
        /\ firmware[f] \in FirmwareRow
    BY <2>2
  <2>4. /\ [devices[d] EXCEPT !.status = "updating"] \in DeviceRow
        /\ [devices[d] EXCEPT !.status = "active"] \in DeviceRow
    BY <2>3 DEF DeviceRow, DeviceStatus
  <2>5. [devices[d] EXCEPT !.status = "active",
           !.version = IF FirmwareExists(f) THEN firmware[f].version ELSE @]
          \in DeviceRow
    BY <2>3 DEF DeviceRow, DeviceStatus, FirmwareRow
  <2> QED
    BY <1>8, <2>2, <2>4, <2>5 DEF FinishUpdateCall, MarkDevice, RecordVersion,
       UpdateDevice, CallState
<1>9. ASSUME ContinueGroupCall PROVE TypeOK'
  <2>1. PICK x \in DeploymentIds : DeployToNextMember(x)
    BY <1>9 DEF ContinueGroupCall
  <2>2. /\ call.fw \in FirmwareIds /\ call.group \in Groups
        /\ call.todo \in SUBSET DeviceIds
        /\ call = [op |-> "group", fw |-> call.fw, group |-> call.group,
                   todo |-> call.todo]
    BY <2>1 DEF DeployToNextMember, CallState, Idle
  <2>3. PICK d \in call.todo :
          /\ SaveDeployment(x, call.fw, d)
          /\ call' = IF call.todo = {d} THEN Idle ELSE [call EXCEPT !.todo = @ \ {d}]
    BY <2>1 DEF DeployToNextMember
  <2>4. call' \in CallState
    BY <2>2, <2>3 DEF CallState
  <2>5. deployments' \in [DeploymentIds -> DeploymentRow]
    BY <2>2, <2>3 DEF SaveDeployment, DeploymentRow, DeploymentStatus
  <2> QED
    BY <1>9, <2>1, <2>4, <2>5 DEF ContinueGroupCall, DeployToNextMember
<1>10. ASSUME Interrupt PROVE TypeOK'
  <2>1. call.op # "group" => deployments[call.dep].dev \in DeviceIds
    BY <1>10 DEF Interrupt, CallState, Idle, DeploymentRow
  <2> QED
    BY <1>10, <2>1, ServerAssumption DEF Interrupt, CallState
<1>11. CASE UNCHANGED vars
  BY <1>11 DEF vars
<1> QED
  BY <1>1, <1>2, <1>3, <1>4, <1>5, <1>6, <1>7, <1>8, <1>9, <1>10, <1>11
     DEF Next, ContinueCall

\* The tables and the handler in flight keep their types through every
\* interleaving of requests, heartbeats and cut handlers (TypeOK).
THEOREM TypeCorrect == Spec => []TypeOK
<1> QED
  BY TypeInit, TypeStep, PTL DEF Spec
-----------------------------------------------------------------------------
\* The ways a step can change the deployments table.
DeploymentStep ==
  \/ UNCHANGED deployments
  \/ \E x \in DeploymentIds, f \in FirmwareIds, d \in DeviceIds :
       /\ ~DeploymentExists(x) /\ FirmwareExists(f) /\ DeviceExists(d)
       /\ SaveDeployment(x, f, d)
  \/ \E x \in DeploymentIds :
       \/ /\ deployments[x].status = "pending"
          /\ UpdateDeploymentStatus(x, "in_progress", FALSE)
       \/ /\ deployments[x].status = "in_progress"
          /\ UpdateDeploymentStatus(x, "completed", FALSE)
       \/ /\ deployments[x].status \in {"pending", "in_progress"}
          /\ UpdateDeploymentStatus(x, "failed", TRUE)

\* Every step changes the deployments table in one of those ways.
LEMMA StepOfDeployments ==
  ASSUME TypeOK, CallMatchesRow, [Next]_vars PROVE DeploymentStep
<1> USE DEF DeploymentStep
<1>1. ASSUME NEW d \in DeviceIds,
             Register(d) \/ Heartbeat(d) \/ AssignGroup(d) \/ Decommission(d)
      PROVE  DeploymentStep
  BY <1>1 DEF Register, Heartbeat, AssignGroup, Decommission, RegisterDevice,
     ProcessHeartbeat, AssignDeviceToGroup, DecommissionDevice
<1>2. ASSUME NEW f \in FirmwareIds, Upload(f) \/ \E s \in Releases : Release(f, s)
      PROVE  DeploymentStep
  BY <1>2 DEF Upload, Release
<1>3. ASSUME BeginCall PROVE DeploymentStep
  BY <1>3 DEF BeginCall, CreateDeployment, StartDeployment, CompleteDeployment,
     CancelDeployment, DeployToGroup
<1>4. ASSUME FinishUpdateCall PROVE DeploymentStep
  BY <1>4 DEF FinishUpdateCall, MarkDevice, RecordVersion
<1>5. ASSUME ContinueGroupCall PROVE DeploymentStep
  <2>1. PICK x \in DeploymentIds : DeployToNextMember(x)
    BY <1>5 DEF ContinueGroupCall
  <2>2. call.fw \in FirmwareIds /\ call.todo \subseteq DeviceIds
    BY <2>1 DEF DeployToNextMember, TypeOK, CallState, Idle
  <2> QED
    BY <2>1, <2>2 DEF DeployToNextMember, CallMatchesRow
<1>6. ASSUME Interrupt PROVE DeploymentStep
  BY <1>6 DEF Interrupt
<1>7. CASE UNCHANGED vars
  BY <1>7 DEF vars
<1> QED
  BY <1>1, <1>2, <1>3, <1>4, <1>5, <1>6, <1>7 DEF Next, ContinueCall

\* No row of the devices or firmware tables is ever removed.
LEMMA RowsPersist ==
  ASSUME TypeOK, [Next]_vars
  PROVE  /\ \A d \in DeviceIds : DeviceExists(d) => DeviceExists(d)'
         /\ \A f \in FirmwareIds : FirmwareExists(f) => FirmwareExists(f)'
<1> DEFINE Persist == /\ \A d \in DeviceIds : DeviceExists(d) => DeviceExists(d)'
                      /\ \A f \in FirmwareIds : FirmwareExists(f) => FirmwareExists(f)'
<1> SUFFICES Persist
  OBVIOUS
<1> USE DEF TypeOK, StoreTypeOK
<1>1. ASSUME NEW d \in DeviceIds,
             Register(d) \/ AssignGroup(d) \/ Decommission(d)
      PROVE  Persist
  BY <1>1 DEF Register, AssignGroup, Decommission, RegisterDevice,
     AssignDeviceToGroup, DecommissionDevice, SaveDevice, UpdateDevice, DeviceRow
<1>2. ASSUME NEW d \in DeviceIds, Heartbeat(d) PROVE Persist
  <2>1. PICK v \in ReportedVersions, s \in ReportedStatuses : ProcessHeartbeat(d, v, s)
    BY <1>2 DEF Heartbeat
  <2>2. s # NoRow
    BY <2>1, StoreAssumption
  <2> QED
    BY <2>1, <2>2 DEF ProcessHeartbeat, UpdateDevice, DeviceRow
<1>3. ASSUME NEW f \in FirmwareIds, Upload(f) PROVE Persist
  BY <1>3 DEF Upload, SaveFirmware, FirmwareRow
<1>4. ASSUME NEW f \in FirmwareIds, NEW s \in Releases, Release(f, s) PROVE Persist
  BY <1>4, ServerAssumption DEF Release, UpdateFirmwareStatus, FirmwareRow,
     FirmwareStatus
<1>5. ASSUME BeginCall PROVE Persist
  BY <1>5 DEF BeginCall, CreateDeployment, StartDeployment, CompleteDeployment,
     CancelDeployment, DeployToGroup
<1>6. ASSUME FinishUpdateCall PROVE Persist
  <2>1. call.op # "group" /\ call.op # "idle"
    BY <1>6 DEF FinishUpdateCall, MarkDevice, RecordVersion
  <2>2. deployments[call.dep].dev \in DeviceIds
    BY <2>1 DEF CallState, Idle, DeploymentRow
  <2>3. PICK row : row.status # NoRow /\ UpdateDevice(deployments[call.dep].dev, row)
                   /\ firmware' = firmware
    <3> DEFINE d == deployments[call.dep].dev
               f == deployments[call.dep].fw
               r1(s) == [devices[d] EXCEPT !.status = s]
               r2 == [devices[d] EXCEPT !.status = "active",
                       !.version = IF FirmwareExists(f) THEN firmware[f].version ELSE @]
    <3>0. devices[d] \in DeviceRow
      BY <2>2
    <3>1. r1("updating").status = "updating" /\ r1("active").status = "active"
          /\ r2.status = "active"
      BY <3>0 DEF DeviceRow
    <3> QED
      BY <1>6, <3>1 DEF FinishUpdateCall, MarkDevice, RecordVersion
  <2> QED
    BY <2>2, <2>3 DEF UpdateDevice
<1>7. ASSUME ContinueGroupCall PROVE Persist
  BY <1>7 DEF ContinueGroupCall, DeployToNextMember
<1>8. ASSUME Interrupt PROVE Persist
  BY <1>8 DEF Interrupt
<1>9. CASE UNCHANGED vars
  BY <1>9 DEF vars
<1> QED
  BY <1>1, <1>2, <1>3, <1>4, <1>5, <1>6, <1>7, <1>8, <1>9 DEF Next, ContinueCall

\* What a step can do to one row of the deployments table.
LEMMA RowEffect ==
  ASSUME TypeOK, CallMatchesRow, [Next]_vars, NEW x \in DeploymentIds
  PROVE  LET row == deployments[x]
             new == deployments'[x]
         IN  \/ new = row
             \/ /\ row.status = NoRow /\ FirmwareExists(new.fw) /\ DeviceExists(new.dev)
                /\ new.status = "pending" /\ ~new.started /\ ~new.finished
             \/ /\ new.fw = row.fw /\ new.dev = row.dev /\ new.started = TRUE
                /\ row.status = "pending" /\ new.status = "in_progress"
                /\ new.finished = row.finished
             \/ /\ new.fw = row.fw /\ new.dev = row.dev /\ new.started = row.started
                /\ row.status = "in_progress" /\ new.status = "completed"
                /\ new.finished = TRUE /\ new.error = FALSE
             \/ /\ new.fw = row.fw /\ new.dev = row.dev
                /\ row.status \in {"pending", "in_progress"} /\ new.status = "failed"
                /\ new.finished = TRUE /\ new.error = TRUE
<1>1. deployments \in [DeploymentIds -> DeploymentRow]
  BY DEF TypeOK, StoreTypeOK
<1>2. \A y \in DeploymentIds : deployments[y] \in DeploymentRow
  BY <1>1
<1>3. DeploymentStep
  BY StepOfDeployments
<1>4. CASE UNCHANGED deployments
  BY <1>4
<1>5. ASSUME NEW y \in DeploymentIds, NEW f \in FirmwareIds, NEW d \in DeviceIds,
             ~DeploymentExists(y), FirmwareExists(f), DeviceExists(d),
             SaveDeployment(y, f, d)
      PROVE  \/ deployments'[x] = deployments[x]
             \/ /\ deployments[x].status = NoRow
                /\ FirmwareExists(deployments'[x].fw) /\ DeviceExists(deployments'[x].dev)
                /\ deployments'[x].status = "pending"
                /\ ~deployments'[x].started /\ ~deployments'[x].finished
  BY <1>1, <1>5 DEF SaveDeployment
<1> DEFINE Updated(y, s, e) ==
      [deployments[y] EXCEPT !.status = s, !.started = @ \/ s = "in_progress",
         !.finished = @ \/ s \in Terminal, !.error = IF s \in Terminal THEN e ELSE @]
<1>6. ASSUME NEW y \in DeploymentIds, NEW s \in DeploymentStatus, NEW e \in BOOLEAN,
             UpdateDeploymentStatus(y, s, e)
      PROVE  deployments' = [deployments EXCEPT ![y] = Updated(y, s, e)]
  BY <1>1, <1>6 DEF UpdateDeploymentStatus
<1>8. {"in_progress", "completed", "failed"} \subseteq DeploymentStatus
  BY DEF DeploymentStatus
<1>9. ASSUME NEW y \in DeploymentIds, deployments[y].status = "pending",
             UpdateDeploymentStatus(y, "in_progress", FALSE)
      PROVE  \/ deployments'[x] = deployments[x]
             \/ /\ deployments'[x].fw = deployments[x].fw
                /\ deployments'[x].dev = deployments[x].dev
                /\ deployments'[x].started = TRUE
                /\ deployments[x].status = "pending"
                /\ deployments'[x].status = "in_progress"
                /\ deployments'[x].finished = deployments[x].finished
  <2>1. deployments' = [deployments EXCEPT ![y] = Updated(y, "in_progress", FALSE)]
    BY <1>6, <1>8, <1>9
  <2>2. CASE y # x
    BY <1>1, <2>1, <2>2
  <2>3. CASE y = x
    <3>1. deployments'[x] = Updated(x, "in_progress", FALSE)
      BY <1>1, <2>1, <2>3
    <3> DEFINE row == deployments[x]
               new == Updated(x, "in_progress", FALSE)
    <3> QED
      <4>1. new.fw = row.fw /\ new.dev = row.dev /\ new.status = "in_progress"
        BY <1>2 DEF DeploymentRow
      <4>2. new.started = TRUE
        BY <1>2 DEF DeploymentRow
      <4>3. new.finished = row.finished
        BY <1>2 DEF DeploymentRow
      <4> QED
        BY <1>9, <2>3, <3>1, <4>1, <4>2, <4>3
  <2> QED
    BY <2>2, <2>3
<1>10. ASSUME NEW y \in DeploymentIds, deployments[y].status = "in_progress",
              UpdateDeploymentStatus(y, "completed", FALSE)
       PROVE  \/ deployments'[x] = deployments[x]
              \/ /\ deployments'[x].fw = deployments[x].fw
                 /\ deployments'[x].dev = deployments[x].dev
                 /\ deployments'[x].started = deployments[x].started
                 /\ deployments[x].status = "in_progress"
                 /\ deployments'[x].status = "completed"
                 /\ deployments'[x].finished = TRUE /\ deployments'[x].error = FALSE
  <2>1. deployments' = [deployments EXCEPT ![y] = Updated(y, "completed", FALSE)]
    BY <1>6, <1>8, <1>10
  <2>2. CASE y # x
    BY <1>1, <2>1, <2>2
  <2>3. CASE y = x
    <3>1. deployments'[x] = Updated(x, "completed", FALSE)
      BY <1>1, <2>1, <2>3
    <3> DEFINE row == deployments[x]
               new == Updated(x, "completed", FALSE)
    <3> QED
      <4>1. new.fw = row.fw /\ new.dev = row.dev /\ new.status = "completed"
        BY <1>2 DEF DeploymentRow
      <4>2. new.started = row.started
        BY <1>2 DEF DeploymentRow
      <4>3. new.finished = TRUE /\ new.error = FALSE
        BY <1>2 DEF DeploymentRow
      <4> QED
        BY <1>10, <2>3, <3>1, <4>1, <4>2, <4>3
  <2> QED
    BY <2>2, <2>3
<1>11. ASSUME NEW y \in DeploymentIds,
              deployments[y].status \in {"pending", "in_progress"},
              UpdateDeploymentStatus(y, "failed", TRUE)
       PROVE  \/ deployments'[x] = deployments[x]
              \/ /\ deployments'[x].fw = deployments[x].fw
                 /\ deployments'[x].dev = deployments[x].dev
                 /\ deployments[x].status \in {"pending", "in_progress"}
                 /\ deployments'[x].status = "failed"
                 /\ deployments'[x].finished = TRUE /\ deployments'[x].error = TRUE
  <2>1. deployments' = [deployments EXCEPT ![y] = Updated(y, "failed", TRUE)]
    BY <1>6, <1>8, <1>11
  <2>2. CASE y # x
    BY <1>1, <2>1, <2>2
  <2>3. CASE y = x
    <3>1. deployments'[x] = Updated(x, "failed", TRUE)
      BY <1>1, <2>1, <2>3
    <3> DEFINE row == deployments[x]
               new == Updated(x, "failed", TRUE)
    <3> QED
      <4>1. new.fw = row.fw /\ new.dev = row.dev /\ new.status = "failed"
        BY <1>2 DEF DeploymentRow
      <4>2. new.finished = TRUE /\ new.error = TRUE
        BY <1>2 DEF DeploymentRow
      <4> QED
        BY <1>11, <2>3, <3>1, <4>1, <4>2
  <2> QED
    BY <2>2, <2>3
<1> QED
  BY <1>3, <1>4, <1>5, <1>9, <1>10, <1>11 DEF DeploymentStep

-----------------------------------------------------------------------------
\* A handler in flight and the row it committed first stay in agreement.
LEMMA CallMatchesStep ==
  ASSUME TypeOK, CallMatchesRow, [Next]_vars PROVE CallMatchesRow'
<1> USE DEF CallMatchesRow
<1>1. ASSUME NEW d \in DeviceIds,
             Register(d) \/ Heartbeat(d) \/ AssignGroup(d) \/ Decommission(d)
      PROVE  CallMatchesRow'
  <2>1. call' = Idle
    BY <1>1 DEF Register, Heartbeat, AssignGroup, Decommission
  <2> QED
    BY <2>1 DEF Idle
<1>2. ASSUME NEW f \in FirmwareIds, Upload(f) \/ \E s \in Releases : Release(f, s)
      PROVE  CallMatchesRow'
  BY <1>2 DEF Upload, Release, Idle
<1>3. ASSUME BeginCall PROVE CallMatchesRow'
  <2>1. ASSUME NEW x \in DeploymentIds, NEW f \in FirmwareIds, NEW d \in DeviceIds,
               CreateDeployment(x, f, d)
        PROVE  CallMatchesRow'
    BY <2>1 DEF CreateDeployment, Idle
  <2>2. ASSUME NEW x \in DeploymentIds, NEW s \in DeploymentStatus, NEW e \in BOOLEAN,
               UpdateDeploymentStatus(x, s, e)
        PROVE  deployments'[x].status = s
    <3> DEFINE row == [deployments[x] EXCEPT
              !.status = s, !.started = @ \/ s = "in_progress",
              !.finished = @ \/ s \in Terminal,
              !.error = IF s \in Terminal THEN e ELSE @]
    <3>1. deployments \in [DeploymentIds -> DeploymentRow]
      BY DEF TypeOK, StoreTypeOK
    <3>2. row.status = s
      BY <3>1 DEF DeploymentRow
    <3>3. deployments'[x] = row
      BY <2>2, <3>1 DEF UpdateDeploymentStatus
    <3> QED
      BY <3>2, <3>3
  <2>3. ASSUME NEW x \in DeploymentIds,
               \/ StartDeployment(x) \/ CompleteDeployment(x) \/ CancelDeployment(x)
        PROVE  CallMatchesRow'
    <3>1. CASE StartDeployment(x)
      <4>1. deployments'[x].status = "in_progress"
        BY <2>2, <3>1 DEF StartDeployment, DeploymentStatus
      <4> QED
        BY <3>1, <4>1 DEF StartDeployment
    <3>2. CASE CompleteDeployment(x)
      <4>1. deployments'[x].status = "completed"
        BY <2>2, <3>2 DEF CompleteDeployment, DeploymentStatus
      <4> QED
        BY <3>2, <4>1 DEF CompleteDeployment
    <3>3. CASE CancelDeployment(x)
      <4>1. deployments'[x].status = "failed"
        BY <2>2, <3>3 DEF CancelDeployment, DeploymentStatus
      <4> QED
        BY <3>3, <4>1 DEF CancelDeployment
    <3> QED
      BY <2>3, <3>1, <3>2, <3>3
  <2>4. ASSUME NEW f \in FirmwareIds, NEW g \in Groups, DeployToGroup(f, g)
        PROVE  CallMatchesRow'
    BY <2>4 DEF DeployToGroup, Members
  <2> QED
    BY <1>3, <2>1, <2>3, <2>4 DEF BeginCall
<1>4. ASSUME FinishUpdateCall PROVE CallMatchesRow'
  BY <1>4 DEF FinishUpdateCall, MarkDevice, RecordVersion, Idle
<1>5. ASSUME ContinueGroupCall PROVE CallMatchesRow'
  <2>1. PICK x \in DeploymentIds : DeployToNextMember(x)
    BY <1>5 DEF ContinueGroupCall
  <2>2. PICK d \in call.todo :
          call' = IF call.todo = {d} THEN Idle ELSE [call EXCEPT !.todo = @ \ {d}]
    BY <2>1 DEF DeployToNextMember
  <2>3. CASE call.todo = {d}
    BY <2>2, <2>3 DEF Idle
  <2>4. CASE call.todo # {d}
    <3>1. call \in [op : {"group"}, fw : FirmwareIds, group : Groups,
                    todo : SUBSET DeviceIds]
      BY <2>1 DEF DeployToNextMember, TypeOK, CallState, Idle
    <3>2. /\ call'.op = "group" /\ call'.fw = call.fw
          /\ call'.todo = call.todo \ {d}
      BY <2>2, <2>4, <3>1
    <3>3. UNCHANGED <<devices, firmware>> /\ call.op = "group"
      BY <2>1 DEF DeployToNextMember
    <3> QED
      BY <2>2, <2>4, <3>2, <3>3
  <2> QED
    BY <2>3, <2>4
<1>6. ASSUME Interrupt PROVE CallMatchesRow'
  BY <1>6 DEF Interrupt, Idle
<1>7. CASE UNCHANGED vars
  BY <1>7 DEF vars
<1> QED
  BY <1>1, <1>2, <1>3, <1>4, <1>5, <1>6, <1>7 DEF Next, ContinueCall

\* No step leaves a deployment without its firmware or its device.
LEMMA ReferencesStep ==
  ASSUME TypeOK, CallMatchesRow, ReferencesExist, [Next]_vars
  PROVE  ReferencesExist'
<1> SUFFICES ASSUME NEW x \in DeploymentIds, DeploymentExists(x)'
             PROVE  /\ FirmwareExists(deployments[x].fw)'
                    /\ DeviceExists(deployments[x].dev)'
  BY DEF ReferencesExist
<1>1. \A y \in DeploymentIds :
        deployments[y].fw \in FirmwareIds /\ deployments[y].dev \in DeviceIds
  BY DEF TypeOK, StoreTypeOK, DeploymentRow
<1>2. TypeOK'
  BY TypeStep
<1>3. deployments'[x].fw \in FirmwareIds /\ deployments'[x].dev \in DeviceIds
  BY <1>2 DEF TypeOK, StoreTypeOK, DeploymentRow
<1>4. CASE DeploymentExists(x)
  <2>1. /\ deployments'[x].fw = deployments[x].fw
        /\ deployments'[x].dev = deployments[x].dev
    BY <1>4, RowEffect
  <2>2. FirmwareExists(deployments[x].fw) /\ DeviceExists(deployments[x].dev)
    BY <1>4 DEF ReferencesExist
  <2> QED
    BY <1>1, <2>1, <2>2, RowsPersist
<1>5. CASE ~DeploymentExists(x)
  <2>1. FirmwareExists(deployments'[x].fw) /\ DeviceExists(deployments'[x].dev)
    BY <1>5, RowEffect
  <2> QED
    BY <1>3, <2>1, RowsPersist
<1> QED
  BY <1>4, <1>5

\* No step sets a status without the columns that go with it.
LEMMA ColumnsStep ==
  ASSUME TypeOK, CallMatchesRow, ColumnsTellHistory, [Next]_vars
  PROVE  ColumnsTellHistory'
<1> SUFFICES ASSUME NEW x \in DeploymentIds
             PROVE  LET row == deployments'[x]
                    IN /\ row.status = "pending" => ~row.started /\ ~row.finished
                       /\ row.status = "in_progress" => row.started /\ ~row.finished
                       /\ row.status = "completed"
                            => row.started /\ row.finished /\ ~row.error
                       /\ row.status = "failed" => row.finished /\ row.error
  BY DEF ColumnsTellHistory
<1> QED
  BY RowEffect DEF ColumnsTellHistory

-----------------------------------------------------------------------------
\* What a step can do to a device that is settled and not drifted after it:
\* leave its status and its deployments alone, overwrite the status from
\* outside, or finish a handler of one of its deployments.
Untouched(d) ==
  /\ d \notin drifted /\ Settled(d)
  /\ devices'[d].status = devices[d].status
  /\ \A x \in DeploymentIds :
       \/ deployments'[x] = deployments[x]
       \/ ~DeploymentExists(x) /\ deployments'[x].status = "pending"
       \/ deployments[x].dev # d /\ deployments'[x].dev # d
Overwritten(d) ==
  /\ UNCHANGED deployments
  /\ \/ devices'[d].status = "registered" /\ ~DeviceExists(d)
     \/ devices'[d].status = "revoked"
Finished(d) ==
  /\ UNCHANGED deployments
  /\ \E x \in DeploymentIds :
       /\ deployments[x].dev = d
       /\ \/ deployments[x].status = "in_progress" /\ devices'[d].status = "updating"
          \/ deployments[x].status \in Terminal /\ devices'[d].status = "active"

\* Every step treats a device that is not drifted in one of those ways.
LEMMA StepOnDevice ==
  ASSUME TypeOK, CallMatchesRow, [Next]_vars, NEW d \in DeviceIds,
         ReferencesExist, d \notin drifted', Settled(d)'
  PROVE  Untouched(d) \/ Overwritten(d) \/ Finished(d)
<1> DEFINE Goal == Untouched(d) \/ Overwritten(d) \/ Finished(d)
<1> SUFFICES Goal
  OBVIOUS
<1>0. /\ devices \in [DeviceIds -> DeviceRow]
      /\ deployments \in [DeploymentIds -> DeploymentRow]
  BY DEF TypeOK, StoreTypeOK
<1>1. ASSUME NEW e \in DeviceIds, Register(e) PROVE Goal
  <2>1. PICK row : row.status = "registered" /\ SaveDevice(e, row) /\ ~DeviceExists(e)
    BY <1>1 DEF Register, RegisterDevice
  <2>2. call' = Idle /\ call = Idle /\ drifted' = drifted /\ UNCHANGED deployments
    BY <1>1 DEF Register, RegisterDevice
  <2>3. CASE e = d
    BY <1>0, <2>1, <2>2, <2>3 DEF SaveDevice, Overwritten
  <2>4. CASE e # d
    BY <1>0, <2>1, <2>2, <2>4 DEF SaveDevice, Untouched, Settled, Idle
  <2> QED
    BY <2>3, <2>4
<1>2. ASSUME NEW e \in DeviceIds, Heartbeat(e) PROVE Goal
  <2>1. PICK row : UpdateDevice(e, row)
    BY <1>2 DEF Heartbeat, ProcessHeartbeat
  <2>2. call = Idle /\ drifted' = drifted \cup {e} /\ UNCHANGED deployments
    BY <1>2 DEF Heartbeat, ProcessHeartbeat
  <2> QED
    BY <1>0, <2>1, <2>2 DEF UpdateDevice, Untouched, Settled, Idle
<1>3. ASSUME NEW e \in DeviceIds, AssignGroup(e) PROVE Goal
  <2>1. PICK g \in Groups : UpdateDevice(e, [devices[e] EXCEPT !.group = g])
    BY <1>3 DEF AssignGroup, AssignDeviceToGroup
  <2>2. [devices[e] EXCEPT !.group = g].status = devices[e].status
    BY <1>0 DEF DeviceRow
  <2>3. call = Idle /\ drifted' = drifted /\ UNCHANGED deployments
    BY <1>3 DEF AssignGroup, AssignDeviceToGroup
  <2> QED
    BY <1>0, <2>1, <2>2, <2>3 DEF UpdateDevice, Untouched, Settled, Idle
<1>4. ASSUME NEW e \in DeviceIds, Decommission(e) PROVE Goal
  <2>1. /\ UpdateDevice(e, [devices[e] EXCEPT !.status = "revoked"])
        /\ DeviceExists(e)
        /\ call = Idle /\ drifted' = drifted \ {e} /\ UNCHANGED deployments
    BY <1>4 DEF Decommission, DecommissionDevice
  <2>2. [devices[e] EXCEPT !.status = "revoked"].status = "revoked"
    BY <1>0 DEF DeviceRow
  <2>3. CASE e = d
    BY <1>0, <2>1, <2>2, <2>3 DEF UpdateDevice, Overwritten
  <2>4. CASE e # d
    BY <1>0, <2>1, <2>4 DEF UpdateDevice, Untouched, Settled, Idle
  <2> QED
    BY <2>3, <2>4
<1>5. ASSUME NEW f \in FirmwareIds, Upload(f) \/ \E s \in Releases : Release(f, s)
      PROVE  Goal
  <2>1. call = Idle /\ drifted' = drifted /\ UNCHANGED <<devices, deployments>>
    BY <1>5 DEF Upload, Release
  <2> QED
    BY <2>1 DEF Untouched, Settled, Idle
<1>6. ASSUME NEW x \in DeploymentIds, NEW f \in FirmwareIds, NEW e \in DeviceIds,
             CreateDeployment(x, f, e), drifted' = drifted
      PROVE  Goal
  BY <1>0, <1>6 DEF CreateDeployment, SaveDeployment, Untouched, Settled, Idle
<1>7. ASSUME NEW x \in DeploymentIds, drifted' = drifted,
             StartDeployment(x) \/ CompleteDeployment(x) \/ CancelDeployment(x)
      PROVE  Goal
  <2>0. /\ call = Idle /\ UNCHANGED devices
        /\ \/ call' = [op |-> "start", dep |-> x]
           \/ call' = [op |-> "complete", dep |-> x]
           \/ call' = [op |-> "cancel", dep |-> x]
    BY <1>7 DEF StartDeployment, CompleteDeployment, CancelDeployment
  <2>1. call'.dep = x /\ call'.op \in {"start", "complete", "cancel"}
    BY <2>0
  <2>2. DeploymentExists(x)
    BY <1>7 DEF StartDeployment, CompleteDeployment, CancelDeployment
  <2>3. deployments'[x].dev = deployments[x].dev
    BY <2>2, RowEffect
  <2>4. deployments[x].dev # d
    BY <2>1, <2>3 DEF Settled
  <2>5. \A y \in DeploymentIds \ {x} : deployments'[y] = deployments[y]
    BY <1>0, <1>7 DEF StartDeployment, CompleteDeployment, CancelDeployment,
       UpdateDeploymentStatus
  <2> QED
    BY <1>7, <2>0, <2>3, <2>4, <2>5 DEF Untouched, Settled, Idle
<1>8. ASSUME NEW f \in FirmwareIds, NEW g \in Groups, DeployToGroup(f, g),
             drifted' = drifted
      PROVE  Goal
  BY <1>8 DEF DeployToGroup, Untouched, Settled, Idle
<1>9. ASSUME FinishUpdateCall PROVE Goal
  <2> DEFINE e == deployments[call.dep].dev
             f == deployments[call.dep].fw
  <2>1. call.op \in {"start", "complete", "cancel"} /\ UNCHANGED deployments
    BY <1>9 DEF FinishUpdateCall, MarkDevice, RecordVersion
  <2>2. call.dep \in DeploymentIds
    BY <2>1 DEF TypeOK, CallState, Idle
  <2>3. e \in DeviceIds /\ devices[e] \in DeviceRow
    BY <1>0, <2>2 DEF DeploymentRow
  <2>4. drifted' = drifted \ {e}
    BY <1>9 DEF FinishUpdateCall
  <2>5. PICK row : /\ UpdateDevice(e, row)
                   /\ row.status = IF call.op = "start" THEN "updating" ELSE "active"
    <3>1. /\ [devices[e] EXCEPT !.status = "updating"].status = "updating"
          /\ [devices[e] EXCEPT !.status = "active"].status = "active"
          /\ [devices[e] EXCEPT !.status = "active",
                !.version = IF FirmwareExists(f) THEN firmware[f].version ELSE @].status
               = "active"
      BY <2>3 DEF DeviceRow
    <3> QED
      BY <1>9, <3>1 DEF FinishUpdateCall, MarkDevice, RecordVersion
  <2>6. CASE e # d
    BY <1>0, <2>1, <2>3, <2>4, <2>5, <2>6 DEF UpdateDevice, Untouched, Settled
  <2>7. CASE e = d /\ DeviceExists(d)
    <3>1. devices'[d].status = IF call.op = "start" THEN "updating" ELSE "active"
      BY <1>0, <2>5, <2>7 DEF UpdateDevice
    <3>2. \/ call.op = "start" /\ deployments[call.dep].status = "in_progress"
          \/ call.op # "start" /\ deployments[call.dep].status \in Terminal
      BY <2>1 DEF CallMatchesRow
    <3> QED
      BY <2>1, <2>2, <2>7, <3>1, <3>2 DEF Finished
  <2>8. CASE e = d /\ ~DeviceExists(d)
    BY <2>1, <2>2, <2>8 DEF CallMatchesRow, ReferencesExist
  <2> QED
    BY <2>6, <2>7, <2>8
<1>10. ASSUME ContinueGroupCall PROVE Goal
  <2>1. PICK x \in DeploymentIds : DeployToNextMember(x)
    BY <1>10 DEF ContinueGroupCall
  <2>2. PICK e \in call.todo : SaveDeployment(x, call.fw, e)
    BY <2>1 DEF DeployToNextMember
  <2>3. /\ call.op = "group" /\ ~DeploymentExists(x)
        /\ drifted' = drifted /\ UNCHANGED devices
    BY <1>10, <2>1 DEF ContinueGroupCall, DeployToNextMember
  <2>4. \A y \in DeploymentIds : \/ deployments'[y] = deployments[y]
                                 \/ y = x /\ deployments'[y].status = "pending"
    BY <1>0, <2>2 DEF SaveDeployment
  <2> QED
    BY <2>3, <2>4 DEF Untouched, Settled
<1>11. ASSUME Interrupt PROVE Goal
  BY <1>11 DEF Interrupt, Untouched, Settled
<1>12. CASE UNCHANGED vars
  BY <1>12 DEF vars, Untouched, Settled
<1>13. ASSUME BeginCall PROVE Goal
  BY <1>6, <1>7, <1>8, <1>13 DEF BeginCall
<1> QED
  BY <1>1, <1>2, <1>3, <1>4, <1>5, <1>9, <1>10, <1>11, <1>12, <1>13
     DEF Next, ContinueCall

\* No step leaves a device marked as updating with no deployment behind it.
LEMMA UpdatingStep ==
  ASSUME TypeOK, CallMatchesRow, ReferencesExist, UpdatingHasDeployment, [Next]_vars
  PROVE  UpdatingHasDeployment'
<1> SUFFICES ASSUME NEW d \in DeviceIds, devices'[d].status = "updating",
                    d \notin drifted', Settled(d)'
             PROVE  \E x \in DeploymentIds :
                      deployments'[x].dev = d /\ deployments'[x].status = "in_progress"
  BY DEF UpdatingHasDeployment
<1>1. CASE Untouched(d)
  <2>1. PICK x \in DeploymentIds :
          deployments[x].dev = d /\ deployments[x].status = "in_progress"
    BY <1>1 DEF Untouched, UpdatingHasDeployment
  <2> QED
    BY <1>1, <2>1 DEF Untouched
<1>2. CASE Overwritten(d)
  BY <1>2 DEF Overwritten
<1>3. CASE Finished(d)
  BY <1>3 DEF Finished
<1> QED
  BY <1>1, <1>2, <1>3, StepOnDevice

\* No step takes the mark from a device with a deployment in progress, unless
\* another deployment of that device ended.
LEMMA MarkLostStep ==
  ASSUME TypeOK, CallMatchesRow, ReferencesExist, MarkLostOnlyToAnother, [Next]_vars
  PROVE  MarkLostOnlyToAnother'
<1> SUFFICES ASSUME NEW x \in DeploymentIds, NEW d \in DeviceIds,
                    deployments'[x].dev = d, deployments'[x].status = "in_progress",
                    d \notin drifted', Settled(d)'
             PROVE  \/ devices'[d].status \in {"updating", "revoked"}
                    \/ \E y \in DeploymentIds \ {x} :
                         deployments'[y].dev = d /\ deployments'[y].status \in Terminal
  <2>1. TypeOK'
    BY TypeStep
  <2>2. \A x \in DeploymentIds : deployments'[x].dev \in DeviceIds
    BY <2>1 DEF TypeOK, StoreTypeOK, DeploymentRow
  <2> QED
    BY <2>2 DEF MarkLostOnlyToAnother
<1>1. CASE Untouched(d)
  <2>1. deployments[x].dev = d /\ deployments[x].status = "in_progress"
    BY <1>1 DEF Untouched
  <2>2. \/ devices[d].status \in {"updating", "revoked"}
        \/ \E y \in DeploymentIds \ {x} :
             deployments[y].dev = d /\ deployments[y].status \in Terminal
    BY <1>1, <2>1 DEF Untouched, MarkLostOnlyToAnother
  <2> QED
    BY <1>1, <2>2 DEF Untouched
<1>2. CASE Overwritten(d)
  BY <1>2 DEF Overwritten, ReferencesExist
<1>3. CASE Finished(d)
  BY <1>3 DEF Finished
<1> QED
  BY <1>1, <1>2, <1>3, StepOnDevice

-----------------------------------------------------------------------------
\* The inductive invariant: the two statements about a device's mark rest on
\* the deployment rows being what the handler in flight left there, and on no
\* deployment pointing at a device that is not registered yet.
IInv ==
  /\ TypeOK /\ CallMatchesRow /\ ReferencesExist /\ ColumnsTellHistory
  /\ UpdatingHasDeployment /\ MarkLostOnlyToAnother

\* The empty store satisfies the invariant.
LEMMA IInvInit == Init => IInv
<1> SUFFICES ASSUME Init PROVE IInv
  OBVIOUS
<1>1. TypeOK
  BY TypeInit
<1>2. /\ \A x \in DeploymentIds : deployments[x].status = NoRow
      /\ \A d \in DeviceIds : devices[d].status = NoRow
      /\ call.op = "idle"
  BY DEF Init, StoreInit, Idle
<1> QED
  BY <1>1, <1>2 DEF IInv, CallMatchesRow, ReferencesExist, ColumnsTellHistory,
     UpdatingHasDeployment, MarkLostOnlyToAnother

\* Every step keeps the invariant.
LEMMA IInvStep == IInv /\ [Next]_vars => IInv'
BY TypeStep, CallMatchesStep, ReferencesStep, ColumnsStep, UpdatingStep,
   MarkLostStep DEF IInv

\* The invariant holds in every state the server reaches.
LEMMA Inductive == Spec => []IInv
BY IInvInit, IInvStep, PTL DEF Spec

\* A device shown as updating has a deployment in progress, however requests,
\* heartbeats and cut handlers interleave (update_manager.py).
THEOREM UpdatingIsBacked == Spec => []UpdatingHasDeployment
<1>1. IInv => UpdatingHasDeployment
  BY DEF IInv
<1> QED
  BY <1>1, Inductive, PTL

\* A deployment in progress loses its device's mark only to another deployment
\* of that device, or to decommissioning (update_manager.py).
THEOREM MarkLossIsExplained == Spec => []MarkLostOnlyToAnother
<1>1. IInv => MarkLostOnlyToAnother
  BY DEF IInv
<1> QED
  BY <1>1, Inductive, PTL

\* Deployments never dangle, although the schema declares no foreign key.
THEOREM ReferencesHold == Spec => []ReferencesExist
<1>1. IInv => ReferencesExist
  BY DEF IInv
<1> QED
  BY <1>1, Inductive, PTL

\* The timestamps and the error column tell each deployment's history.
THEOREM ColumnsHold == Spec => []ColumnsTellHistory
<1>1. IInv => ColumnsTellHistory
  BY DEF IInv
<1> QED
  BY <1>1, Inductive, PTL

-----------------------------------------------------------------------------
\* The empty table is the lifecycle's initial state.
LEMMA LifecycleInit == Init => Lifecycle!Init
<1> SUFFICES ASSUME Init PROVE Lifecycle!Init
  OBVIOUS
<1>1. \A x \in DeploymentIds : deployments[x].status = "none"
  BY DEF Init, StoreInit
<1> QED
  BY <1>1 DEF Lifecycle!Init

\* Every step of the server is a step of the lifecycle or leaves it as it is.
LEMMA LifecycleStep ==
  ASSUME TypeOK, CallMatchesRow, [Next]_vars
  PROVE  [Lifecycle!Next]_([x \in DeploymentIds |-> deployments[x].status])
<1> DEFINE st == [x \in DeploymentIds |-> deployments[x].status]
<1>0. deployments \in [DeploymentIds -> DeploymentRow]
  BY DEF TypeOK, StoreTypeOK
<1>1. CASE UNCHANGED deployments
  BY <1>1
<1>2. ASSUME NEW x \in DeploymentIds, deployments'[x].status # deployments[x].status,
             \A y \in DeploymentIds \ {x} : deployments'[y] = deployments[y]
      PROVE  Lifecycle!Next
  <2>1. st' = [st EXCEPT ![x] = deployments'[x].status]
    <3>1. \A y \in DeploymentIds :
            deployments'[y].status = IF y = x THEN deployments'[x].status
                                     ELSE deployments[y].status
      BY <1>2
    <3> QED
      BY <3>1
  <2>2. \/ deployments[x].status = "none" /\ deployments'[x].status = "pending"
        \/ deployments[x].status = "pending" /\ deployments'[x].status = "in_progress"
        \/ deployments[x].status = "in_progress" /\ deployments'[x].status = "completed"
        \/ /\ deployments[x].status \in {"pending", "in_progress"}
           /\ deployments'[x].status = "failed"
    BY <1>2, RowEffect
  <2> QED
    BY <2>1, <2>2 DEF Lifecycle!Next, Lifecycle!Create, Lifecycle!Start,
       Lifecycle!Complete, Lifecycle!Fail, Lifecycle!Move
<1>3. \/ UNCHANGED deployments
      \/ \E x \in DeploymentIds : \A y \in DeploymentIds \ {x} :
           deployments'[y] = deployments[y]
  BY <1>0, StepOfDeployments DEF DeploymentStep, SaveDeployment, UpdateDeploymentStatus
<1> QED
  <2>1. ASSUME NEW x \in DeploymentIds,
               \A y \in DeploymentIds \ {x} : deployments'[y] = deployments[y],
               deployments'[x].status = deployments[x].status
        PROVE  st' = st
    BY <2>1
  <2> QED
    BY <1>1, <1>2, <1>3, <2>1

\* The server implements the abstract lifecycle of a deployment: whatever is
\* interleaved or cut short, it is created, started and ended at most once.
THEOREM ImplementsLifecycle == Spec => FollowsLifecycle
<1>1. IInv /\ [Next]_vars
        => [Lifecycle!Next]_([x \in DeploymentIds |-> deployments[x].status])
  BY LifecycleStep DEF IInv
<1> QED
  BY <1>1, LifecycleInit, Inductive, PTL DEF Spec, FollowsLifecycle, Lifecycle!Spec

-----------------------------------------------------------------------------
\* A recorded version moves in one step only by a heartbeat or by the second
\* commit of a deployment that completed.
LEMMA VersionStep ==
  ASSUME IInv, Next, NEW d \in DeviceIds, DeviceExists(d),
         devices'[d].version # devices[d].version, d \notin drifted'
  PROVE  \E x \in DeploymentIds :
           /\ deployments[x].dev = d
           /\ deployments[x].status = "completed"
           /\ firmware[deployments[x].fw].version = devices'[d].version
<1>1. /\ devices \in [DeviceIds -> DeviceRow]
      /\ deployments \in [DeploymentIds -> DeploymentRow]
      /\ CallMatchesRow /\ ReferencesExist
      /\ \A e \in DeviceIds : devices[e] \in DeviceRow
  BY DEF IInv, TypeOK, StoreTypeOK
<1>2. ASSUME devices' = devices PROVE FALSE
  BY <1>2
<1>3. ASSUME NEW e, NEW row, UpdateDevice(e, row), row.version = devices[e].version
      PROVE  FALSE
  BY <1>1, <1>3 DEF UpdateDevice
<1>4. ASSUME NEW e \in DeviceIds, Register(e) PROVE FALSE
  BY <1>1, <1>4 DEF Register, RegisterDevice, SaveDevice
<1>5. ASSUME NEW e \in DeviceIds, Heartbeat(e) PROVE FALSE
  BY <1>1, <1>5 DEF Heartbeat, ProcessHeartbeat, UpdateDevice
<1>6. ASSUME NEW e \in DeviceIds, AssignGroup(e) \/ Decommission(e) PROVE FALSE
  <2>1. PICK row : UpdateDevice(e, row) /\ row.version = devices[e].version
    <3>1. /\ \A g : [devices[e] EXCEPT !.group = g].version = devices[e].version
          /\ [devices[e] EXCEPT !.status = "revoked"].version = devices[e].version
      BY <1>1 DEF DeviceRow
    <3> QED
      BY <1>6, <3>1 DEF AssignGroup, AssignDeviceToGroup, Decommission, DecommissionDevice
  <2> QED
    BY <1>3, <2>1
<1>7. ASSUME FinishUpdateCall
      PROVE  \E x \in DeploymentIds :
               /\ deployments[x].dev = d
               /\ deployments[x].status = "completed"
               /\ firmware[deployments[x].fw].version = devices'[d].version
  <2> DEFINE x == call.dep
             e == deployments[x].dev
             f == deployments[x].fw
  <2>1. x \in DeploymentIds /\ e \in DeviceIds
    <3>1. call.op \in {"start", "complete", "cancel"}
      BY <1>7 DEF FinishUpdateCall, MarkDevice, RecordVersion
    <3>2. x \in DeploymentIds
      BY <3>1 DEF IInv, TypeOK, CallState, Idle
    <3> QED
      BY <1>1, <3>2 DEF DeploymentRow
  <2>2. ASSUME NEW op, NEW s, MarkDevice(op, s) PROVE FALSE
    <3>1. [devices[e] EXCEPT !.status = s].version = devices[e].version
      BY <1>1, <2>1 DEF DeviceRow
    <3> QED
      BY <1>3, <2>2, <3>1 DEF MarkDevice
  <2>3. RecordVersion
    BY <1>7, <2>2 DEF FinishUpdateCall
  <2>4. deployments[x].status = "completed" /\ DeploymentExists(x)
    BY <1>1, <2>3 DEF RecordVersion, CallMatchesRow, DeploymentExists
  <2>5. FirmwareExists(f)
    BY <1>1, <2>1, <2>4 DEF ReferencesExist
  <2>6. UpdateDevice(e, [devices[e] EXCEPT !.status = "active",
                           !.version = firmware[f].version])
    BY <2>3, <2>5 DEF RecordVersion
  <2>7. e = d /\ devices'[d].version = firmware[f].version
    BY <1>1, <2>1, <2>6 DEF UpdateDevice, DeviceRow
  <2> QED
    BY <2>1, <2>4, <2>7
<1> QED
  BY <1>2, <1>4, <1>5, <1>6, <1>7 DEF Next, Upload, Release, BeginCall, CreateDeployment,
     StartDeployment, CompleteDeployment, CancelDeployment, DeployToGroup, ContinueCall,
     ContinueGroupCall, DeployToNextMember, Interrupt, store

\* The version recorded for a device moves only by its own heartbeat or by a
\* completed deployment of that version to it, wherever handlers are cut.
THEOREM VersionsAreEarned == Spec => VersionIsEarned
<1>1. IInv /\ [Next]_vars =>
        [\A d \in DeviceIds :
           DeviceExists(d) /\ devices'[d].version # devices[d].version =>
             \/ d \in drifted'
             \/ \E x \in DeploymentIds :
                  /\ deployments[x].dev = d
                  /\ deployments[x].status = "completed"
                  /\ firmware[deployments[x].fw].version = devices'[d].version]_vars
  BY VersionStep
<1> QED
  BY <1>1, Inductive, PTL DEF Spec, VersionIsEarned

-----------------------------------------------------------------------------
\* The second commit of complete, when its deployment is of an offered image,
\* gives the device the highest version published for its type.
LEMMA SettlingStep ==
  ASSUME IInv, RecordVersion, NEW d \in DeviceIds,
         deployments[call.dep].dev = d, deployments[call.dep].fw \in Offers(d)
  PROVE  Offers(d)' = {}
<1> DEFINE f == deployments[call.dep].fw
           row == [devices[d] EXCEPT !.status = "active",
                                     !.version = firmware[f].version]
<1>1. /\ devices \in [DeviceIds -> DeviceRow] /\ firmware \in [FirmwareIds -> FirmwareRow]
      /\ deployments \in [DeploymentIds -> DeploymentRow]
      /\ CallMatchesRow /\ ReferencesExist
  BY DEF IInv, TypeOK, StoreTypeOK
<1>2. call.dep \in DeploymentIds
  BY DEF RecordVersion, IInv, TypeOK, CallState, Idle
<1>3. deployments[call.dep].status = "completed" /\ DeploymentExists(call.dep)
  BY <1>1 DEF RecordVersion, CallMatchesRow, DeploymentExists
<1>4. FirmwareExists(f) /\ DeviceExists(d)
  BY <1>1, <1>2, <1>3 DEF ReferencesExist
<1>5. devices' = [devices EXCEPT ![d] = row] /\ firmware' = firmware
  BY <1>4 DEF RecordVersion, UpdateDevice
<1>6. /\ devices'[d].type = devices[d].type
      /\ devices'[d].version = firmware[f].version
  <2>1. devices[d] \in DeviceRow /\ devices'[d] = row
    BY <1>1, <1>5
  <2> HIDE DEF row
  <2>2. row.type = devices[d].type /\ row.version = firmware[f].version
    BY <2>1 DEF row, DeviceRow
  <2> QED
    BY <2>1, <2>2
<1>7. /\ f \in FirmwareIds
      /\ \A g \in Published(devices[d].type) :
           g \in FirmwareIds /\ firmware[g].version <= firmware[f].version
  BY DEF Offers, Published
<1>8. \A g \in FirmwareIds : firmware[g].version \in Versions
  BY <1>1 DEF FirmwareRow
<1> SUFFICES ASSUME NEW g \in Published(devices[d].type)
             PROVE  ~NewerThan(firmware[g].version, firmware[f].version)
  BY <1>5, <1>6 DEF Offers, Published
<1> QED
  BY <1>7, <1>8, SMT DEF NewerThan, Versions, NoVersion

\* A device that was given the image it was offered is offered nothing next,
\* whatever other deployments and heartbeats came before.
THEOREM OfferSettles == Spec => CompletedOfferSettles
<1>1. ASSUME IInv, Next, NEW d \in DeviceIds, call.op = "complete",
             deployments[call.dep].dev = d, call' = Idle, interrupts' = interrupts,
             deployments[call.dep].fw \in Offers(d)
      PROVE  Offers(d)' = {}
  <2>1. call # Idle /\ call # call'
    BY <1>1 DEF Idle
  <2>2. ASSUME NEW op \in {"start", "cancel"}, NEW s, MarkDevice(op, s) PROVE FALSE
    BY <1>1, <2>2 DEF MarkDevice
  <2>3. ASSUME ContinueGroupCall PROVE FALSE
    BY <1>1, <2>3 DEF ContinueGroupCall, DeployToNextMember
  <2>4. ASSUME Interrupt PROVE FALSE
    <3>1. interrupts \in Nat
      BY <1>1 DEF IInv, TypeOK
    <3> QED
      BY <1>1, <2>4, <3>1 DEF Interrupt
  <2>5. ~BeginCall
    BY <2>1 DEF BeginCall, CreateDeployment, StartDeployment, CompleteDeployment,
       CancelDeployment, DeployToGroup
  <2>6. RecordVersion
    BY <1>1, <2>1, <2>2, <2>3, <2>4, <2>5 DEF Next, Register, Heartbeat, AssignGroup,
       Decommission, Upload, Release, ContinueCall, FinishUpdateCall
  <2> QED
    BY <1>1, <2>6, SettlingStep
<1>2. IInv /\ [Next]_vars =>
        [\A d \in DeviceIds :
           /\ call.op = "complete" /\ deployments[call.dep].dev = d
           /\ call' = Idle /\ interrupts' = interrupts
           /\ deployments[call.dep].fw \in Offers(d)
           => Offers(d)' = {}]_vars
  BY <1>1
<1> QED
  BY <1>2, Inductive, PTL DEF Spec, CompletedOfferSettles
=============================================================================

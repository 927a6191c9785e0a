------------------------------ MODULE OtaStore ------------------------------
(***************************************************************************)
(* The tables the OTA services share (app/db/sqlite_store.py): devices,    *)
(* firmware and deployments.  Every operator that primes a table is one    *)
(* method of SQLiteStore, that is one statement and its own commit; no     *)
(* method deletes a row and the schema declares no foreign key.            *)
(*                                                                         *)
(* A row that does not exist yet has status NoRow.  Timestamps are reduced *)
(* to whether the column is set.  A firmware version is the rank of its    *)
(* SemVer string (module Versioning compares the strings); a device row    *)
(* may also hold NULL or a string that does not parse.                     *)
(***************************************************************************)
EXTENDS Integers, FiniteSets

CONSTANTS
  DeviceIds, FirmwareIds, DeploymentIds,  \* the uuid4 values handed out
  DeviceTypes,                            \* hardware / product-line names
  Groups,                                 \* group names
  ReportedStatuses,                       \* status strings heartbeats carry
  MaxVersion                              \* bound: number of SemVer ranks

NoRow == "none"                           \* in no row: there is none

ASSUME StoreAssumption ==
  /\ DeviceIds # {} /\ FirmwareIds # {} /\ DeviceTypes # {}
  /\ MaxVersion \in Nat \ {0}
  /\ NoRow \notin ReportedStatuses

VARIABLES devices, firmware, deployments

NoGroup == "no group"                     \* group_name IS NULL
NoVersion == 0                            \* firmware_version IS NULL
Unparsable == MaxVersion + 1              \* a string SemanticVersion rejects
Versions == 1 .. MaxVersion

DeviceStatus ==
  {"registered", "active", "updating", "update_failed", "inactive", "revoked"}
FirmwareStatus == {"draft", "signed", "published", "deprecated"}
DeploymentStatus == {"pending", "in_progress", "completed", "failed"}
Terminal == {"completed", "failed"}

\* The column is TEXT and a heartbeat writes into it what the device sent.
DeviceRow ==
  [status : DeviceStatus \cup ReportedStatuses \cup {NoRow}, type : DeviceTypes,
   version : Versions \cup {NoVersion, Unparsable},
   group : Groups \cup {NoGroup}, heard : BOOLEAN]   \* last_heartbeat set
FirmwareRow ==
  [status : FirmwareStatus \cup {NoRow}, type : DeviceTypes, version : Versions]
DeploymentRow ==
  [status : DeploymentStatus \cup {NoRow}, fw : FirmwareIds, dev : DeviceIds,
   started : BOOLEAN, finished : BOOLEAN, error : BOOLEAN]

StoreTypeOK ==
  /\ devices \in [DeviceIds -> DeviceRow]
  /\ firmware \in [FirmwareIds -> FirmwareRow]
  /\ deployments \in [DeploymentIds -> DeploymentRow]

AnyOf(S) == CHOOSE e \in S : TRUE         \* fills the columns of a missing row

StoreInit ==
  /\ devices = [d \in DeviceIds |->
       [status |-> NoRow, type |-> AnyOf(DeviceTypes), version |-> NoVersion,
        group |-> NoGroup, heard |-> FALSE]]
  /\ firmware = [f \in FirmwareIds |->
       [status |-> NoRow, type |-> AnyOf(DeviceTypes), version |-> 1]]
  /\ deployments = [x \in DeploymentIds |->
       [status |-> NoRow, fw |-> AnyOf(FirmwareIds), dev |-> AnyOf(DeviceIds),
        started |-> FALSE, finished |-> FALSE, error |-> FALSE]]

\* get_device, get_firmware and get_deployment return None otherwise.
DeviceExists(d) == devices[d].status # NoRow
FirmwareExists(f) == firmware[f].status # NoRow
DeploymentExists(x) == deployments[x].status # NoRow

-----------------------------------------------------------------------------
\* save_device: INSERT OR REPLACE of a whole row.
SaveDevice(d, row) == devices' = [devices EXCEPT ![d] = row]

\* update_device: UPDATE ... WHERE device_id = ?, without effect on no row.
UpdateDevice(d, row) ==
  devices' = IF DeviceExists(d) THEN [devices EXCEPT ![d] = row] ELSE devices

SaveFirmware(f, row) == firmware' = [firmware EXCEPT ![f] = row]

\* update_firmware_status does not look at the status it replaces.
UpdateFirmwareStatus(f, s) ==
  firmware' = IF FirmwareExists(f) THEN [firmware EXCEPT ![f].status = s]
                                   ELSE firmware

SaveDeployment(x, f, d) ==
  deployments' = [deployments EXCEPT ![x] =
    [status |-> "pending", fw |-> f, dev |-> d,
     started |-> FALSE, finished |-> FALSE, error |-> FALSE]]

\* Altered: started_at is not stamped.
UpdateDeploymentStatus_NoStart(x, s, error) ==
  deployments' = [deployments EXCEPT
    ![x].status = s,
    ![x].finished = @ \/ s \in Terminal,
    ![x].error = IF s \in Terminal THEN error ELSE @]

\* update_deployment_status: "in_progress" stamps started_at, a terminal
\* status stamps completed_at and overwrites error_message.
UpdateDeploymentStatus(x, s, error) ==
  deployments' = [deployments EXCEPT
    ![x].status = s,
    ![x].started = @ \/ s = "in_progress",
    ![x].finished = @ \/ s \in Terminal,
    ![x].error = IF s \in Terminal THEN error ELSE @]
=============================================================================

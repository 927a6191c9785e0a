---------------------------- MODULE DeviceRegistry --------------------------
(***************************************************************************)
(* DeviceRegistry (app/ota/device_registry.py) as the /api/devices router  *)
(* drives it.  Each operation is one commit, so each is one action.  The   *)
(* dictionary of groups made through the API is left out: no operation     *)
(* reads it, and the group_name of a device is not checked against it.     *)
(***************************************************************************)
EXTENDS OtaStore

CONSTANTS
  RegisterVersions,  \* firmware_version values a registration carries
  ReportedVersions   \* firmware_version values a heartbeat carries

ASSUME RegistryAssumption ==
  /\ RegisterVersions \subseteq Versions \cup {NoVersion, Unparsable}
  /\ ReportedVersions \subseteq Versions \cup {Unparsable}

RegisterDevice(d, t, v, g) ==
  /\ ~DeviceExists(d)
  /\ SaveDevice(d, [status |-> "registered", type |-> t, version |-> v,
                    group |-> g, heard |-> FALSE])
  /\ UNCHANGED <<firmware, deployments>>

\* HeartbeatRequest.status is any string, stored as sent whatever the row says.
ProcessHeartbeat(d, v, s) ==
  /\ DeviceExists(d)
  /\ UpdateDevice(d, [devices[d] EXCEPT !.heard = TRUE, !.version = v,
                                        !.status = s])
  /\ UNCHANGED <<firmware, deployments>>

AssignDeviceToGroup(d, g) ==
  /\ DeviceExists(d)
  /\ UpdateDevice(d, [devices[d] EXCEPT !.group = g])
  /\ UNCHANGED <<firmware, deployments>>

DecommissionDevice(d) ==
  /\ DeviceExists(d)
  /\ UpdateDevice(d, [devices[d] EXCEPT !.status = "revoked"])
  /\ UNCHANGED <<firmware, deployments>>
=============================================================================

---------------------------- MODULE FleetSimulator ----------------------------
(***************************************************************************)
(* The loop of device_simulator/fleet_simulator.py (run_device) with the   *)
(* calls it makes (device_simulator/device.py), against the endpoints and  *)
(* request schemas the server declares.  A call is answered with 200, with *)
(* another status (raise_for_status) or not at all; the last two are       *)
(* httpx.HTTPError, which each method logs and returns from.               *)
(***************************************************************************)
EXTENDS Integers

CONSTANTS Devices, None

VARIABLES
  at,           \* the call each device makes next
  deviceId,     \* IoTDevice.device_id
  registered,   \* devices the server has a row for
  sent          \* history: the request each device sent last

vars == <<at, deviceId, registered, sent>>

Steps == {"register", "heartbeat", "check", "sleep"}
TypeOK ==
  /\ at \in [Devices -> Steps]
  /\ deviceId \in [Devices -> Devices \cup {None}]
  /\ registered \subseteq Devices
  /\ sent \in [Devices -> {"none", "register", "heartbeat", "check"}]

Init ==
  /\ at = [d \in Devices |-> "register"]
  /\ deviceId = [d \in Devices |-> None]
  /\ registered = {}
  /\ sent = [d \in Devices |-> "none"]

\* What register_device returns, and dict.get on it.
RegisterAnswer(d) ==
  [status |-> "success", message |-> "registered", device |-> [device_id |-> d]]
Get(answer, key) == IF key \in DOMAIN answer THEN answer[key] ELSE None

\* Called once, before the loop; a failed call leaves device_id None.
Register(d) ==
  /\ at[d] = "register"
  /\ at' = [at EXCEPT ![d] = "heartbeat"]
  /\ sent' = [sent EXCEPT ![d] = "register"]
  /\ \/ /\ registered' = registered \cup {d}
        /\ deviceId' = [deviceId EXCEPT ![d] = Get(RegisterAnswer(d), "id")]
     \/ UNCHANGED <<registered, deviceId>>

\* heartbeat, check_for_updates: nothing is sent without a device_id, and no
\* answer changes what the loop does next.
Call(d, step, next) ==
  /\ at[d] = step
  /\ at' = [at EXCEPT ![d] = next]
  /\ sent' = IF deviceId[d] = None THEN sent ELSE [sent EXCEPT ![d] = step]
  /\ UNCHANGED <<registered, deviceId>>
Heartbeat(d) == Call(d, "heartbeat", "check")

\* The server has no POST /api/updates/check, so the answer is {} and
\* download_and_install is not called.
CheckForUpdates(d) == Call(d, "check", "sleep")

Sleep(d) ==
  /\ at[d] = "sleep"
  /\ at' = [at EXCEPT ![d] = "heartbeat"]
  /\ UNCHANGED <<registered, deviceId, sent>>

RunDevice(d) == Register(d) \/ Heartbeat(d) \/ CheckForUpdates(d) \/ Sleep(d)
Next == \E d \in Devices : RunDevice(d)

\* Each device is a thread whose calls time out after ten seconds.
Spec == Init /\ [][Next]_vars /\ \A d \in Devices : WF_vars(RunDevice(d))

\* "Simulates edge devices that periodically check for updates"
\* (SYSTEM_ARCHITECTURE.md): a device the server has registered asks at last.
RegisteredDevicesCheck ==
  \A d \in Devices : d \in registered ~> sent[d] = "check"
=============================================================================

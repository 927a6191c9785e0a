----------------------------- MODULE DeviceContract ---------------------------
(***************************************************************************)
(* What a device promises about the firmware it runs: an installed image   *)
(* was endorsed by the platform's signers before it was installed, runs    *)
(* under its own version, and does not take the device to a lower major or *)
(* minor version.  A device that starts anew forgets what it ran.          *)
(***************************************************************************)
EXTENDS Integers

CONSTANTS Devices, FirmwareIds, Release, StartVersions

VARIABLES
  endorsed,     \* images a signing key of the platform has signed
  current       \* the version each device runs

Lower(u, v) ==
  \/ u.core[1] < v.core[1]
  \/ u.core[1] = v.core[1] /\ u.core[2] < v.core[2]

Init ==
  /\ endorsed = {}
  /\ current \in [Devices -> StartVersions]

Endorse(f) ==
  /\ endorsed' = endorsed \cup {f}
  /\ UNCHANGED current

Install(d, f) ==
  /\ f \in endorsed /\ ~Lower(Release[f], current[d])
  /\ current' = [current EXCEPT ![d] = Release[f]]
  /\ UNCHANGED endorsed

StartAnew(d) ==
  /\ \E v \in StartVersions : current' = [current EXCEPT ![d] = v]
  /\ UNCHANGED endorsed

Next ==
  \/ \E f \in FirmwareIds : Endorse(f)
  \/ \E d \in Devices : StartAnew(d) \/ \E f \in FirmwareIds : Install(d, f)

Spec == Init /\ [][Next]_<<endorsed, current>>
=============================================================================

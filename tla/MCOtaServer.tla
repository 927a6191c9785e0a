----------------------------- MODULE MCOtaServer ----------------------------
(***************************************************************************)
(* TLC instances of OtaServer.                                             *)
(***************************************************************************)
EXTENDS OtaServer, TLC

Symmetry == Permutations(DeviceIds) \cup Permutations(FirmwareIds)
              \cup Permutations(DeploymentIds)
=============================================================================

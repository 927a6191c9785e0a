---------------------------- MODULE MCDeviceInstall ---------------------------
(***************************************************************************)
(* The catalogue and a device, from the catalogue's set-up.                *)
(***************************************************************************)
EXTENDS DeviceInstall, MCFirmwareCatalog

MCStartVersions == {V(1, 1, 0, << >>), V(1, 3, 0, << >>)}
MCVersions == MCStartVersions \cup MCReleases

\* A release and its release candidate 1.1.0-rc.1: "rc" (its place among the
\* words is 1 below the numbers) and 1.
MCReleased == {V(1, 1, 0, << >>)}
MCCandidate == [f \in FirmwareIds |-> V(1, 1, 0, <<-1, 1>>)]
MCCandidateVersions == MCReleased \cup {V(1, 1, 0, <<-1, 1>>)}

\* What the validator trusts or denies guards no action and, but for its type,
\* which the run of Pki checks, no property of the device's run reads it: states
\* that differ only in it are taken as one.
DeviceView == <<certs, expired, cache, disk, faults, catalog, device>>

SetUp == CatalogSetUp /\ DeviceInit
SetUpSpec == SetUp /\ [][Next]_vars
=============================================================================

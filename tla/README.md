# Formal model of the OTA update platform

TLA+ specifications of the server in `app/` and of the simulated device in
`device_simulator/`, the TLC configurations that check them, and TLAPS proofs
about them.

## 1. Inventory

| Component | Source | State | Operations |
|---|---|---|---|
| Shared store | `app/db/sqlite_store.py`, `models.py` | tables `devices`, `firmware`, `deployments`, `certificates` | one statement and one commit per method; nothing deletes a row, no foreign keys |
| Device registry | `app/ota/device_registry.py`, `routers/devices.py` | rows of `devices`; a dictionary of groups that nothing reads | register, heartbeat, assign to group, decommission |
| Update manager | `app/ota/update_manager.py`, `routers/updates.py` | rows of `deployments`; status and version columns of `devices` | check, create, start, complete, cancel, deploy to group |
| Staged rollouts | `app/ota/deployment.py` | a dictionary in the process | create, advance, cancel |
| Certificate authority | `app/pki/ca.py`, `routers/pki.py` | cached root and intermediate, PEM files, rows of `certificates` | create root, create intermediate, issue device and signing certificates, revoke |
| Chain validator | `app/pki/chain_validator.py` | trusted roots, revoked serials, in the process | validate a chain |
| Firmware catalogue | `routers/firmware.py` | rows of `firmware`, the binary store | upload, sign, publish, deprecate, manifest, download |
| Binary store | `app/firmware/storage.py` | `<type>/<firmware_id>/<version>.bin` | save, delete, list, clean up |
| Versions | `app/firmware/versioning.py` | sorted versions per identifier, in the process | register, compare, upgrade policy, upgrade path |
| Rollback manager | `app/firmware/rollback.py` | history and limit, in the process | can roll back, roll back, list targets, set the limit, clean up |
| Signer, verifier, manifest | `app/signing/` | none | sign, verify, build and validate a manifest |
| Device | `device_simulator/device.py`, `secure_boot.py` | identifier, installed version | register, heartbeat, check; fetch, verify, install, report |
| Fleet simulator | `device_simulator/fleet_simulator.py` | one thread per device | the loop of each device |
| Key manager | `app/pki/key_manager.py` | key files | generate, save, load |
| Certificate manager, settings, wiring | `app/pki/cert_manager.py`, `app/config.py`, `app/main.py` | a list nobody fills | describe |

**How they interact.** Every component of the server runs in one process and one
event loop. All handlers are `async` functions that never await, except the
upload, which awaits the request body before it touches anything. So a handler
is never interleaved with another one. What can go wrong is between requests
and inside one that stops:

* Each store method commits on its own. A handler with two writes that is cut
  between them (the process dies, SQLite raises) leaves the first.
* Devices and operators know nothing of each other: start, complete, cancel,
  heartbeat, decommission, revoke and publish arrive in any order and repeated.
* The same fact is kept twice: the issuing CA in a cache and in the database,
  the signing certificate in a file and in the database, a device's state in its
  own row and in its deployments, a firmware file in a directory and in a row.
* A device's installation is four requests and a local file, each at its own
  moment, while the server goes on. Requests fail, downloads arrive damaged, the
  device's process ends and forgets.
* Caches, trusted roots, revoked serials, rollouts, registered versions and the
  rollback history are gone after a restart; rows and files are not.

**What makes each component correct.** Deployments go through their lifecycle
once, their columns tell that story, and their device's status and version
follow them and nothing else. Batches of a rollout partition the places of the
device list and reach the promised share. No revoked certificate is part of a
chain that validates, a chain the API lists for active certificates validates,
and files, caches and rows name the same certificates. A row of the catalogue has its binary and its signature.
A device runs only what the platform signed, as it was uploaded, and refuses
only for a reason. Versions are ordered as SemVer says,
and paths, rollbacks and retention follow that order.

The hazards, each at its line and with the properties that guard it, are listed
in `PROJECT.json`.

## 2. Modules and their correspondence to the code

`OtaStore` <- `DeviceRegistry`, `UpdateManager` <- `OtaServer` -> `DeploymentLifecycle`;
`Pki`, `Signing` <- `FirmwareCatalog` <- `DeviceInstall` -> `DeviceContract`;
`FleetSimulator`; `StagedRollout`; `FirmwareVersions`. An arrow to the right is a
refinement. Each `...Proofs` module extends the module of its name, and
`PkiChainProofs` extends `PkiProofs`.

* **OtaStore**: the three OTA tables as functions from identifiers to rows, with
  the columns some decision reads, and one operator per writing method of
  `SQLiteStore`. Timestamps are reduced to "set or not". A version is the rank
  of its SemVer string (`0` is NULL, `MaxVersion + 1` a string that does not
  parse); two images may have the same rank, as `1.0.0` and `1.0.0+7` do. The
  status of a device is a member of `DeviceStatus` or whatever string a heartbeat
  brought, since the router takes any.
* **DeviceRegistry**: one action per operation, one commit each.
* **UpdateManager**: the handlers with several commits are several actions. The
  variable `call` is the handler in flight. The first commit of start, complete
  and cancel is the action of that name; `MarkDevice` and `RecordVersion` are
  the second. `DeployToGroup` takes the members, `DeployToNextMember` is one turn
  of its loop, in any order of the members. `Offers` is `check_for_update`.
* **DeploymentLifecycle**: the abstract specification: each deployment is
  created, started and ended at most once.
* **OtaServer**: composes registry, manager and firmware releases over one store.
  No request begins while `call` is in flight. `Interrupt` drops the handler in
  flight: a crash, a restart or an exception of the store between two commits.
  The three tables survive. Two history variables: `drifted`, the devices whose
  status was last written by a heartbeat or missed a write because of an
  interrupt, and `interrupts`. They guard no action except the bound on
  interrupts.
* **StagedRollout**: `DeploymentTracker`. The list of a request holds
  identifiers and may repeat one; `assigned` keeps the places a batch takes and
  `Batch` reads the identifiers there. Python's slices are modelled as they are,
  negative bounds included, since the request's percentages are not validated.
  Stages count from 1 in the sequences and `current` from 0 as in the code.
  `Restart` empties the dictionary.
* **Pki**: the certificate authority with its caches and files, the validator and
  the certificates table. A certificate is its place in the order of issue and
  stands for its key pair too. An exception half-way leaves what was done before
  it: `Make...` is the method of `CertificateAuthority` and the action around it
  the router's handler. `list_certs(...)[0]` is the newest row; generating a key
  takes long enough that no two rows share a `created_at`. Of the key files only
  `signing_key.pem` is ever read back, through `LoadPrivateKey`.
* **Signing**: the signer, the manifest and the device's verifier, as pure operators. A
  signature is the number of the key that made it, a manifest the fields it was
  served with and the hash of them, which determines them. A binary is whole, cut
  short or altered. `VerifyManifest` and `VerifyFirmware` are the device's
  `SecureBoot`.
* **FirmwareCatalog**: extends `Pki` with the firmware table, the binaries, the
  signing that reads `signing_key.pem` and names the newest active signing row,
  and the manifest and certificate the server hands out. `DeviceVerifies` is what
  a device would decide that fetched everything at once. `-1` is a fingerprint in
  `signer_cert_id`, stored when no signing row is active.
* **DeviceInstall**: `download_and_install` as a session of steps, one per request:
  `FetchManifest`, `FetchSigner`, `FetchBinary`, then `Verify`, which reads the CA
  file, `Install` two seconds later and `ReportStatus`. Every catalogue and PKI
  action may come between. `Received` lets the version of a manifest be damaged;
  a damaged signature, digest or size is one of the `Bodies`, since they are
  compared with the binary only. A request for the certificate
  that is answered with anything but a 200 is logged and leaves the session without
  one; only a failing transport ends it (`RequestFails`). `running` records the image
  last installed with the bytes that were installed and the key they were accepted
  on. `sound` in a session is history: the CA file under which the image was
  verifiable when the manifest was served. A version
  is its three numbers and its pre-release, a negative number standing for an
  identifier with letters.
* **DeviceContract**: the abstract specification of a device: images are endorsed,
  then installed under their own version, never to a lower major or minor one.
* **FleetSimulator**: `run_device` and the three calls of its loop against the
  server's endpoints: the answer of `register` as the router builds it, the check
  that posts to a path the server does not have. No session begins from this
  loop, which is why `DeviceInstall` stands beside it: the tests call
  `download_and_install` with an identifier of their own.
* **FirmwareVersions**: versions are parsed strings, with pre-release identifiers
  as character codes, because the code compares the pre-release as a string.
  `spelling` tells the strings apart that parse to the same version: with leading
  zeros or surrounding blanks, which `SemanticVersion` drops and a file name keeps.
  `Less` is `__lt__` through `_comparison_tuple`; `Precedes` is rule 11 of SemVer,
  the reference it is checked against. A registration appends and sorts; in a
  list that was sorted before, that moves the new version to its place, which is
  how `RegisterVersion` says it. `Filter` is a list comprehension. `stored` is the directory of one
  `firmware_id`, oldest modification first. These are the classes as a library,
  as their tests use them: the upload endpoint gives each upload its own
  identifier, so through it alone a list never holds two versions, and no
  endpoint sets the limit, cleans up or deletes.

Definitions whose comment starts with `Altered:` are not part of any
specification. Each is a plausible mistake in the definition after it and shows
that the property named for it in `PROJECT.json` can fail.

## 3. Runs

| Run | What it asks | Bounds, and why they are enough |
|---|---|---|
| `server` (1,262k states) | Do device rows, versions and deployments stay consistent, and does every deployment follow the lifecycle? | Two devices, two images, two deployments: both deployments on one device, one each, or of two versions. One interrupt: properties speak of the device it touched. Heartbeats carry `updating`, `online` and a version that does not parse, the values that hurt most: the status that competes with the manager's, one that is no `DeviceStatus`, the version that ends comparisons. Images are published but not withdrawn: an offer that is gone needs no settling, and withdrawal would only double the states. Devices, images and deployments are symmetric; the run has no liveness property. |
| `group_deploy` (335k) | Does a group deployment reach every member? | Two members, three deployment identifiers, one interrupt, so a whole call, a cut one and a second one after it all occur. |
| `rollout` (67k) | Do batches partition the list, does each stage reach its share, does completion cover the list? | Two rollouts; lists of 0, 1, 2, 3 and 7 places, which make ceilings meet and differ, with and without a device named twice; stage lists that are cumulative, repeat, stop short of or pass 100, fall, go below zero or are empty. |
| `pki` (485k) | Can a revoked certificate validate; does the chain the API lists; do rows, caches, trust and files agree? | Five certificates make root, intermediate and leaf, a revocation and a replacement; one request that fails half-way; expiry of the intermediate, the one between two others. |
| `device` (577k) | Does a device run only what was signed, whole, and refuse only for a reason, while everything it fetches changes? Do rows, binaries and signatures of the catalogue agree? Is the contract kept? | One device and one image (devices share nothing, images do not interact), a release above one starting version and below the other. It starts with a root, an intermediate and a signing certificate, as `tests/test_e2e.py` sets them up, which is three steps of `Spec`; one more certificate replaces any of them, and one request may fail half-way. Certificates do not expire here: no check of the device asks for it (`revoked_signer` shows that), and no other property of the run tells an expired signer from a valid one. `DeviceView` takes states as one that differ only in the validator's trusted roots and denied serials: no action's guard reads them and no property of the run but the type invariant, and `pki` checks them. `MCFirmwareCatalog` holds the starting state. |
| `versions` (41k) | Is the order SemVer's, and do paths and retention follow from it? | Five versions: two pre-releases of one release, one of them spelt with a leading zero, that release twice with different build metadata, a pre-release of a later major version. Three files with limits 1 and 2 and one rollback event. |

Deadlock is checked in every run. Six more runs show where the code does not do
what a comment or document says:

| Run | Statement | What happens |
|---|---|---|
| `downgrade` | "enforces version-ordering rules (no downgrades by default)", `update_manager.py:40` | No method of the manager compares versions before a deployment and `_allow_downgrade` is never read: a device that got version 2 completes a deployment of version 1. |
| `signer_row` | `signer_cert_id` names the key that signed, `models/firmware.py:77` | The signing certificate is revoked, its files still sign, and the row holds a fingerprint or another certificate. |
| `semver` | "full comparison support", `versioning.py:40` | `1.0.0-a.10` is listed before `1.0.0-a.2`. |
| `anti_rollback` | an update that is "logically older" is rejected, `SYSTEM_ARCHITECTURE.md:23` | Parts that are not digits count as 0: a device on `1.1.0` installs `1.1.0-rc.1`. |
| `revoked_signer` | the device rejects "any firmware signed by a revoked or expired certificate", `SYSTEM_ARCHITECTURE.md:27` | `SecureBoot` asks for neither; the image is accepted. |
| `fleet` | devices "periodically check for updates", `SYSTEM_ARCHITECTURE.md:10` | `register` reads `id` where the answer has `device`; the device is registered and never sends another request. |

**Fairness.** `FairSpec` of `OtaServer` has weak fairness of `ContinueCall`, the
remaining commits of a handler that has begun. The event loop never suspends a
handler that does not await, so it runs on unless it is cut, and the property
admits the cut. `Spec` of `FleetSimulator` has weak fairness of each device's
thread: its calls time out after ten seconds and it sleeps for ten. Nothing else
is fair: no operator or device is assumed to send anything.

## 4. Proofs

TLC checks the instances above; the `...Proofs` modules prove the same definitions
for every value of the constants, under the named assumptions of the modules
(`StoreAssumption`: there is a device, an image, a type and a version, and a
reported status is any string but the one that marks a missing row;
`RegistryAssumption`, `ServerAssumption`, `RolloutAssumption`, `PkiAssumption`,
`CatalogAssumption`, `DeviceAssumption`: requests and constants are of the right
kind; `VersionsAssumption`: pre-release identifiers are what `VERSION_PATTERN` lets
through, not empty and of characters from the digit 0 upwards, and the setting
`KEEP_PREVIOUS_VERSIONS`, which no code checks, is at least 1: it is 5 unless an
operator changes it). The theorems about `Pki`, `FirmwareCatalog` and `DeviceInstall` are about
their specifications from the empty state, with any number of certificates,
failures, images and devices; the `device` run starts three steps later.

*OtaServerProofs.* The properties alone are not inductive: when the second commit
runs, nothing says what the first one wrote. `CallMatchesRow` is the missing
part: a start in flight has a deployment in progress, a complete a completed
one, a cancel a failed one, and a group deployment a firmware row and device
rows. `IInv` is `TypeOK`, `CallMatchesRow` and the four invariants. `RowEffect`
says what a step can do to one deployment and `StepOnDevice` what it can do to
one device that is not drifted; the preservation of each property is a few lines
from these two. Results: `TypeCorrect`, `UpdatingIsBacked`, `MarkLossIsExplained`,
`ReferencesHold`, `ColumnsHold`, the action properties `VersionsAreEarned` and
`OfferSettles`, and `ImplementsLifecycle`, the refinement of
`DeploymentLifecycle`.

*StagedRolloutProofs.* The invariant is that an existing rollout has the batches
its stage list prescribes, has a current stage and, if no threshold is below zero,
has handed out the first `Target` places for each stage up to the current one
(`HandedOut`). That needs no order of the thresholds: a stage begins where the one
before it ended, wherever that was. `TargetRange` and `TargetMonotone` bound the
rounded share. With cumulative thresholds `Disjoint` shows that two stages share no
place, so a device in two batches is at two places of the list. `EndsAtLast` adds
that a completed rollout is at its last stage. Results: `TypeCorrect`,
`BatchesAreDisjoint`, `ShareIsReached`, `CompletionCovers`, `StagesInOrder`.

*PkiProofs.* `PkiInv` says what each number stands for (`CertRoles`, `Roles`: the
cached root is a root, the file of the signing key holds a signing key), that a
cached root is the active one if any is active, and `ForgottenAreOlder`: a
revocation the validator no longer knows is older than every root it trusts. The
last is why no revoked certificate validates: a restart forgets both, a new root
is trusted only after it, and issuers precede what they issued, so a chain that
ends in that root is younger than the root. Results: the type invariant, `ValidChainsCorrect`,
`OneActiveCorrect`, `CaParentCorrect`, `PairCorrect`, `RootsTrusted`.

*FirmwareCatalogProofs.* `CatalogInv` is `PkiInv` with `SignedBySigningKeys` and
`FilesAreNewest`: while no request failed, every certificate has its row and the
signing certificate on disk is the newest, which makes the newest active row the
one whose key is on disk. Results: `BinariesCorrect`, `SignersCorrect`,
`SignaturesCorrect` and the action property `VerifiedStays`.

*DeviceInstallProofs.* The invariant of a session (`DeviceInv`) says what its
parts, fetched at different moments, have in common: `ManifestHonest`, the manifest
holds the image's version and a signature a signing key made, unless damaged;
`SoundFetched`, if the image was verifiable when the manifest was served, the
certificate that will be or was fetched is the one of that signature, because
rows of certificates are never changed but for their status; `AcceptedSound`,
what is about to be installed has passed every check. Results: `TypeCorrect`,
`SignedCorrect`, `RefusalsCorrect`, and `ContractKept`, the refinement of
`DeviceContract`; its arithmetic part is `LowerIsOlder`: a lower major or minor
number is always noticed by the device's comparison, whatever follows it.

*PkiChainProofs.* The chain the API lists is a recursive function of the parents.
A chain has at most three certificates, so `ChainDef` unfolds it three times and
no induction is needed. `ChainInv` adds to `PkiInv` what links the parents, which
the router takes from the database, to the issuers, which the authority takes from
its cache: `ParentRoles`, a root has no parent, an intermediate's
parent is a root, and every parent is a CA with a row;
`DeniedRevoked`, the validator denies only revoked certificates; `IntermediateCached`,
an active intermediate that the cached root signed is the cached one; and
`ParentsSign`, the parent recorded is the issuer unless the issuer, the parent or the
root above it was revoked or never saved, which nothing undoes. Result: `ListedChainsCorrect`.

*FirmwareVersionsProofs.* `VersionsInv` is `TypeOK` and `Sorted`: without the order of
the list neither paths nor the order of what is listed can be shown. In three
layers:

* The order. `TupleEntries` opens the comparison tuple; `LexIrreflexive`,
  `LexTransitive` and `LexTotal` make Python's comparison of tuples a strict total
  order, so `LessOrder` makes `Less` one up to build metadata. `TextOrder` is the heart of
  the comparison with SemVer: every word character comes after the dot, so two
  pre-release strings are ordered as their identifiers are, one after the other,
  each as a string. The rest is about single identifiers (`SimpleIds`).
* Lists. What is defined by recursion along a list is shown to be a function
  (`Recursion`) and reasoned about by `CountUp`, induction over a set of indices
  instead of a predicate, which is what the provers can instantiate.
  `FilterProperties` says that a comprehension keeps the elements asked for and
  every relation between neighbours, `InsertedInOrder` the same of an insertion.
* The system. `RegistrationHasOneOutcome` confirms the form `RegisterVersion` has:
  in every state a version that is not in the list has one place in it.
  `MajorHop` follows the major numbers along a path; `BelowLast` counts rollback
  targets in a list of files in ascending order.

Results: `VersionsStaySorted`, `VersionsTyped`, `RegistrationHasOneOutcome`,
`PathsClimb`, `SimpleVersionsInOrder` and the action property
`CleanupKeepsTargets`.

*Only model-checked:* `GroupDeployCovers`, because liveness under fairness is
outside the prover. All other properties of the passing runs are theorems.

## 5. Not modelled

* Bytes: PEM, hashes, RSA, the JSON of a manifest, the SemVer regular expression. A
  key or a signature is a number. EC keys are supported by the libraries and made
  by no router.
* `FirmwareVerifier` and the validating methods of `FirmwareManifest`: no handler and
  no device calls them, so nothing in the system depends on their answers.
* Read-only statistics and listings, and the endpoints that only wrap operations
  that are modelled.
* `CertificateManager`: nothing outside the class creates one. (Read for this
  model: a certificate in its last day has zero days left and is reported neither
  as expired nor as expiring soon.)
* Two server processes over one database, which the deployment does not use.
* An upload whose body is still arriving: nothing is read before the await.
* The receiver of a device's report: the path it posts to does not exist, so
  installations never reach `OtaServer`, and a composition of the two would be two
  systems side by side.
* Build metadata of a device's versions. The device's comparison reads `0+7` as 0.
* The list of rollback targets, a read nothing else uses. (Read for this model:
  `get_available_rollback_versions` writes the versions it lists anew, while
  `can_rollback` looks for a file under the string it is given, so a file
  `01.0.0.bin` is listed as `1.0.0` and then refused.)
* That a decommissioned device stays so, or that its status is a `DeviceStatus`: the
  code checks neither. Acting on a deployment that was left open writes `updating`
  or `active` over `revoked`, and a heartbeat writes whatever string it carries. Both
  are in `OtaServer`.
* A second retention reading: `cleanup_old_versions` keeps `keep_previous` files in
  all, the latest among them; the class comment says "previous" versions and can
  be read either way. `CleanupKeepsRollback` states what the code keeps.
* After a root is revoked its cached key still issues, and the parent recorded is
  another CA or none. The state is in `Pki`; `ListedChainValidates` is stated for
  certificates whose signer is active.
* Restart of the authority: the model has the state (empty cache, active root in
  the database), in which creating a root is refused and issuing fails until the
  root is revoked. The code promises no recovery; what is checked is that no CA
  signs whose root is not trusted.

## 6. Plan

Done, in this order: the update server with its lifecycle and proofs, staged
rollouts with proofs, the PKI, the catalogue, versions and rollback; then signing
and the device's session with its contract, the fleet's loop, and the proofs about
PKI, catalogue and device; then the proofs about listed chains and versions, and
the device's bytes, the spelling of versions and rollouts over identifiers.

Left for later: the expiry and renewal of certificates in finer steps than
"expired or not", and a composition of device and update server, should the
server gain the path a device reports to.

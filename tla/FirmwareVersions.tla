-------------------------- MODULE FirmwareVersions --------------------------
(***************************************************************************)
(* SemanticVersion and VersionManager (app/firmware/versioning.py),        *)
(* RollbackManager (app/firmware/rollback.py) and the retention side of    *)
(* FirmwareStorage (app/firmware/storage.py), for one product line: one    *)
(* firmware_id of these classes.  (The upload endpoint gives each image an *)
(* identifier of its own; callers of the classes reuse one.)  Two files of *)
(* the same modification time are left out.                                *)
(*                                                                         *)
(* A version string is a record of its parts and of how it is spelt:       *)
(* 0 as str() writes it, anything else with leading zeros in a number or   *)
(* blanks around it, which parsing drops and a file name keeps.  The       *)
(* pre-release is the sequence of its dot-separated identifiers, each the  *)
(* sequence of its character codes, because the code orders pre-releases   *)
(* as strings.                                                             *)
(***************************************************************************)
EXTENDS Integers, Sequences, FiniteSets, SequencesExt

CONSTANTS
  VersionSet,   \* the version strings requests carry
  KeepPrevious, \* KEEP_PREVIOUS_VERSIONS of the settings
  Limits,       \* retention limits that are set later
  MaxFiles,     \* bound: files of the product line
  MaxHistory    \* bound: rollback events recorded

\* What VERSION_PATTERN lets through: identifiers of word characters, of which
\* the digit 0 (48) is the lowest.  Nothing checks the setting, 5 by default.
ASSUME VersionsAssumption ==
  /\ VersionSet \subseteq [major : Nat, minor : Nat, patch : Nat,
                           pre : Seq(Seq(Nat)), build : Nat, spelling : Nat]
  /\ \A v \in VersionSet : \A i \in DOMAIN v.pre :
       v.pre[i] # << >> /\ \A j \in DOMAIN v.pre[i] : v.pre[i][j] >= 48
  /\ KeepPrevious \in Nat \ {0} /\ Limits \subseteq Int

VARIABLES
  registered,   \* VersionManager._versions of the product line
  stored,       \* files of the product line, oldest modification first
  keep,         \* RollbackManager._keep_previous
  history       \* RollbackManager._rollback_history

vars == <<registered, stored, keep, history>>

-----------------------------------------------------------------------------
\* SemanticVersion(version_str) and, when it is written out again, its str().
SemanticVersion(v) == [v EXCEPT !.spelling = 0]
Parsed == {SemanticVersion(v) : v \in VersionSet}

Dot == 46
\* The pre-release as the string between "-" and "+".
Text(pre) ==
  LET text[i \in 0 .. Len(pre)] ==
        IF i = 0 THEN << >>
        ELSE IF i = 1 THEN pre[1] ELSE text[i - 1] \o <<Dot>> \o pre[i]
  IN  text[Len(pre)]

\* s < t in the lexicographic order that Before(_, _) on elements induces.
LexLess(s, t, Before(_, _)) ==
  \E n \in 0 .. Len(t) - 1 :
    /\ n <= Len(s)
    /\ \A i \in 1 .. n : s[i] = t[i]
    /\ n < Len(s) => Before(s[n + 1], t[n + 1])
Below(a, b) == a < b
Core(v) == <<v.major, v.minor, v.patch>>

\* Altered: a release sorts below its own pre-releases.
ComparisonTuple_ReleaseFirst(v) ==
  Core(v) \o <<IF v.pre = << >> THEN 0 ELSE 1>> \o Text(v.pre)
\* _comparison_tuple: a release outranks its pre-releases; build is ignored.
ComparisonTuple(v) ==
  Core(v) \o <<IF v.pre = << >> THEN 1 ELSE 0>> \o Text(v.pre)

Less(u, v) == LexLess(ComparisonTuple(u), ComparisonTuple(v), Below)
Same(u, v) == ComparisonTuple(u) = ComparisonTuple(v)
AtMost(u, v) == Less(u, v) \/ Same(u, v)

\* The upgrade_type of check_upgrade_policy; with the defaults, which no router
\* changes, "downgrade" is refused and everything else allowed.
UpgradeType(current, target) ==
  CASE Same(current, target) -> "same"
    [] Less(target, current) -> "downgrade"
    [] target.major > current.major -> "major"
    [] target.major <= current.major /\ target.minor > current.minor -> "minor"
    [] OTHER -> "patch"

\* [v for v in s if v in S]
Filter(s, S) ==
  LET kept[i \in 0 .. Len(s)] ==
        IF i = 0 THEN << >>
        ELSE IF s[i] \in S THEN Append(kept[i - 1], s[i]) ELSE kept[i - 1]
  IN  kept[Len(s)]

\* get_upgrade_path; registered is kept in ascending order.
UpgradePath(current, target) ==
  Filter(registered,
         {v \in Range(registered) : Less(current, v) /\ AtMost(v, target)})

-----------------------------------------------------------------------------
Files == Range(stored)

\* can_rollback for version strings that parse: the file of the target is looked
\* up under the string as it came.
CanRollback(current, target) == Less(target, current) /\ target \in Files

-----------------------------------------------------------------------------
Init ==
  /\ registered = << >> /\ stored = << >> /\ history = << >>
  /\ keep = KeepPrevious

\* Altered: the list is not sorted again.
RegisterVersion_Unsorted(v) ==
  /\ registered' = IF \E u \in Range(registered) : Same(u, v) THEN registered
                   ELSE Append(registered, SemanticVersion(v))
  /\ UNCHANGED <<stored, keep, history>>

\* register_version: a version equal to one in the list is not added; sorting
\* a list that only its new last version is out of order in moves it to its place.
RegisterVersion(v) ==
  LET sv == SemanticVersion(v)
  IN  /\ \/ (\E u \in Range(registered) : Same(u, sv)) /\ UNCHANGED registered
         \/ \E i \in 1 .. Len(registered) + 1 :
              /\ \A j \in DOMAIN registered :
                   IF j < i THEN Less(registered[j], sv) ELSE Less(sv, registered[j])
              /\ registered' = InsertAt(registered, i, sv)
      /\ UNCHANGED <<stored, keep, history>>

\* Altered: a file of the same version is written over.
SaveFirmware_Overwrites(v) ==
  /\ Len(stored) < MaxFiles
  /\ stored' = Append(stored, v)
  /\ UNCHANGED <<registered, keep, history>>

\* save_firmware refuses a version string that has a file.
SaveFirmware(v) ==
  /\ v \notin Files /\ Len(stored) < MaxFiles
  /\ stored' = Append(stored, v)
  /\ UNCHANGED <<registered, keep, history>>

DeleteFirmware(v) ==
  /\ v \in Files
  /\ stored' = Filter(stored, Files \ {v})
  /\ UNCHANGED <<registered, keep, history>>

SetRollbackLimit(n) ==
  /\ n >= 1
  /\ keep' = n
  /\ UNCHANGED <<registered, stored, history>>

\* Altered: a slice that is one file short.
CleanupOldVersions_OneLess ==
  /\ stored' = IF Len(stored) <= keep THEN stored
               ELSE SubSeq(stored, Len(stored) - keep + 2, Len(stored))
  /\ UNCHANGED <<registered, keep, history>>

\* cleanup_old_versions keeps the files modified last, whatever their version.
CleanupOldVersions ==
  /\ stored' = IF Len(stored) <= keep THEN stored
               ELSE SubSeq(stored, Len(stored) - keep + 1, Len(stored))
  /\ UNCHANGED <<registered, keep, history>>

\* execute_rollback records the event; it moves no device and no file.
ExecuteRollback(current, target) ==
  /\ Len(history) < MaxHistory
  /\ CanRollback(current, target)
  /\ history' = Append(history, [from |-> current, to |-> target])
  /\ UNCHANGED <<registered, stored, keep>>

\* A new process: the files stay, the rest starts over.
Restart ==
  /\ registered' = << >> /\ history' = << >>
  /\ keep' = KeepPrevious
  /\ UNCHANGED stored

Next ==
  \/ \E v \in VersionSet : RegisterVersion(v) \/ SaveFirmware(v) \/ DeleteFirmware(v)
  \/ \E n \in Limits : SetRollbackLimit(n)
  \/ CleanupOldVersions
  \/ \E u, v \in VersionSet : ExecuteRollback(u, v)
  \/ Restart

Spec == Init /\ [][Next]_vars

-----------------------------------------------------------------------------
TypeOK ==
  /\ registered \in Seq(Parsed) /\ stored \in Seq(VersionSet)
  /\ IsInjective(registered) /\ IsInjective(stored)
  /\ keep \in Nat \ {0}
  /\ history \in Seq([from : VersionSet, to : VersionSet])

\* The path offered between two versions climbs from one registered version to
\* the next, misses none in between, and ends at the target when it is
\* registered, whatever order the versions were registered in; then the whole
\* upgrade is a major one just when a hop is (get_upgrade_path,
\* check_upgrade_policy).
UpgradePathsClimb ==
  \A u, v \in VersionSet :
    LET path == UpgradePath(u, v)
        hops == <<u>> \o path
    IN  /\ \A i \in 1 .. Len(path) : Less(hops[i], hops[i + 1])
        /\ \A w \in Range(registered) :
             Less(u, w) /\ Less(w, v) => w \in Range(path)
        /\ Less(u, v) /\ (\E w \in Range(registered) : Same(w, v))
             => /\ path # << >> /\ Same(Last(path), v)
                /\ UpgradeType(u, v) = "major" <=>
                     \E i \in DOMAIN path :
                       UpgradeType(hops[i], hops[i + 1]) = "major"

\* Retention keeps the file written last; and where versions were written in
\* ascending order, it leaves that version as many rollback targets as the
\* limit has room for, and the highest of them (cleanup_old_versions deletes by
\* modification time, can_rollback selects by version).
Ascending == \A i, j \in DOMAIN stored : i < j => Less(stored[i], stored[j])
CleanupKeepsRollback ==
  [][CleanupOldVersions /\ stored # << >> =>
       LET latest == Last(stored)
           before == {v \in Files : CanRollback(latest, v)}
           after == {v \in Range(stored') : Less(v, latest)}
       IN  /\ stored' # << >> /\ Last(stored') = latest
           /\ Ascending =>
                /\ Cardinality(after) = Min({Cardinality(before), keep - 1})
                /\ \A u \in before \ after, v \in after : Less(u, v)]_vars

-----------------------------------------------------------------------------
\* Precedence by rule 11 of Semantic Versioning 2.0.0.
IsDigit(c) == c \in 48 .. 57
Numeric(id) == \A i \in DOMAIN id : IsDigit(id[i])
Value(id) ==
  LET value[i \in 0 .. Len(id)] ==
        IF i = 0 THEN 0 ELSE 10 * value[i - 1] + id[i] - 48
  IN  value[Len(id)]
IdBefore(a, b) ==
  CASE Numeric(a) /\ Numeric(b) -> Value(a) < Value(b)
    [] Numeric(a) # Numeric(b) -> Numeric(a)
    [] OTHER -> LexLess(a, b, Below)
Precedes(u, v) ==
  \/ LexLess(Core(u), Core(v), Below)
  \/ /\ Core(u) = Core(v) /\ u.pre # << >>
     /\ v.pre = << >> \/ LexLess(u.pre, v.pre, IdBefore)

\* Pre-release identifiers of one digit, or that begin with something else.
Simple(v) ==
  \A i \in DOMAIN v.pre : ~IsDigit(v.pre[i][1]) \/ Len(v.pre[i]) = 1

\* Registered versions with simple pre-releases are listed as Semantic
\* Versioning orders them, although the code compares pre-releases as strings
\* (register_version, _comparison_tuple).
SimpleOrderIsSemVer ==
  \A i, j \in DOMAIN registered :
    i < j /\ Simple(registered[i]) /\ Simple(registered[j])
      => Precedes(registered[i], registered[j])

\* "Represents a Semantic Version ... with full comparison support"
\* (SemanticVersion): all registered versions are in the standard's order.
OrderIsSemVer ==
  \A i, j \in DOMAIN registered :
    i < j => Precedes(registered[i], registered[j])
=============================================================================

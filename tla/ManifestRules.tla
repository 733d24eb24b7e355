--------------------------- MODULE ManifestRules ---------------------------
(***************************************************************************)
(* The manifest as a contract between two hosts: what backup_manager.py    *)
(* writes from the configuration and the clock of production, and what     *)
(* recovery_manager.py demands of it with those of the DR server.  The     *)
(* shape of the document and its artifact entries are checked by both in   *)
(* the same way and left out; BackupManager and RecoveryManager model what *)
(* becomes of a damaged one.                                               *)
(***************************************************************************)
EXTENDS ConfigRules

CONSTANT Tolerance  \* how far in the future a backup may claim to be

ASSUME ToleranceAssumption == Tolerance \in Nat

CreateManifest(c, backup_created_at) ==
  [hostname |-> c.production, version |-> c.version,
   identity_store |-> c.productionStore, created |-> backup_created_at]

Parsable(version) == version \in {"2024.2", "2025.1"}
NotOlder(target, source) == target = "2025.1" \/ source = "2024.2"

(* validate_tableau_version: only the DR server has to be able to parse. *)
ValidTableauVersion(source, target) ==
  /\ Parsable(source) /\ Parsable(target)
  /\ NotOlder(target, source)

(* Hostnames would be compared letter by letter; the clocks would have to
   agree. *)
ValidManifest_Slip(m, c, now) ==
  /\ ValidTableauVersion(m.version, c.version)
  /\ m.identity_store = c.drStore
  /\ m.hostname = c.production
  /\ m.created <= now
ValidManifest(m, c, now) ==
  /\ ValidTableauVersion(m.version, c.version)
  /\ m.identity_store = c.drStore
  /\ Folded(m.hostname) = Folded(c.production)
  /\ m.created <= now + Tolerance

(* _build_result: the age of the backup when the disaster was declared. *)
MeasuredAge_Slip(declared, created) == declared - created
MeasuredAge(declared, created) ==
  IF declared < created THEN 0 ELSE declared - created
=============================================================================

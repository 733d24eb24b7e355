------------------------- MODULE EntrypointsSafety -------------------------
(***************************************************************************)
(* What an operator, a scheduler or an embedding program may rely on.      *)
(***************************************************************************)
EXTENDS Entrypoints

(* Every variable stays in its range. *)
ManifestRecord == [hostname : Hosts, version : Versions, identity_store : Stores, created : Int]
Stored == [manifest : ManifestRecord, snapshot : 0 .. MaxTime, verified : BOOLEAN]

InputsOK ==
  /\ held \in Configurations \cup {None}
  /\ via \in {"command line", "orchestrator"} /\ entry \in {"failover", "backup"}
  /\ interactive \in BOOLEAN /\ consent \in {"not asked", "given", "declined"}
  /\ reason \in Reasons /\ code \in AuthCodes
  /\ config \in Configurations \cup {None}
  /\ run_id \in RunIds /\ tsm_variable \in Executables

ProgressOK ==
  /\ phase \in Phases
  /\ fenced \in FencingMethods \cup {None}
  /\ failed_at \in {"nothing", "constructor", "fencing", "manifest", "later"}
  /\ result \in {"none", "SUCCESS", "FAILED", "ERROR"} /\ exit \in Exits

TimesOK ==
  /\ now \in 0 .. MaxTime /\ skew \in Skews
  /\ created \in Int /\ snapshot \in 0 .. MaxTime /\ declared \in 0 .. MaxTime
  /\ latest \in Stored \cup {None} /\ accepted \in Stored \cup {None}

TypeOK == InputsOK /\ ProgressOK /\ TimesOK

(* A script that sees exit code 0 may believe it: the failover succeeded, or
   the operator declined and nothing was even loaded, or the backup in the
   store is the one just made and was verified.  And no session that
   succeeded tells its caller anything else. *)
ExitHonest ==
  /\ exit = "0" =>
       \/ /\ result = "SUCCESS"
          /\ entry = "backup" => latest.verified /\ latest.snapshot = snapshot
       \/ consent = "declined" /\ config = None
  /\ phase = "idle" /\ result = "SUCCESS" => exit \in {"0", "returned"}

(* An interactive failover reads no configuration and builds no manager
   before the operator has said yes, whatever happens at the prompts. *)
ConsentFirst ==
  interactive /\ (config # None \/ phase \notin {"idle", "confirm"}) => consent = "given"

(* No manager ever works with a configuration the schema refuses, and an
   orchestrator whose reload fails goes on with the one it had. *)
OnlyValidConfigs == \A c \in {held, config} \ {None} : SchemaAccepts(c)

(* A code that was supplied, from the environment, at the prompt or by the
   embedding program, decides alone: a failover never goes on, on the
   strength of the configured flags, after an override that is not valid. *)
OverrideDecides ==
  fenced # None =>
    (fenced = "EMERGENCY_AUTHORIZATION" <=> code # "none") /\ (code # "none" => reason = "given")

(* What one host writes the other one reads: a failover refuses the manifest
   of a backup only if there is none, the hosts are configured for different
   servers or stores, a version cannot be parsed or is too old, or
   production's clock is ahead by more than is tolerated. *)
BackupsRestorable ==
  failed_at = "manifest" =>
    \/ latest = None
    \/ Folded(latest.manifest.hostname) # Folded(config.production)
    \/ latest.manifest.identity_store # config.drStore
    \/ ~ValidTableauVersion(latest.manifest.version, config.version)
    \/ skew > Tolerance

(* The reported age of the backup is never negative and understates the
   data that is lost by no more than production's clock is ahead. *)
RpoHonest ==
  accepted # None =>
    /\ Age >= 0
    /\ Age + (IF skew > 0 THEN skew ELSE 0) >= declared - accepted.snapshot

(* Everything a constructor demands beyond the schema, and so can refuse
   after a disaster was declared: retries with a pause, a tsm where the
   configuration or, failing that, TSM_EXECUTABLE says there is one, host
   names the fencer and the health checker take (these two only a failover
   has, so that backups succeed with names no failover will accept), and of
   a backup command a well-formed run id and a connector that takes the
   keyword it is passed.  An orchestrator never meets a run id of its own
   that its managers refuse. *)
TsmMissing ==
  \/ config.executable = "not found"
  \/ config.executable = "unset" /\ tsm_variable \in {"empty", "not found"}

HostNamesUnfit ==
  config.production \in {"url", "too long"} \/ config.dr \in {"port", "url", "too long"}

LateRefusalsKnown ==
  failed_at = "constructor" =>
    \/ config.backoff = 0
    \/ TsmMissing
    \/ entry = "failover" /\ HostNamesUnfit
    \/ entry = "backup" /\ ~LoggerKeyword
    \/ entry = "backup" /\ via = "command line" /\ run_id = "invalid"

-----------------------------------------------------------------------------
(* What the source says and does not do. *)

(* recovery_manager.py, class RecoveryResult: "Structured result returned by
   the recovery workflow."  So a caller of run_recovery gets the result of a
   failover that failed, as it gets the one of a failover that succeeded. *)
FailuresReturned ==
  via = "orchestrator" /\ phase = "idle" /\ result = "FAILED" => exit = "returned"
=============================================================================

---------------------------- MODULE Entrypoints ----------------------------
(***************************************************************************)
(* execute_switchover.py, execute_backup.py and dr_orchestrator.py: what   *)
(* happens between the operator, or a program that keeps an orchestrator,  *)
(* and the two managers.  Sessions follow one another; what survives them  *)
(* is the newest manifest in the store and the orchestrator's Config.      *)
(*                                                                         *)
(* The managers are modelled by RecoveryManager and BackupManager; here a  *)
(* failover is its fencing decision, its decision about the manifest, and  *)
(* the rest, which may fail.  Clocks tick at any time, the clock of        *)
(* production "skew" ahead of the one of the DR server.                    *)
(*                                                                         *)
(* A definition that ends in _Slip is a plausible mistake in the one that  *)
(* follows it; it is no part of Spec and shows which property catches it.  *)
(***************************************************************************)
EXTENDS ManifestRules, ProductionFencer

CONSTANTS
  Configurations,  \* what a configuration file may contain when it is read
  Skews,           \* how far production's clock may be ahead
  MaxTime,         \* bound on the clock
  TsmVariables,    \* what the variable TSM_EXECUTABLE may hold
  LoggerKeyword,   \* does TSMConnector take the keyword BackupManager passes?
  None

ASSUME EntrypointsAssumption ==
  /\ Configurations \subseteq Configuration /\ None \notin Configuration
  /\ Skews \subseteq Int
  /\ MaxTime \in Nat
  /\ TsmVariables \subseteq Executables
  /\ LoggerKeyword \in BOOLEAN

VARIABLES
  now, skew,       \* the clocks
  latest,          \* the newest manifest in the store, as it came about
  held,            \* DROrchestrator.config
  via,             \* "command line" or "orchestrator"
  entry,           \* "failover" or "backup"
  interactive,     \* without --non-interactive
  consent,         \* the answer to the confirmation prompt
  reason,          \* operator_reason
  code,            \* emergency_auth_code
  config,          \* the Config the session works with
  run_id,          \* the run id its manager is given
  tsm_variable,    \* TSM_EXECUTABLE when its manager was constructed
  phase,           \* the next thing the session does
  fenced,          \* fencing_result of the failover
  declared,        \* disaster_declared_at
  accepted,        \* the manifest the failover accepted
  failed_at,       \* what a failing session failed at
  created,         \* backup_created_at of the running backup
  snapshot,        \* when its data was really taken
  result,          \* status of the manager's result
  exit             \* how the session ended for its caller

clocks == <<now, skew>>
given == <<via, entry, interactive, consent, reason, code, config, run_id>>
inputs == <<given, tsm_variable>>
environment == <<run_id, tsm_variable>>
failover == <<fenced, declared, accepted, failed_at>>
backup == <<created, snapshot, latest>>
vars == <<clocks, held, inputs, phase, failover, backup, result, exit>>

Exits == {"none", "running", "0", "1", "130", "returned", "raised"}
Phases == {"idle", "confirm", "code", "load", "construct", "fence", "manifest", "restore",
           "timestamp", "snapshot", "publish", "report"}

Init ==
  /\ now = 0 /\ skew \in Skews
  /\ latest = None /\ held = None
  /\ via = "command line" /\ entry = "failover" /\ interactive = TRUE
  /\ consent = "not asked" /\ reason = "none" /\ code = "none" /\ config = None
  /\ run_id = "plain" /\ tsm_variable = "unset"
  /\ phase = "idle"
  /\ fenced = None /\ declared = 0 /\ accepted = None /\ failed_at = "nothing"
  /\ created = 0 /\ snapshot = 0
  /\ result = "none" /\ exit = "none"

(* The manager object of a session is new. *)
Fresh ==
  /\ fenced' = None /\ declared' = 0 /\ accepted' = None /\ failed_at' = "nothing"
  /\ created' = 0 /\ snapshot' = 0
  /\ tsm_variable' = "unset"
  /\ result' = "none"

(* Between sessions nothing is left of the last one but the manifest in the
   store and the orchestrator's Config. *)
Forgotten ==
  /\ via' = "command line" /\ entry' = "failover" /\ interactive' = TRUE
  /\ consent' = "not asked" /\ reason' = "none" /\ code' = "none" /\ config' = None
  /\ run_id' = "plain"
  /\ Fresh
  /\ exit' = "none"

Tick ==
  /\ now < MaxTime
  /\ now' = now + 1
  /\ IF phase = "idle" THEN Forgotten
                       ELSE UNCHANGED <<inputs, failover, created, snapshot, result, exit>>
  /\ UNCHANGED <<skew, latest, held, phase>>

-----------------------------------------------------------------------------
(* How a session moves on and ends. *)
Goto(p) == phase' = p /\ UNCHANGED exit

End(how) == phase' = "idle" /\ exit' = how

(* A TableauDRError, ValueError or OSError: a command line turns it into an
   exit code, an orchestrator lets it pass. *)
Fail == End(IF via = "command line" THEN "1" ELSE "raised")

Interrupted == End(IF via = "command line" THEN "130" ELSE "raised")

-----------------------------------------------------------------------------
(* The command lines.  Each is a process of its own: the model has one at a
   time, and none keeps an orchestrator. *)

(* parse_args and the three validators of execute_switchover. *)
Switchover ==
  /\ phase = "idle"
  /\ via' = "command line" /\ entry' = "failover"
  /\ interactive' \in BOOLEAN /\ reason' \in Reasons
  /\ consent' = "not asked" /\ code' = "none"
  /\ \E referenceValid \in BOOLEAN :
       IF reason' \in {"blank", "too long"} \/ ~referenceValid
       THEN phase' = "idle" /\ exit' = "1"
       ELSE /\ phase' = IF interactive' THEN "confirm" ELSE "code"
            /\ exit' = "running"
  /\ config' = None /\ held' = None /\ run_id' = "plain" /\ Fresh
  /\ UNCHANGED <<clocks, latest>>

(* Anything but an explicit no would do. *)
ConfirmFailover_Slip ==
  /\ phase = "confirm"
  /\ consent' \in {"given", "declined"}
  /\ Goto("code")
  /\ UNCHANGED <<clocks, held, via, entry, interactive, reason, code, config,
                 environment, failover, backup, result>>

(* Ctrl-C at the prompt, and an end of input, which no clause foresees. *)
ConfirmFailover ==
  /\ phase = "confirm"
  /\ \/ consent' = "given" /\ Goto("code")
     \/ consent' = "declined" /\ End("0")
     \/ consent' = "not asked" /\ (Interrupted \/ Fail)
  /\ UNCHANGED <<clocks, held, via, entry, interactive, reason, code, config,
                 environment, failover, backup, result>>

(* The environment variable decides if it is set; without it only an
   interactive session asks, and Enter means that there is no code. *)
GetEmergencyAuthCode ==
  /\ phase = "code"
  /\ \/ \E variable \in AuthCodes :
          /\ code' \in IF variable = "none" /\ interactive THEN AuthCodes ELSE {variable}
          /\ Goto("load")
     \/ interactive /\ (Interrupted \/ Fail) /\ UNCHANGED code
  /\ UNCHANGED <<clocks, held, via, entry, interactive, consent, reason, config,
                 environment, failover, backup, result>>

(* --run-id, or a random one. *)
BackupCommand ==
  /\ phase = "idle"
  /\ via' = "command line" /\ entry' = "backup"
  /\ interactive' = FALSE /\ reason' = "none" /\ consent' = "not asked" /\ code' = "none"
  /\ phase' = "load" /\ exit' = "running"
  /\ run_id' \in RunIds
  /\ config' = None /\ held' = None /\ Fresh
  /\ UNCHANGED <<clocks, latest>>

(* Config(): the file is read when its turn comes, whatever it was before. *)
LoadConfig ==
  /\ phase = "load"
  /\ \E file \in Configurations :
       IF SchemaAccepts(file)
       THEN config' = file /\ Goto("construct")
       ELSE Fail /\ UNCHANGED config
  /\ UNCHANGED <<clocks, held, via, entry, interactive, consent, reason, code,
                 environment, failover, backup, result>>

-----------------------------------------------------------------------------
(* The orchestrator. *)

(* The new configuration would be in place before it is validated. *)
ReloadConfig_Slip ==
  /\ phase = "idle"
  /\ held' \in Configurations
  /\ Forgotten
  /\ UNCHANGED <<clocks, phase, latest>>

(* __init__ and reload_config: a Config is complete or it is not there, and
   __init__ has no object to return if it refuses the run id. *)
ReloadConfig ==
  /\ phase = "idle"
  /\ \E id \in RunIds :
       IF OrchestratorTakes(id)
       THEN \E file \in Configurations : held' = IF SchemaAccepts(file) THEN file ELSE held
       ELSE UNCHANGED held
  /\ Forgotten
  /\ UNCHANGED <<clocks, phase, latest>>

(* The run id of an orchestrator is one its constructor has let through. *)
ResolvedRunIds == {id \in RunIds : OrchestratorTakes(id)}

(* run_recovery up to its manager: _validate_recovery_arguments. *)
RunRecovery ==
  /\ phase = "idle" /\ held # None
  /\ via' = "orchestrator" /\ entry' = "failover" /\ interactive' = FALSE
  /\ consent' = "not asked"
  /\ reason' \in Reasons /\ code' \in AuthCodes
  /\ config' = held /\ run_id' \in ResolvedRunIds
  /\ \E referenceValid \in BOOLEAN :
       IF \/ reason' \in {"blank", "too long"}
          \/ code' # "none" /\ reason' = "none"
          \/ ~referenceValid
       THEN phase' = "idle" /\ exit' = "raised"
       ELSE phase' = "construct" /\ exit' = "running"
  /\ Fresh
  /\ UNCHANGED <<clocks, held, latest>>

RunBackup ==
  /\ phase = "idle" /\ held # None
  /\ via' = "orchestrator" /\ entry' = "backup" /\ interactive' = FALSE
  /\ reason' = "none" /\ consent' = "not asked" /\ code' = "none"
  /\ config' = held /\ run_id' \in ResolvedRunIds
  /\ phase' = "construct" /\ exit' = "running"
  /\ Fresh
  /\ UNCHANGED <<clocks, held, latest>>

-----------------------------------------------------------------------------
(* A failover, from its manager's constructor to its result. *)
ConstructRecovery ==
  /\ phase = "construct" /\ entry = "failover"
  /\ tsm_variable' \in TsmVariables
  /\ IF RecoveryManagerAccepts(config, run_id, tsm_variable')
     THEN declared' = now /\ Goto("fence") /\ UNCHANGED failed_at
     ELSE failed_at' = "constructor" /\ Fail /\ UNCHANGED declared
  /\ UNCHANGED <<clocks, held, given, fenced, accepted, backup, result>>

Settle(status) == result' = status /\ Goto("report")

Security(c) == [enabled |-> c.enabled, confirmed |-> c.confirmed, code |-> c.code]

Fence ==
  /\ phase = "fence"
  /\ LET method == FenceProduction(Security(config), code, reason)
     IN  IF method = "refused"
         THEN failed_at' = "fencing" /\ Settle("FAILED") /\ UNCHANGED fenced
         ELSE fenced' = method /\ Goto("manifest") /\ UNCHANGED <<failed_at, result>>
  /\ UNCHANGED <<clocks, held, inputs, declared, accepted, backup>>

(* The newest manifest, or the one the operator names, is the one that was
   written last. *)
CheckManifest ==
  /\ phase = "manifest"
  /\ IF latest # None /\ ValidManifest(latest.manifest, config, now)
     THEN accepted' = latest /\ Goto("restore") /\ UNCHANGED <<failed_at, result>>
     ELSE failed_at' = "manifest" /\ Settle("FAILED") /\ UNCHANGED accepted
  /\ UNCHANGED <<clocks, held, inputs, fenced, declared, backup>>

Restore ==
  /\ phase = "restore"
  /\ \/ Settle("SUCCESS") /\ UNCHANGED failed_at
     \/ failed_at' = "later" /\ Settle("FAILED")
  /\ UNCHANGED <<clocks, held, inputs, fenced, declared, accepted, backup>>

(* A failure would look like a success to the shell. *)
Report_Slip ==
  /\ phase = "report"
  /\ End(IF via = "command line" THEN "0" ELSE "returned")
  /\ UNCHANGED <<clocks, held, inputs, failover, backup, result>>

(* A result that is not SUCCESS is never logged nor returned: .value is
   asked of the plain strings it holds, and the AttributeError that follows
   ends the session instead. *)
Report ==
  /\ phase = "report"
  /\ IF result = "SUCCESS"
     THEN End(IF via = "command line" THEN "0" ELSE "returned")
     ELSE Fail
  /\ UNCHANGED <<clocks, held, inputs, failover, backup, result>>

(* measured_backup_age_rpo_seconds of the result. *)
Age == MeasuredAge(declared, accepted.manifest.created)

-----------------------------------------------------------------------------
(* A backup, from its manager's constructor to its result. *)
ConstructBackup ==
  /\ phase = "construct" /\ entry = "backup"
  /\ tsm_variable' \in TsmVariables
  /\ IF LoggerKeyword /\ BackupManagerAccepts(config, run_id, tsm_variable')
     THEN Goto("timestamp") /\ UNCHANGED failed_at
     ELSE failed_at' = "constructor" /\ Fail
  /\ UNCHANGED <<clocks, held, given, fenced, declared, accepted, backup, result>>

TakeTimestamp ==
  /\ phase = "timestamp"
  /\ created' = now + skew
  /\ Goto("snapshot")
  /\ UNCHANGED <<clocks, held, inputs, failover, snapshot, latest, result>>

TakeSnapshot ==
  /\ phase = "snapshot"
  /\ snapshot' = now
  /\ Goto("publish")
  /\ UNCHANGED <<clocks, held, inputs, failover, created, latest, result>>

Manifest(verified) ==
  [manifest |-> CreateManifest(config, created), snapshot |-> snapshot,
   verified |-> verified]

(* Everything is uploaded and verified; or verification fails and the
   manifest stays in the store; or something failed before. *)
Publish ==
  /\ phase = "publish"
  /\ \/ /\ latest' = Manifest(TRUE)
        /\ result' = "SUCCESS"
        /\ End(IF via = "command line" THEN "0" ELSE "returned")
     \/ latest' = Manifest(FALSE) /\ result' = "ERROR" /\ Fail
     \/ result' = "ERROR" /\ Fail /\ UNCHANGED latest
  /\ UNCHANGED <<clocks, held, inputs, failover, created, snapshot>>

(* KeyboardInterrupt while a manager works. *)
Interrupt ==
  /\ phase \in {"load", "construct", "fence", "manifest", "restore", "timestamp",
                "snapshot", "publish"}
  /\ Interrupted
  /\ UNCHANGED <<clocks, held, inputs, failover, backup, result>>

Next ==
  \/ Tick
  \/ Switchover \/ ConfirmFailover \/ GetEmergencyAuthCode \/ BackupCommand \/ LoadConfig
  \/ ReloadConfig \/ RunRecovery \/ RunBackup
  \/ ConstructRecovery \/ Fence \/ CheckManifest \/ Restore \/ Report
  \/ ConstructBackup \/ TakeTimestamp \/ TakeSnapshot \/ Publish
  \/ Interrupt

Spec == Init /\ [][Next]_vars
=============================================================================

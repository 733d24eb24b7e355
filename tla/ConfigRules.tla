---------------------------- MODULE ConfigRules ----------------------------
(***************************************************************************)
(* config.py, and what the constructors that receive a Config check once   *)
(* more, each in its own way.                                              *)
(*                                                                         *)
(* A configuration is a record of the values some check tells apart.       *)
(* "shape" stands for what the schema table demands of every required key: *)
(* present, of its type, finite and not negative, neither blank nor with   *)
(* control characters.  Strings that are not numbers name a class of       *)
(* values: "dr." ends in a dot, "port" stands for a name with a port or    *)
(* with an underscore inside, "url" for one with a slash or with a first   *)
(* character that is no letter or digit, "digits" has no letter, "PROD"    *)
(* differs from "prod" in case alone.                                      *)
(***************************************************************************)
EXTENDS Integers

MAX_RETRIES_LIMIT == 10
MAX_RETRY_BACKOFF_SECONDS == 300
MAX_FREE_SPACE_GB == 10000000

Shapes == {"whole", "missing key", "wrong type", "blank", "control characters"}
Versions == {"2024.2", "2025.1", "unparsable", "too long"}
Accounts == {"lower", "digits", "upper", "short"}
Hosts == {"prod", "PROD", "dr", "dr.", "port", "url", "too long"}
Stores == {"local", "activedirectory", "unsupported"}
Directories == {"directory", "file", "wildcard"}
Executables == {"unset", "empty", "found", "not found"}
ConfiguredCodes == {"unset", "placeholder", "bad length", "set"}

Configuration == [
  shape : Shapes, version : Versions, account : Accounts,
  container : {"valid", "double hyphen"}, retries : Int, backoff : Int,
  production : Hosts, dr : Hosts, productionStore : Stores, drStore : Stores,
  directory : Directories, freeSpace : Int, executable : Executables,
  strictFlags : BOOLEAN, enabled : BOOLEAN, confirmed : BOOLEAN, code : ConfiguredCodes]

Folded(host) == IF host = "PROD" THEN "prod" ELSE host

-----------------------------------------------------------------------------
(* The sections of validate_schema, in its order. *)
EnvironmentValid(c) == c.version # "too long"

(* The lower bound would be forgotten. *)
AzureValid_Slip(c) ==
  /\ c.retries <= MAX_RETRIES_LIMIT
  /\ c.backoff \in 0 .. MAX_RETRY_BACKOFF_SECONDS
  /\ c.account = "lower"
  /\ c.container = "valid"
AzureValid(c) ==
  /\ c.retries \in 1 .. MAX_RETRIES_LIMIT
  /\ c.backoff \in 0 .. MAX_RETRY_BACKOFF_SECONDS
  /\ c.account = "lower"
  /\ c.container = "valid"

ServersValid(c) ==
  /\ Folded(c.production) # Folded(c.dr)
  /\ c.productionStore # "unsupported"
  /\ c.productionStore = c.drStore

PathsValid(c) == c.directory = "directory"

(* Both thresholds of the section are bounded the same way. *)
BackupValid(c) == c.freeSpace \in 1 .. MAX_FREE_SPACE_GB

(* A path that leads nowhere passes; only an empty one is refused. *)
TsmValid(c) == c.executable # "empty"

(* A placeholder passes, and so does a section without a code. *)
SecurityValid(c) == c.strictFlags /\ c.code # "bad length"

SchemaAccepts(c) ==
  /\ c.shape = "whole"
  /\ EnvironmentValid(c) /\ AzureValid(c) /\ ServersValid(c) /\ PathsValid(c)
  /\ BackupValid(c) /\ TsmValid(c) /\ SecurityValid(c)

-----------------------------------------------------------------------------
(* Run ids come from a caller or from uuid4.  "dotted" stands for one with a
   dot, or with more than 64 characters and no more than 128: the managers
   take it and the orchestrator does not. *)
RunIds == {"plain", "dotted", "invalid"}
OrchestratorTakes(id) == id = "plain"
ManagerTakes(id) == id # "invalid"

-----------------------------------------------------------------------------
(* What the constructors ask of a configuration.  "variable" is the value of
   TSM_EXECUTABLE. *)

(* The first source that names an executable decides; where none does, the
   default name is used, found or not. *)
ConnectorAccepts(c, variable) ==
  LET named == IF c.executable = "unset" THEN variable ELSE c.executable
  IN  named \in {"unset", "found"}

AzureManagerAccepts(c) ==
  /\ c.account \in {"lower", "digits"}
  /\ c.container = "valid"
  /\ c.retries >= 1
  /\ c.backoff > 0

(* _get_hostname looks at both names before they are compared. *)
SafeHostname(host) == host \notin {"url", "too long"}
FencerAccepts(c) ==
  /\ SafeHostname(c.production) /\ SafeHostname(c.dr)
  /\ Folded(c.production) # Folded(c.dr)

HealthCheckerAccepts(c) == c.dr \notin {"port", "url", "too long"}

RecoveryManagerAccepts(c, id, variable) ==
  /\ ManagerTakes(id)
  /\ ConnectorAccepts(c, variable) /\ AzureManagerAccepts(c) /\ FencerAccepts(c)
  /\ HealthCheckerAccepts(c)
  /\ Folded(c.production) # Folded(c.dr)
  /\ c.productionStore = c.drStore

BackupManagerAccepts(c, id, variable) ==
  /\ ManagerTakes(id)
  /\ ConnectorAccepts(c, variable) /\ AzureManagerAccepts(c)
  /\ c.freeSpace > 0
=============================================================================

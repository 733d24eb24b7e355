------------------------- MODULE EntrypointsProofs -------------------------
(***************************************************************************)
(* What EntrypointsSafety states, for every set of configurations, every   *)
(* difference between the clocks and any number of sessions.               *)
(***************************************************************************)
EXTENDS EntrypointsSafety, TLAPS

(* What a session may count on in each phase. *)
Flow ==
  /\ phase # "idle" => exit = "running"
  /\ phase \notin {"idle", "report"} => failed_at = "nothing" /\ result = "none"
  /\ phase \in {"confirm", "code", "load"} => config = None
  /\ phase \notin {"idle", "confirm", "code", "load"} => config # None
  /\ phase \in {"confirm", "code", "load", "construct", "fence"} => fenced = None
  /\ phase \in {"fence", "manifest", "restore", "report"} => entry = "failover"
  /\ phase \in {"timestamp", "snapshot", "publish"} => entry = "backup"
  /\ failed_at \in {"constructor", "manifest"} => config # None
  /\ phase # "idle" /\ (entry = "failover" \/ via = "orchestrator") => ManagerTakes(run_id)

(* A backup is never dated later than production's clock stood when its data
   was taken. *)
DatedBefore(stored) == stored.manifest.created <= stored.snapshot + skew
Dated ==
  /\ phase = "snapshot" => created <= now + skew
  /\ phase = "publish" => created <= snapshot + skew /\ snapshot <= now
  /\ latest # None => DatedBefore(latest) /\ latest.snapshot <= now
  /\ accepted # None => DatedBefore(accepted)

Promises ==
  /\ ExitHonest /\ ConsentFirst /\ OnlyValidConfigs /\ OverrideDecides
  /\ BackupsRestorable /\ RpoHonest /\ LateRefusalsKnown

SessionInv == TypeOK /\ Flow /\ Dated /\ Promises

(* How a session moves on is expanded everywhere. *)
USE DEF clocks, given, environment, inputs, failover, backup, Goto, End, Fail, Interrupted, Fresh, Forgotten,
        Settle, TsmMissing, HostNamesUnfit

-----------------------------------------------------------------------------
(* The clocks start in their range. *)
LEMMA StartInRange == 0 \in 0 .. MaxTime /\ 0 \in Int
  BY EntrypointsAssumption, SMT

(* A tick stays in the range of the clocks. *)
LEMMA TickInRange ==
  ASSUME NEW t \in 0 .. MaxTime, t < MaxTime
  PROVE  t + 1 \in 0 .. MaxTime /\ t + 1 > t
  BY EntrypointsAssumption, SMT

(* The reported age against what is really lost. *)
LEMMA AgeHonest ==
  ASSUME NEW d \in Int, NEW c \in Int, NEW s \in Int, NEW k \in Int, c <= s + k
  PROVE  /\ MeasuredAge(d, c) >= 0
         /\ MeasuredAge(d, c) + (IF k > 0 THEN k ELSE 0) >= d - s
BY DEF MeasuredAge

(* What the constructors refuse of what the schema accepts. *)
LEMMA ConstructorRefusals ==
  ASSUME NEW c \in Configuration, NEW id \in RunIds, NEW variable \in Executables,
         SchemaAccepts(c)
  PROVE  /\ ~RecoveryManagerAccepts(c, id, variable)
              => \/ c.backoff = 0 \/ c.executable = "not found"
                 \/ c.executable = "unset" /\ variable \in {"empty", "not found"}
                 \/ c.production \in {"url", "too long"} \/ c.dr \in {"port", "url", "too long"}
                 \/ id = "invalid"
         /\ ~BackupManagerAccepts(c, id, variable)
              => \/ c.backoff = 0 \/ c.executable = "not found"
                 \/ c.executable = "unset" /\ variable \in {"empty", "not found"}
                 \/ id = "invalid"
<1>1. /\ c.executable \in Executables
      /\ c.retries \in Int /\ c.backoff \in Int /\ c.freeSpace \in Int
  BY DEF Configuration
<1>2. ~ConnectorAccepts(c, variable)
        => \/ c.executable = "not found"
           \/ c.executable = "unset" /\ variable \in {"empty", "not found"}
  BY <1>1 DEF ConnectorAccepts, Executables, SchemaAccepts, TsmValid
<1>3. ~AzureManagerAccepts(c) => c.backoff = 0
  BY <1>1, SMT DEF AzureManagerAccepts, SchemaAccepts, AzureValid, MAX_RETRIES_LIMIT,
                   MAX_RETRY_BACKOFF_SECONDS
<1>4. c.freeSpace > 0
  <2>1. MAX_FREE_SPACE_GB \in Int
    BY SMT DEF MAX_FREE_SPACE_GB
  <2>2. BackupValid(c)
    BY DEF SchemaAccepts
  <2> QED
    BY <1>1, <2>1, <2>2, SMT DEF BackupValid
<1>5. /\ ~FencerAccepts(c)
           => c.production \in {"url", "too long"} \/ c.dr \in {"url", "too long"}
      /\ Folded(c.production) # Folded(c.dr) /\ c.productionStore = c.drStore
  BY DEF FencerAccepts, SafeHostname, SchemaAccepts, ServersValid
<1>6. ~HealthCheckerAccepts(c) => c.dr \in {"port", "url", "too long"}
  BY DEF HealthCheckerAccepts
<1>7. ~ManagerTakes(id) => id = "invalid"
  BY DEF ManagerTakes
<1>8. ~RecoveryManagerAccepts(c, id, variable)
        => \/ ~ManagerTakes(id) \/ ~ConnectorAccepts(c, variable)
           \/ ~AzureManagerAccepts(c) \/ ~FencerAccepts(c) \/ ~HealthCheckerAccepts(c)
  BY <1>5 DEF RecoveryManagerAccepts
<1>9. ~BackupManagerAccepts(c, id, variable)
        => ~ManagerTakes(id) \/ ~ConnectorAccepts(c, variable) \/ ~AzureManagerAccepts(c)
  BY <1>4 DEF BackupManagerAccepts
<1> QED
  BY <1>2, <1>3, <1>5, <1>6, <1>7, <1>8, <1>9, Zenon

(* Why a manifest that is in the store can be refused. *)
LEMMA ManifestRefusals ==
  ASSUME NEW stored \in Stored, NEW c \in Configuration, now \in Int, skew \in Int,
         DatedBefore(stored), stored.snapshot <= now,
         ~ValidManifest(stored.manifest, c, now)
  PROVE  \/ Folded(stored.manifest.hostname) # Folded(c.production)
         \/ stored.manifest.identity_store # c.drStore
         \/ ~ValidTableauVersion(stored.manifest.version, c.version)
         \/ skew > Tolerance
<1>1. stored.manifest.created \in Int /\ stored.snapshot \in Int /\ Tolerance \in Int
  BY ToleranceAssumption, EntrypointsAssumption DEF Stored, ManifestRecord
<1>2. stored.manifest.created <= now + skew
  BY <1>1 DEF DatedBefore
<1> QED
  BY <1>1, <1>2 DEF ValidManifest

(* What a confirmed fencing rests on. *)
LEMMA FencingDecided ==
  ASSUME NEW s, NEW c, NEW why, FenceProduction(s, c, why) # "refused"
  PROVE  /\ FenceProduction(s, c, why) \in FencingMethods
         /\ (FenceProduction(s, c, why) = "EMERGENCY_AUTHORIZATION") <=> (c # "none")
         /\ c # "none" => why = "given"
BY DEF FenceProduction, EvaluateFencing, EmergencyOverrideValid, FencingMethods

(* The configuration of a session that has got past reading it. *)
LEMMA ConfigKnown ==
  ASSUME SessionInv, phase \notin {"idle", "confirm", "code", "load"}
  PROVE  config \in Configuration /\ SchemaAccepts(config)
BY EntrypointsAssumption DEF SessionInv, TypeOK, InputsOK, Flow, Promises, OnlyValidConfigs

-----------------------------------------------------------------------------
(* One lemma for every action. *)
LEMMA TickKeeps ==
  ASSUME SessionInv, Tick
  PROVE  SessionInv'
<1>1. InputsOK'
  <2>1. CASE phase = "idle"
    BY <2>1 DEF SessionInv, TypeOK, InputsOK, Reasons, AuthCodes, RunIds, Executables, Tick
  <2>2. CASE phase # "idle"
    BY <2>2 DEF SessionInv, TypeOK, InputsOK, Tick
  <2> QED
    BY <2>1, <2>2
<1>2. ProgressOK'
  BY EntrypointsAssumption DEF SessionInv, TypeOK, ProgressOK, Phases, Exits, Tick
<1>3. TimesOK'
  BY StartInRange, TickInRange DEF SessionInv, TypeOK, TimesOK, Tick
<1>4. Flow'
  BY EntrypointsAssumption DEF SessionInv, TypeOK, InputsOK, Flow, Tick
<1>5. Dated'
  <2>1. /\ now \in 0 .. MaxTime /\ skew \in Skews /\ created \in Int
        /\ snapshot \in 0 .. MaxTime /\ latest \in Stored \cup {None}
    BY DEF SessionInv, TypeOK, TimesOK
  <2>2. /\ now \in Int /\ skew \in Int /\ snapshot \in Int
        /\ (latest # None => latest.snapshot \in Int)
    BY <2>1, EntrypointsAssumption DEF Stored
  <2>3. now' = now + 1 /\ skew' = skew /\ latest' = latest /\ phase' = phase
    BY DEF Tick
  <2>4. /\ phase' = "snapshot" => created' <= now' + skew'
        /\ phase' = "publish" => created' <= snapshot' + skew' /\ snapshot' <= now'
    <3>1. phase # "idle" => created' = created /\ snapshot' = snapshot
      BY DEF Tick
    <3>2. /\ phase = "snapshot" => created <= now + skew
          /\ phase = "publish" => created <= snapshot + skew /\ snapshot <= now
      BY DEF SessionInv, Dated
    <3> QED
      BY <2>1, <2>2, <2>3, <3>1, <3>2
  <2>5. latest' # None => DatedBefore(latest)' /\ latest'.snapshot <= now'
    <3>1. latest # None => DatedBefore(latest) /\ latest.snapshot <= now
      BY DEF SessionInv, Dated
    <3> QED
      BY <2>2, <2>3, <3>1 DEF DatedBefore
  <2>6. accepted' # None => DatedBefore(accepted)'
    BY DEF SessionInv, Dated, DatedBefore, Tick
  <2> QED
    BY <2>4, <2>5, <2>6 DEF Dated
<1>6. ExitHonest' /\ ConsentFirst'
  BY DEF SessionInv, Flow, Promises, ExitHonest, ConsentFirst, Tick
<1>7. OnlyValidConfigs'
  BY DEF SessionInv, Flow, Promises, OnlyValidConfigs, Tick
<1>8. OverrideDecides'
  BY DEF SessionInv, Flow, Promises, OverrideDecides, Tick
<1>9. BackupsRestorable'
  BY DEF SessionInv, Flow, Promises, BackupsRestorable, Tick
<1>10. RpoHonest'
  BY DEF SessionInv, TypeOK, InputsOK, TimesOK, Flow, Promises, RpoHonest, Age, Tick
<1>11. LateRefusalsKnown'
  BY DEF SessionInv, Flow, Promises, LateRefusalsKnown, Tick
<1> QED
  BY <1>1, <1>2, <1>3, <1>4, <1>5, <1>6, <1>7, <1>8, <1>9, <1>10, <1>11
    DEF SessionInv, TypeOK, Promises

LEMMA SwitchoverKeeps ==
  ASSUME SessionInv, Switchover
  PROVE  SessionInv'
<1>1. InputsOK'
  BY EntrypointsAssumption DEF SessionInv, TypeOK, InputsOK, Reasons, AuthCodes, RunIds,
    Executables, Switchover
<1>2. ProgressOK'
  BY EntrypointsAssumption DEF SessionInv, TypeOK, ProgressOK, Phases, Exits, Switchover
<1>3. TimesOK'
  BY StartInRange DEF SessionInv, TypeOK, TimesOK, Switchover
<1>4. Flow'
  BY EntrypointsAssumption DEF SessionInv, TypeOK, InputsOK, Flow, ManagerTakes,
    Switchover
<1>5. Dated'
  BY EntrypointsAssumption DEF SessionInv, TypeOK, TimesOK, Dated, DatedBefore, Switchover
<1>6. ExitHonest' /\ ConsentFirst'
  BY DEF SessionInv, Flow, Promises, ExitHonest, ConsentFirst, Switchover
<1>7. OnlyValidConfigs'
  BY DEF SessionInv, Flow, Promises, OnlyValidConfigs, Switchover
<1>8. OverrideDecides'
  BY DEF SessionInv, Flow, Promises, OverrideDecides, Switchover
<1>9. BackupsRestorable'
  BY DEF SessionInv, Flow, Promises, BackupsRestorable, Switchover
<1>10. RpoHonest'
  BY DEF SessionInv, TypeOK, InputsOK, TimesOK, Flow, Promises, RpoHonest, Age, Switchover
<1>11. LateRefusalsKnown'
  BY DEF SessionInv, Flow, Promises, LateRefusalsKnown, Switchover
<1> QED
  BY <1>1, <1>2, <1>3, <1>4, <1>5, <1>6, <1>7, <1>8, <1>9, <1>10, <1>11
    DEF SessionInv, TypeOK, Promises

LEMMA ConfirmFailoverKeeps ==
  ASSUME SessionInv, ConfirmFailover
  PROVE  SessionInv'
<1>1. InputsOK'
  BY EntrypointsAssumption DEF SessionInv, TypeOK, InputsOK, ConfirmFailover
<1>2. ProgressOK'
  BY EntrypointsAssumption
    DEF SessionInv, TypeOK, ProgressOK, Phases, Exits, ConfirmFailover
<1>3. TimesOK'
  BY EntrypointsAssumption DEF SessionInv, TypeOK, TimesOK, ConfirmFailover
<1>4. Flow'
  BY EntrypointsAssumption DEF SessionInv, TypeOK, InputsOK, Flow, ConfirmFailover
<1>5. Dated'
  BY EntrypointsAssumption
    DEF SessionInv, TypeOK, TimesOK, Dated, DatedBefore, ConfirmFailover
<1>6. ExitHonest' /\ ConsentFirst'
  BY DEF SessionInv, Flow, Promises, ExitHonest, ConsentFirst, ConfirmFailover
<1>7. OnlyValidConfigs'
  BY DEF SessionInv, Flow, Promises, OnlyValidConfigs, ConfirmFailover
<1>8. OverrideDecides'
  BY DEF SessionInv, Flow, Promises, OverrideDecides, ConfirmFailover
<1>9. BackupsRestorable'
  BY DEF SessionInv, Flow, Promises, BackupsRestorable, ConfirmFailover
<1>10. RpoHonest'
  BY DEF SessionInv, TypeOK, InputsOK, TimesOK, Flow, Promises, RpoHonest, Age,
         ConfirmFailover
<1>11. LateRefusalsKnown'
  BY DEF SessionInv, Flow, Promises, LateRefusalsKnown, ConfirmFailover
<1> QED
  BY <1>1, <1>2, <1>3, <1>4, <1>5, <1>6, <1>7, <1>8, <1>9, <1>10, <1>11
    DEF SessionInv, TypeOK, Promises

LEMMA GetEmergencyAuthCodeKeeps ==
  ASSUME SessionInv, GetEmergencyAuthCode
  PROVE  SessionInv'
<1>1. InputsOK'
  BY EntrypointsAssumption
    DEF SessionInv, TypeOK, InputsOK, Reasons, AuthCodes, GetEmergencyAuthCode
<1>2. ProgressOK'
  BY EntrypointsAssumption
    DEF SessionInv, TypeOK, ProgressOK, Phases, Exits, GetEmergencyAuthCode
<1>3. TimesOK'
  BY EntrypointsAssumption DEF SessionInv, TypeOK, TimesOK, GetEmergencyAuthCode
<1>4. Flow'
  BY EntrypointsAssumption DEF SessionInv, TypeOK, InputsOK, Flow, GetEmergencyAuthCode
<1>5. Dated'
  BY EntrypointsAssumption
    DEF SessionInv, TypeOK, TimesOK, Dated, DatedBefore, GetEmergencyAuthCode
<1>6. ExitHonest' /\ ConsentFirst'
  BY DEF SessionInv, Flow, Promises, ExitHonest, ConsentFirst, GetEmergencyAuthCode
<1>7. OnlyValidConfigs'
  BY DEF SessionInv, Flow, Promises, OnlyValidConfigs, GetEmergencyAuthCode
<1>8. OverrideDecides'
  BY DEF SessionInv, Flow, Promises, OverrideDecides, GetEmergencyAuthCode
<1>9. BackupsRestorable'
  BY DEF SessionInv, Flow, Promises, BackupsRestorable, GetEmergencyAuthCode
<1>10. RpoHonest'
  BY DEF SessionInv, TypeOK, InputsOK, TimesOK, Flow, Promises, RpoHonest, Age,
         GetEmergencyAuthCode
<1>11. LateRefusalsKnown'
  BY DEF SessionInv, Flow, Promises, LateRefusalsKnown, GetEmergencyAuthCode
<1> QED
  BY <1>1, <1>2, <1>3, <1>4, <1>5, <1>6, <1>7, <1>8, <1>9, <1>10, <1>11
    DEF SessionInv, TypeOK, Promises

LEMMA BackupCommandKeeps ==
  ASSUME SessionInv, BackupCommand
  PROVE  SessionInv'
<1>1. InputsOK'
  BY EntrypointsAssumption
    DEF SessionInv, TypeOK, InputsOK, Reasons, AuthCodes, RunIds, Executables, BackupCommand
<1>2. ProgressOK'
  BY EntrypointsAssumption DEF SessionInv, TypeOK, ProgressOK, Phases, Exits, BackupCommand
<1>3. TimesOK'
  BY StartInRange DEF SessionInv, TypeOK, TimesOK, BackupCommand
<1>4. Flow'
  BY EntrypointsAssumption DEF SessionInv, TypeOK, InputsOK, Flow, BackupCommand
<1>5. Dated'
  BY EntrypointsAssumption
    DEF SessionInv, TypeOK, TimesOK, Dated, DatedBefore, BackupCommand
<1>6. ExitHonest' /\ ConsentFirst'
  BY DEF SessionInv, Flow, Promises, ExitHonest, ConsentFirst, BackupCommand
<1>7. OnlyValidConfigs'
  BY DEF SessionInv, Flow, Promises, OnlyValidConfigs, BackupCommand
<1>8. OverrideDecides'
  BY DEF SessionInv, Flow, Promises, OverrideDecides, BackupCommand
<1>9. BackupsRestorable'
  BY DEF SessionInv, Flow, Promises, BackupsRestorable, BackupCommand
<1>10. RpoHonest'
  BY DEF SessionInv, TypeOK, InputsOK, TimesOK, Flow, Promises, RpoHonest, Age,
         BackupCommand
<1>11. LateRefusalsKnown'
  BY DEF SessionInv, Flow, Promises, LateRefusalsKnown, BackupCommand
<1> QED
  BY <1>1, <1>2, <1>3, <1>4, <1>5, <1>6, <1>7, <1>8, <1>9, <1>10, <1>11
    DEF SessionInv, TypeOK, Promises

LEMMA LoadConfigKeeps ==
  ASSUME SessionInv, LoadConfig
  PROVE  SessionInv'
<1>1. InputsOK'
  BY EntrypointsAssumption DEF SessionInv, TypeOK, InputsOK, LoadConfig
<1>2. ProgressOK'
  BY EntrypointsAssumption DEF SessionInv, TypeOK, ProgressOK, Phases, Exits, LoadConfig
<1>3. TimesOK'
  BY EntrypointsAssumption DEF SessionInv, TypeOK, TimesOK, LoadConfig
<1>4. Flow'
  BY EntrypointsAssumption DEF SessionInv, TypeOK, InputsOK, Flow, LoadConfig
<1>5. Dated'
  BY EntrypointsAssumption DEF SessionInv, TypeOK, TimesOK, Dated, DatedBefore, LoadConfig
<1>6. ExitHonest' /\ ConsentFirst'
  BY DEF SessionInv, Flow, Promises, ExitHonest, ConsentFirst, LoadConfig
<1>7. OnlyValidConfigs'
  BY DEF SessionInv, Flow, Promises, OnlyValidConfigs, LoadConfig
<1>8. OverrideDecides'
  BY DEF SessionInv, Flow, Promises, OverrideDecides, LoadConfig
<1>9. BackupsRestorable'
  BY DEF SessionInv, Flow, Promises, BackupsRestorable, LoadConfig
<1>10. RpoHonest'
  BY DEF SessionInv, TypeOK, InputsOK, TimesOK, Flow, Promises, RpoHonest, Age, LoadConfig
<1>11. LateRefusalsKnown'
  BY DEF SessionInv, Flow, Promises, LateRefusalsKnown, LoadConfig
<1> QED
  BY <1>1, <1>2, <1>3, <1>4, <1>5, <1>6, <1>7, <1>8, <1>9, <1>10, <1>11
    DEF SessionInv, TypeOK, Promises

LEMMA ReloadConfigKeeps ==
  ASSUME SessionInv, ReloadConfig
  PROVE  SessionInv'
<1>1. InputsOK'
  BY EntrypointsAssumption
    DEF SessionInv, TypeOK, InputsOK, Reasons, AuthCodes, RunIds, Executables, ReloadConfig
<1>2. ProgressOK'
  BY EntrypointsAssumption DEF SessionInv, TypeOK, ProgressOK, Phases, Exits, ReloadConfig
<1>3. TimesOK'
  BY StartInRange DEF SessionInv, TypeOK, TimesOK, ReloadConfig
<1>4. Flow'
  BY EntrypointsAssumption DEF SessionInv, TypeOK, InputsOK, Flow, ReloadConfig
<1>5. Dated'
  BY EntrypointsAssumption DEF SessionInv, TypeOK, TimesOK, Dated, DatedBefore, ReloadConfig
<1>6. ExitHonest' /\ ConsentFirst'
  BY DEF SessionInv, Flow, Promises, ExitHonest, ConsentFirst, ReloadConfig
<1>7. OnlyValidConfigs'
  BY DEF SessionInv, Flow, Promises, OnlyValidConfigs, ReloadConfig
<1>8. OverrideDecides'
  BY DEF SessionInv, Flow, Promises, OverrideDecides, ReloadConfig
<1>9. BackupsRestorable'
  BY DEF SessionInv, Flow, Promises, BackupsRestorable, ReloadConfig
<1>10. RpoHonest'
  BY DEF SessionInv, TypeOK, InputsOK, TimesOK, Flow, Promises, RpoHonest, Age, ReloadConfig
<1>11. LateRefusalsKnown'
  BY DEF SessionInv, Flow, Promises, LateRefusalsKnown, ReloadConfig
<1> QED
  BY <1>1, <1>2, <1>3, <1>4, <1>5, <1>6, <1>7, <1>8, <1>9, <1>10, <1>11
    DEF SessionInv, TypeOK, Promises

LEMMA RunRecoveryKeeps ==
  ASSUME SessionInv, RunRecovery
  PROVE  SessionInv'
<1>1. InputsOK'
  BY EntrypointsAssumption DEF SessionInv, TypeOK, InputsOK, Reasons, AuthCodes,
    ResolvedRunIds, Executables, RunRecovery
<1>2. ProgressOK'
  BY EntrypointsAssumption DEF SessionInv, TypeOK, ProgressOK, Phases, Exits, RunRecovery
<1>3. TimesOK'
  BY StartInRange DEF SessionInv, TypeOK, TimesOK, RunRecovery
<1>4. Flow'
  BY EntrypointsAssumption DEF SessionInv, TypeOK, InputsOK, Flow, ResolvedRunIds,
    OrchestratorTakes, ManagerTakes, RunRecovery
<1>5. Dated'
  BY EntrypointsAssumption DEF SessionInv, TypeOK, TimesOK, Dated, DatedBefore, RunRecovery
<1>6. ExitHonest' /\ ConsentFirst'
  BY DEF SessionInv, Flow, Promises, ExitHonest, ConsentFirst, RunRecovery
<1>7. OnlyValidConfigs'
  BY DEF SessionInv, Flow, Promises, OnlyValidConfigs, RunRecovery
<1>8. OverrideDecides'
  BY DEF SessionInv, Flow, Promises, OverrideDecides, RunRecovery
<1>9. BackupsRestorable'
  BY DEF SessionInv, Flow, Promises, BackupsRestorable, RunRecovery
<1>10. RpoHonest'
  BY DEF SessionInv, TypeOK, InputsOK, TimesOK, Flow, Promises, RpoHonest, Age, RunRecovery
<1>11. LateRefusalsKnown'
  BY DEF SessionInv, Flow, Promises, LateRefusalsKnown, RunRecovery
<1> QED
  BY <1>1, <1>2, <1>3, <1>4, <1>5, <1>6, <1>7, <1>8, <1>9, <1>10, <1>11
    DEF SessionInv, TypeOK, Promises

LEMMA RunBackupKeeps ==
  ASSUME SessionInv, RunBackup
  PROVE  SessionInv'
<1>1. InputsOK'
  BY EntrypointsAssumption DEF SessionInv, TypeOK, InputsOK, Reasons, AuthCodes,
    ResolvedRunIds, Executables, RunBackup
<1>2. ProgressOK'
  BY EntrypointsAssumption DEF SessionInv, TypeOK, ProgressOK, Phases, Exits, RunBackup
<1>3. TimesOK'
  BY StartInRange DEF SessionInv, TypeOK, TimesOK, RunBackup
<1>4. Flow'
  BY EntrypointsAssumption DEF SessionInv, TypeOK, InputsOK, Flow, ResolvedRunIds,
    OrchestratorTakes, ManagerTakes, RunBackup
<1>5. Dated'
  BY EntrypointsAssumption DEF SessionInv, TypeOK, TimesOK, Dated, DatedBefore, RunBackup
<1>6. ExitHonest' /\ ConsentFirst'
  BY DEF SessionInv, Flow, Promises, ExitHonest, ConsentFirst, RunBackup
<1>7. OnlyValidConfigs'
  BY DEF SessionInv, Flow, Promises, OnlyValidConfigs, RunBackup
<1>8. OverrideDecides'
  BY DEF SessionInv, Flow, Promises, OverrideDecides, RunBackup
<1>9. BackupsRestorable'
  BY DEF SessionInv, Flow, Promises, BackupsRestorable, RunBackup
<1>10. RpoHonest'
  BY DEF SessionInv, TypeOK, InputsOK, TimesOK, Flow, Promises, RpoHonest, Age, RunBackup
<1>11. LateRefusalsKnown'
  BY DEF SessionInv, Flow, Promises, LateRefusalsKnown, RunBackup
<1> QED
  BY <1>1, <1>2, <1>3, <1>4, <1>5, <1>6, <1>7, <1>8, <1>9, <1>10, <1>11
    DEF SessionInv, TypeOK, Promises

LEMMA ConstructRecoveryKeeps ==
  ASSUME SessionInv, ConstructRecovery
  PROVE  SessionInv'
<1>1. InputsOK'
  BY EntrypointsAssumption DEF SessionInv, TypeOK, InputsOK, ConstructRecovery
<1>2. ProgressOK'
  BY EntrypointsAssumption
    DEF SessionInv, TypeOK, ProgressOK, Phases, Exits, ConstructRecovery
<1>3. TimesOK'
  BY EntrypointsAssumption DEF SessionInv, TypeOK, TimesOK, ConstructRecovery
<1>4. Flow'
  BY EntrypointsAssumption DEF SessionInv, TypeOK, InputsOK, Flow, ConstructRecovery
<1>5. Dated'
  BY EntrypointsAssumption
    DEF SessionInv, TypeOK, TimesOK, Dated, DatedBefore, ConstructRecovery
<1>6. ExitHonest' /\ ConsentFirst'
  BY DEF SessionInv, Flow, Promises, ExitHonest, ConsentFirst, ConstructRecovery
<1>7. OnlyValidConfigs'
  BY DEF SessionInv, Flow, Promises, OnlyValidConfigs, ConstructRecovery
<1>8. OverrideDecides'
  BY DEF SessionInv, Flow, Promises, OverrideDecides, ConstructRecovery
<1>9. BackupsRestorable'
  BY DEF SessionInv, Flow, Promises, BackupsRestorable, ConstructRecovery
<1>10. RpoHonest'
  <2>1. CASE accepted' # None
    <3>1. /\ accepted' \in Stored /\ declared' \in Int
          /\ skew \in Int /\ skew' = skew
      <4>1. accepted' \in Stored
        BY <1>3, <2>1 DEF TimesOK
      <4>2. declared' \in 0 .. MaxTime /\ skew \in Skews /\ skew' = skew
        BY <1>3 DEF SessionInv, TypeOK, TimesOK, ConstructRecovery
      <4> QED
        BY <4>1, <4>2, EntrypointsAssumption
    <3>2. /\ accepted'.manifest.created \in Int /\ accepted'.snapshot \in Int
          /\ accepted'.manifest.created <= accepted'.snapshot + skew
      <4>1. accepted'.manifest.created \in Int /\ accepted'.snapshot \in Int
        BY <3>1, EntrypointsAssumption DEF Stored, ManifestRecord
      <4> QED
        BY <1>5, <2>1, <3>1, <4>1 DEF Dated, DatedBefore
    <3> QED
      BY <3>1, <3>2, AgeHonest DEF RpoHonest, Age
  <2> QED
    BY <2>1 DEF RpoHonest
<1>11. LateRefusalsKnown'
  <2>1. /\ config \in Configuration /\ SchemaAccepts(config) /\ run_id \in RunIds
        /\ tsm_variable' \in Executables
    BY <1>1, ConfigKnown DEF SessionInv, TypeOK, InputsOK, ConstructRecovery
  <2>2. UNCHANGED given /\ (entry = "failover" \/ via = "orchestrator" => run_id # "invalid")
    BY DEF SessionInv, Flow, ManagerTakes, ConstructRecovery
  <2>3. CASE failed_at' = "constructor"
    <3>1. ~(RecoveryManagerAccepts(config, run_id, tsm_variable'))
      BY <2>3 DEF SessionInv, Flow, ConstructRecovery
    <3>2. entry = "failover"
      BY DEF SessionInv, TypeOK, InputsOK, ConstructRecovery
    <3> QED
      BY <2>1, <2>2, <3>1, <3>2, ConstructorRefusals DEF LateRefusalsKnown
  <2> QED
    BY <2>3 DEF LateRefusalsKnown
<1> QED
  BY <1>1, <1>2, <1>3, <1>4, <1>5, <1>6, <1>7, <1>8, <1>9, <1>10, <1>11
    DEF SessionInv, TypeOK, Promises

LEMMA FenceKeeps ==
  ASSUME SessionInv, Fence
  PROVE  SessionInv'
<1>1. InputsOK'
  BY EntrypointsAssumption DEF SessionInv, TypeOK, InputsOK, Fence
<1>2. ProgressOK'
  BY EntrypointsAssumption, FencingDecided DEF SessionInv, TypeOK, ProgressOK, Phases, Fence
<1>3. TimesOK'
  BY EntrypointsAssumption DEF SessionInv, TypeOK, TimesOK, Fence
<1>4. Flow'
  BY EntrypointsAssumption DEF SessionInv, TypeOK, InputsOK, Flow, Fence
<1>5. Dated'
  BY EntrypointsAssumption DEF SessionInv, TypeOK, TimesOK, Dated, DatedBefore, Fence
<1>6. ExitHonest' /\ ConsentFirst'
  BY DEF SessionInv, Flow, Promises, ExitHonest, ConsentFirst, Fence
<1>7. OnlyValidConfigs'
  BY DEF SessionInv, Flow, Promises, OnlyValidConfigs, Fence
<1>8. OverrideDecides'
  BY FencingDecided DEF SessionInv, Flow, OverrideDecides, Fence
<1>9. BackupsRestorable'
  BY DEF SessionInv, Flow, Promises, BackupsRestorable, Fence
<1>10. RpoHonest'
  BY DEF SessionInv, TypeOK, InputsOK, TimesOK, Flow, Promises, RpoHonest, Age, Fence
<1>11. LateRefusalsKnown'
  BY DEF SessionInv, Flow, Promises, LateRefusalsKnown, Fence
<1> QED
  BY <1>1, <1>2, <1>3, <1>4, <1>5, <1>6, <1>7, <1>8, <1>9, <1>10, <1>11
    DEF SessionInv, TypeOK, Promises

LEMMA CheckManifestKeeps ==
  ASSUME SessionInv, CheckManifest
  PROVE  SessionInv'
<1>1. InputsOK'
  BY EntrypointsAssumption DEF SessionInv, TypeOK, InputsOK, CheckManifest
<1>2. ProgressOK'
  BY EntrypointsAssumption DEF SessionInv, TypeOK, ProgressOK, Phases, Exits, CheckManifest
<1>3. TimesOK'
  BY EntrypointsAssumption DEF SessionInv, TypeOK, TimesOK, CheckManifest
<1>4. Flow'
  BY EntrypointsAssumption DEF SessionInv, TypeOK, InputsOK, Flow, CheckManifest
<1>5. Dated'
  BY EntrypointsAssumption
    DEF SessionInv, TypeOK, TimesOK, Dated, DatedBefore, CheckManifest
<1>6. ExitHonest' /\ ConsentFirst'
  BY DEF SessionInv, Flow, Promises, ExitHonest, ConsentFirst, CheckManifest
<1>7. OnlyValidConfigs'
  BY DEF SessionInv, Flow, Promises, OnlyValidConfigs, CheckManifest
<1>8. OverrideDecides'
  BY DEF SessionInv, Flow, Promises, OverrideDecides, CheckManifest
<1>9. BackupsRestorable'
  <2>1. CASE UNCHANGED failed_at
    BY <2>1 DEF SessionInv, Flow, CheckManifest, BackupsRestorable
  <2>2. CASE latest = None
    BY <2>2 DEF CheckManifest, BackupsRestorable
  <2>3. CASE latest # None /\ ~ValidManifest(latest.manifest, config, now)
    <3>1. latest \in Stored /\ now \in Int /\ skew \in Int
      BY <2>3, EntrypointsAssumption DEF SessionInv, TypeOK, TimesOK
    <3>2. config \in Configuration
      BY ConfigKnown DEF CheckManifest
    <3> QED
      BY <2>3, <3>1, <3>2, ManifestRefusals
        DEF SessionInv, Dated, CheckManifest, BackupsRestorable
  <2> QED
    BY <2>1, <2>2, <2>3 DEF CheckManifest
<1>10. RpoHonest'
  <2>1. CASE accepted' # None
    <3>1. /\ accepted' \in Stored /\ declared' \in Int
          /\ skew \in Int /\ skew' = skew
      <4>1. accepted' \in Stored
        BY <1>3, <2>1 DEF TimesOK
      <4>2. declared' \in 0 .. MaxTime /\ skew \in Skews /\ skew' = skew
        BY <1>3 DEF SessionInv, TypeOK, TimesOK, CheckManifest
      <4> QED
        BY <4>1, <4>2, EntrypointsAssumption
    <3>2. /\ accepted'.manifest.created \in Int /\ accepted'.snapshot \in Int
          /\ accepted'.manifest.created <= accepted'.snapshot + skew
      <4>1. accepted'.manifest.created \in Int /\ accepted'.snapshot \in Int
        BY <3>1, EntrypointsAssumption DEF Stored, ManifestRecord
      <4> QED
        BY <1>5, <2>1, <3>1, <4>1 DEF Dated, DatedBefore
    <3> QED
      BY <3>1, <3>2, AgeHonest DEF RpoHonest, Age
  <2> QED
    BY <2>1 DEF RpoHonest
<1>11. LateRefusalsKnown'
  BY DEF SessionInv, Flow, Promises, LateRefusalsKnown, CheckManifest
<1> QED
  BY <1>1, <1>2, <1>3, <1>4, <1>5, <1>6, <1>7, <1>8, <1>9, <1>10, <1>11
    DEF SessionInv, TypeOK, Promises

LEMMA RestoreKeeps ==
  ASSUME SessionInv, Restore
  PROVE  SessionInv'
<1>1. InputsOK'
  BY EntrypointsAssumption DEF SessionInv, TypeOK, InputsOK, Restore
<1>2. ProgressOK'
  BY EntrypointsAssumption DEF SessionInv, TypeOK, ProgressOK, Phases, Exits, Restore
<1>3. TimesOK'
  BY EntrypointsAssumption DEF SessionInv, TypeOK, TimesOK, Restore
<1>4. Flow'
  BY EntrypointsAssumption DEF SessionInv, TypeOK, InputsOK, Flow, Restore
<1>5. Dated'
  BY EntrypointsAssumption DEF SessionInv, TypeOK, TimesOK, Dated, DatedBefore, Restore
<1>6. ExitHonest' /\ ConsentFirst'
  BY DEF SessionInv, Flow, Promises, ExitHonest, ConsentFirst, Restore
<1>7. OnlyValidConfigs'
  BY DEF SessionInv, Flow, Promises, OnlyValidConfigs, Restore
<1>8. OverrideDecides'
  BY DEF SessionInv, Flow, Promises, OverrideDecides, Restore
<1>9. BackupsRestorable'
  BY DEF SessionInv, Flow, Promises, BackupsRestorable, Restore
<1>10. RpoHonest'
  BY DEF SessionInv, TypeOK, InputsOK, TimesOK, Flow, Promises, RpoHonest, Age, Restore
<1>11. LateRefusalsKnown'
  BY DEF SessionInv, Flow, Promises, LateRefusalsKnown, Restore
<1> QED
  BY <1>1, <1>2, <1>3, <1>4, <1>5, <1>6, <1>7, <1>8, <1>9, <1>10, <1>11
    DEF SessionInv, TypeOK, Promises

LEMMA ReportKeeps ==
  ASSUME SessionInv, Report
  PROVE  SessionInv'
<1>1. InputsOK'
  BY EntrypointsAssumption DEF SessionInv, TypeOK, InputsOK, Report
<1>2. ProgressOK'
  BY EntrypointsAssumption DEF SessionInv, TypeOK, ProgressOK, Phases, Exits, Report
<1>3. TimesOK'
  BY EntrypointsAssumption DEF SessionInv, TypeOK, TimesOK, Report
<1>4. Flow'
  BY EntrypointsAssumption DEF SessionInv, TypeOK, InputsOK, Flow, Report
<1>5. Dated'
  BY EntrypointsAssumption DEF SessionInv, TypeOK, TimesOK, Dated, DatedBefore, Report
<1>6. ExitHonest' /\ ConsentFirst'
  BY DEF SessionInv, Flow, Promises, ExitHonest, ConsentFirst, Report
<1>7. OnlyValidConfigs'
  BY DEF SessionInv, Flow, Promises, OnlyValidConfigs, Report
<1>8. OverrideDecides'
  BY DEF SessionInv, Flow, Promises, OverrideDecides, Report
<1>9. BackupsRestorable'
  BY DEF SessionInv, Flow, Promises, BackupsRestorable, Report
<1>10. RpoHonest'
  BY DEF SessionInv, TypeOK, InputsOK, TimesOK, Flow, Promises, RpoHonest, Age, Report
<1>11. LateRefusalsKnown'
  BY DEF SessionInv, Flow, Promises, LateRefusalsKnown, Report
<1> QED
  BY <1>1, <1>2, <1>3, <1>4, <1>5, <1>6, <1>7, <1>8, <1>9, <1>10, <1>11
    DEF SessionInv, TypeOK, Promises

LEMMA ConstructBackupKeeps ==
  ASSUME SessionInv, ConstructBackup
  PROVE  SessionInv'
<1>1. InputsOK'
  BY EntrypointsAssumption DEF SessionInv, TypeOK, InputsOK, ConstructBackup
<1>2. ProgressOK'
  BY EntrypointsAssumption
    DEF SessionInv, TypeOK, ProgressOK, Phases, Exits, ConstructBackup
<1>3. TimesOK'
  BY EntrypointsAssumption DEF SessionInv, TypeOK, TimesOK, ConstructBackup
<1>4. Flow'
  BY EntrypointsAssumption DEF SessionInv, TypeOK, InputsOK, Flow, ConstructBackup
<1>5. Dated'
  BY EntrypointsAssumption
    DEF SessionInv, TypeOK, TimesOK, Dated, DatedBefore, ConstructBackup
<1>6. ExitHonest' /\ ConsentFirst'
  BY DEF SessionInv, Flow, Promises, ExitHonest, ConsentFirst, ConstructBackup
<1>7. OnlyValidConfigs'
  BY DEF SessionInv, Flow, Promises, OnlyValidConfigs, ConstructBackup
<1>8. OverrideDecides'
  BY DEF SessionInv, Flow, Promises, OverrideDecides, ConstructBackup
<1>9. BackupsRestorable'
  BY DEF SessionInv, Flow, Promises, BackupsRestorable, ConstructBackup
<1>10. RpoHonest'
  BY DEF SessionInv, TypeOK, InputsOK, TimesOK, Flow, Promises, RpoHonest, Age,
         ConstructBackup
<1>11. LateRefusalsKnown'
  <2>1. /\ config \in Configuration /\ SchemaAccepts(config) /\ run_id \in RunIds
        /\ tsm_variable' \in Executables
    BY <1>1, ConfigKnown DEF SessionInv, TypeOK, InputsOK, ConstructBackup
  <2>2. UNCHANGED given /\ (entry = "failover" \/ via = "orchestrator" => run_id # "invalid")
    BY DEF SessionInv, Flow, ManagerTakes, ConstructBackup
  <2>3. CASE failed_at' = "constructor"
    <3>1. ~(LoggerKeyword /\ BackupManagerAccepts(config, run_id, tsm_variable'))
      BY <2>3 DEF SessionInv, Flow, ConstructBackup
    <3>2. entry = "backup" /\ via \in {"command line", "orchestrator"}
      BY DEF SessionInv, TypeOK, InputsOK, ConstructBackup
    <3> QED
      BY <2>1, <2>2, <3>1, <3>2, ConstructorRefusals DEF LateRefusalsKnown
  <2> QED
    BY <2>3 DEF LateRefusalsKnown
<1> QED
  BY <1>1, <1>2, <1>3, <1>4, <1>5, <1>6, <1>7, <1>8, <1>9, <1>10, <1>11
    DEF SessionInv, TypeOK, Promises

LEMMA TakeTimestampKeeps ==
  ASSUME SessionInv, TakeTimestamp
  PROVE  SessionInv'
<1>1. InputsOK'
  BY EntrypointsAssumption DEF SessionInv, TypeOK, InputsOK, TakeTimestamp
<1>2. ProgressOK'
  BY EntrypointsAssumption DEF SessionInv, TypeOK, ProgressOK, Phases, Exits, TakeTimestamp
<1>3. TimesOK'
  BY EntrypointsAssumption DEF SessionInv, TypeOK, TimesOK, TakeTimestamp
<1>4. Flow'
  BY EntrypointsAssumption DEF SessionInv, TypeOK, InputsOK, Flow, TakeTimestamp
<1>5. Dated'
  BY EntrypointsAssumption
    DEF SessionInv, TypeOK, TimesOK, Dated, DatedBefore, Stored, ManifestRecord,
        TakeTimestamp
<1>6. ExitHonest' /\ ConsentFirst'
  BY DEF SessionInv, Flow, Promises, ExitHonest, ConsentFirst, TakeTimestamp
<1>7. OnlyValidConfigs'
  BY DEF SessionInv, Flow, Promises, OnlyValidConfigs, TakeTimestamp
<1>8. OverrideDecides'
  BY DEF SessionInv, Flow, Promises, OverrideDecides, TakeTimestamp
<1>9. BackupsRestorable'
  BY DEF SessionInv, Flow, Promises, BackupsRestorable, TakeTimestamp
<1>10. RpoHonest'
  BY DEF SessionInv, TypeOK, InputsOK, TimesOK, Flow, Promises, RpoHonest, Age,
         TakeTimestamp
<1>11. LateRefusalsKnown'
  BY DEF SessionInv, Flow, Promises, LateRefusalsKnown, TakeTimestamp
<1> QED
  BY <1>1, <1>2, <1>3, <1>4, <1>5, <1>6, <1>7, <1>8, <1>9, <1>10, <1>11
    DEF SessionInv, TypeOK, Promises

LEMMA TakeSnapshotKeeps ==
  ASSUME SessionInv, TakeSnapshot
  PROVE  SessionInv'
<1>1. InputsOK'
  BY EntrypointsAssumption DEF SessionInv, TypeOK, InputsOK, TakeSnapshot
<1>2. ProgressOK'
  BY EntrypointsAssumption DEF SessionInv, TypeOK, ProgressOK, Phases, Exits, TakeSnapshot
<1>3. TimesOK'
  BY EntrypointsAssumption DEF SessionInv, TypeOK, TimesOK, TakeSnapshot
<1>4. Flow'
  BY EntrypointsAssumption DEF SessionInv, TypeOK, InputsOK, Flow, TakeSnapshot
<1>5. Dated'
  BY EntrypointsAssumption
    DEF SessionInv, TypeOK, TimesOK, Dated, DatedBefore, Stored, ManifestRecord,
        TakeSnapshot
<1>6. ExitHonest' /\ ConsentFirst'
  BY DEF SessionInv, Flow, Promises, ExitHonest, ConsentFirst, TakeSnapshot
<1>7. OnlyValidConfigs'
  BY DEF SessionInv, Flow, Promises, OnlyValidConfigs, TakeSnapshot
<1>8. OverrideDecides'
  BY DEF SessionInv, Flow, Promises, OverrideDecides, TakeSnapshot
<1>9. BackupsRestorable'
  BY DEF SessionInv, Flow, Promises, BackupsRestorable, TakeSnapshot
<1>10. RpoHonest'
  BY DEF SessionInv, TypeOK, InputsOK, TimesOK, Flow, Promises, RpoHonest, Age, TakeSnapshot
<1>11. LateRefusalsKnown'
  BY DEF SessionInv, Flow, Promises, LateRefusalsKnown, TakeSnapshot
<1> QED
  BY <1>1, <1>2, <1>3, <1>4, <1>5, <1>6, <1>7, <1>8, <1>9, <1>10, <1>11
    DEF SessionInv, TypeOK, Promises

LEMMA PublishKeeps ==
  ASSUME SessionInv, Publish
  PROVE  SessionInv'
<1>1. InputsOK'
  BY EntrypointsAssumption DEF SessionInv, TypeOK, InputsOK, Publish
<1>2. ProgressOK'
  BY EntrypointsAssumption DEF SessionInv, TypeOK, ProgressOK, Phases, Exits, Publish
<1>3. TimesOK'
  <2>1. config \in Configuration /\ created \in Int /\ snapshot \in 0 .. MaxTime
    BY ConfigKnown DEF SessionInv, TypeOK, TimesOK, Publish
  <2>2. CreateManifest(config, created) \in ManifestRecord
    BY <2>1 DEF CreateManifest, ManifestRecord, Configuration
  <2>3. Manifest(TRUE) \in Stored /\ Manifest(FALSE) \in Stored
    BY <2>1, <2>2 DEF Manifest, Stored
  <2>4. latest' \in Stored \cup {None}
    BY <2>3 DEF SessionInv, TypeOK, TimesOK, Publish
  <2> QED
    BY <2>4 DEF SessionInv, TypeOK, TimesOK, Publish
<1>4. Flow'
  BY EntrypointsAssumption DEF SessionInv, TypeOK, InputsOK, Flow, Publish
<1>5. Dated'
  <2>1. /\ \/ latest' = latest
           \/ latest'.manifest.created = created /\ latest'.snapshot = snapshot
        /\ phase' = "idle" /\ now' = now /\ skew' = skew /\ accepted' = accepted
    <3>1. latest' \in {latest, Manifest(TRUE), Manifest(FALSE)}
      BY DEF Publish
    <3>2. \A v \in BOOLEAN :
            Manifest(v).manifest.created = created /\ Manifest(v).snapshot = snapshot
      BY DEF Manifest, CreateManifest
    <3> QED
      BY <3>1, <3>2 DEF Publish
  <2>2. created <= snapshot + skew /\ snapshot <= now
    BY DEF SessionInv, Dated, Publish
  <2>3. latest' # None => DatedBefore(latest)' /\ latest'.snapshot <= now'
    BY <2>1, <2>2 DEF SessionInv, Dated, DatedBefore
  <2> QED
    BY <2>1, <2>3 DEF SessionInv, Dated, DatedBefore
<1>6. ExitHonest' /\ ConsentFirst'
  <2>1. CASE result' = "SUCCESS"
    <3>1. latest' = Manifest(TRUE) /\ snapshot' = snapshot /\ exit' \in {"0", "returned"}
      BY <2>1 DEF Publish
    <3>2. latest'.verified /\ latest'.snapshot = snapshot'
      BY <3>1 DEF Manifest
    <3> QED
      BY <2>1, <3>1, <3>2 DEF SessionInv, Promises, ExitHonest, ConsentFirst, Publish
  <2>2. CASE result' # "SUCCESS"
    BY <2>2 DEF SessionInv, Promises, ExitHonest, ConsentFirst, Publish
  <2> QED
    BY <2>1, <2>2
<1>7. OnlyValidConfigs'
  BY DEF SessionInv, Flow, Promises, OnlyValidConfigs, Publish
<1>8. OverrideDecides'
  BY DEF SessionInv, Flow, Promises, OverrideDecides, Publish
<1>9. BackupsRestorable'
  BY DEF SessionInv, Flow, Promises, BackupsRestorable, Publish
<1>10. RpoHonest'
  BY DEF SessionInv, TypeOK, InputsOK, TimesOK, Flow, Promises, RpoHonest, Age, Publish
<1>11. LateRefusalsKnown'
  BY DEF SessionInv, Flow, Promises, LateRefusalsKnown, Publish
<1> QED
  BY <1>1, <1>2, <1>3, <1>4, <1>5, <1>6, <1>7, <1>8, <1>9, <1>10, <1>11
    DEF SessionInv, TypeOK, Promises

LEMMA InterruptKeeps ==
  ASSUME SessionInv, Interrupt
  PROVE  SessionInv'
<1>1. InputsOK'
  BY EntrypointsAssumption DEF SessionInv, TypeOK, InputsOK, Interrupt
<1>2. ProgressOK'
  BY EntrypointsAssumption DEF SessionInv, TypeOK, ProgressOK, Phases, Exits, Interrupt
<1>3. TimesOK'
  BY EntrypointsAssumption DEF SessionInv, TypeOK, TimesOK, Interrupt
<1>4. Flow'
  BY EntrypointsAssumption DEF SessionInv, TypeOK, InputsOK, Flow, Interrupt
<1>5. Dated'
  BY EntrypointsAssumption DEF SessionInv, TypeOK, TimesOK, Dated, DatedBefore, Interrupt
<1>6. ExitHonest' /\ ConsentFirst'
  BY DEF SessionInv, Flow, Promises, ExitHonest, ConsentFirst, Interrupt
<1>7. OnlyValidConfigs'
  BY DEF SessionInv, Flow, Promises, OnlyValidConfigs, Interrupt
<1>8. OverrideDecides'
  BY DEF SessionInv, Flow, Promises, OverrideDecides, Interrupt
<1>9. BackupsRestorable'
  BY DEF SessionInv, Flow, Promises, BackupsRestorable, Interrupt
<1>10. RpoHonest'
  BY DEF SessionInv, TypeOK, InputsOK, TimesOK, Flow, Promises, RpoHonest, Age, Interrupt
<1>11. LateRefusalsKnown'
  BY DEF SessionInv, Flow, Promises, LateRefusalsKnown, Interrupt
<1> QED
  BY <1>1, <1>2, <1>3, <1>4, <1>5, <1>6, <1>7, <1>8, <1>9, <1>10, <1>11
    DEF SessionInv, TypeOK, Promises

(* A first session, and no step at all. *)
LEMMA InitEstablishes ==
  ASSUME Init
  PROVE  SessionInv
<1>1. InputsOK
  BY EntrypointsAssumption DEF Init, InputsOK, Reasons, AuthCodes, RunIds, Executables
<1>2. ProgressOK
  BY DEF Init, ProgressOK, Phases, Exits
<1>3. TimesOK
  BY StartInRange DEF Init, TimesOK
<1>4. Flow /\ Dated
  BY DEF Init, Flow, Dated
<1>5. Promises
  BY DEF Init, Promises, ExitHonest, ConsentFirst, OnlyValidConfigs, OverrideDecides,
         BackupsRestorable, RpoHonest, LateRefusalsKnown
<1> QED
  BY <1>1, <1>2, <1>3, <1>4, <1>5 DEF SessionInv, TypeOK

LEMMA StutterKeeps ==
  ASSUME SessionInv, UNCHANGED vars
  PROVE  SessionInv'
<1> USE DEF vars, clocks, given, inputs, failover, backup
<1>1. InputsOK'
  BY DEF SessionInv, TypeOK, InputsOK
<1>2. ProgressOK'
  BY DEF SessionInv, TypeOK, ProgressOK
<1>3. TimesOK'
  BY DEF SessionInv, TypeOK, TimesOK
<1>4. Flow' /\ Dated'
  BY DEF SessionInv, Flow, Dated, DatedBefore
<1>5. ExitHonest' /\ ConsentFirst' /\ OnlyValidConfigs'
  BY DEF SessionInv, Promises, ExitHonest, ConsentFirst, OnlyValidConfigs
<1>6. OverrideDecides' /\ BackupsRestorable'
  BY DEF SessionInv, Promises, OverrideDecides, BackupsRestorable
<1>7. RpoHonest'
  BY DEF SessionInv, Promises, RpoHonest, Age
<1>8. LateRefusalsKnown'
  BY DEF SessionInv, Promises, LateRefusalsKnown
<1> QED
  BY <1>1, <1>2, <1>3, <1>4, <1>5, <1>6, <1>7, <1>8 DEF SessionInv, TypeOK, Promises

-----------------------------------------------------------------------------
(* Everything that EntrypointsSafety states of sessions holds in every state,
   with any set of configurations, however far the clocks are apart. *)
THEOREM SessionsSafe == Spec => []SessionInv
<1>1. Init => SessionInv
  BY InitEstablishes
<1>2. SessionInv /\ [Next]_vars => SessionInv'
  BY StutterKeeps,
     TickKeeps, SwitchoverKeeps, ConfirmFailoverKeeps, GetEmergencyAuthCodeKeeps,
     BackupCommandKeeps, LoadConfigKeeps, ReloadConfigKeeps, RunRecoveryKeeps,
     RunBackupKeeps, ConstructRecoveryKeeps, FenceKeeps, CheckManifestKeeps,
     RestoreKeeps, ReportKeeps, ConstructBackupKeeps, TakeTimestampKeeps,
     TakeSnapshotKeeps, PublishKeeps, InterruptKeeps
    DEF Next
<1> QED
  BY <1>1, <1>2, PTL DEF Spec

(* Exit code 0 means success or a failover the operator declined. *)
THEOREM ExitCodesHonest == Spec => []ExitHonest
<1>1. SessionInv => ExitHonest
  BY DEF SessionInv, Promises
<1> QED
  BY <1>1, SessionsSafe, PTL

(* An interactive failover reads nothing and builds nothing before consent. *)
THEOREM NothingBeforeConsent == Spec => []ConsentFirst
<1>1. SessionInv => ConsentFirst
  BY DEF SessionInv, Promises
<1> QED
  BY <1>1, SessionsSafe, PTL

(* No manager ever sees a configuration the schema refuses. *)
THEOREM ConfigsValid == Spec => []OnlyValidConfigs
<1>1. SessionInv => OnlyValidConfigs
  BY DEF SessionInv, Promises
<1> QED
  BY <1>1, SessionsSafe, PTL

(* A supplied emergency code decides alone. *)
THEOREM CodesDecide == Spec => []OverrideDecides
<1>1. SessionInv => OverrideDecides
  BY DEF SessionInv, Promises
<1> QED
  BY <1>1, SessionsSafe, PTL

(* A failover refuses the manifest of a backup for the listed reasons only. *)
THEOREM RefusedManifestsExplained == Spec => []BackupsRestorable
<1>1. SessionInv => BackupsRestorable
  BY DEF SessionInv, Promises
<1> QED
  BY <1>1, SessionsSafe, PTL

(* The reported age understates the loss by production's clock at most. *)
THEOREM ReportedAgeHonest == Spec => []RpoHonest
<1>1. SessionInv => RpoHonest
  BY DEF SessionInv, Promises
<1> QED
  BY <1>1, SessionsSafe, PTL

(* What passes the schema is refused later for the listed reasons only. *)
THEOREM LateRefusals == Spec => []LateRefusalsKnown
<1>1. SessionInv => LateRefusalsKnown
  BY DEF SessionInv, Promises
<1> QED
  BY <1>1, SessionsSafe, PTL
=============================================================================

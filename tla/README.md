# Tableau Server DR: formal model

A TLA+ model of the disaster-recovery framework in `src/`: the failover state
machine, the backup pipeline, one download, the command lines and the
orchestrator with the configuration they load, and what all of them use of Azure
Blob Storage, TSM, the production fencer and the health checker. TLC checks
small instances; TLAPS proves the safety invariants that matter most for every
instance.

## 1. The system

| Part | State it keeps | Operations | Talks to |
| --- | --- | --- | --- |
| `RecoveryManager` | current state, completed steps, failed step, fencing result, manifest, health result, work directory | `execute_failover`: eleven stages | fencer, TSM, Azure, Key Vault, health checker, file system |
| `BackupManager` | run directory, artifact metadata, `remote_verified`, cleanup status | `execute_backup_pipeline`: six stages | TSM, Azure, file system |
| `AzureManager` | none (a client) | upload, properties, list, download, verify | Azure Blob Storage |
| `ProductionFencer` | none | `evaluate_fencing` | configuration only |
| `HealthChecker` | none | `run_all_checks` | TSM, the gateway |
| `TSMConnector` | none | `run` and thin wrappers | the `tsm` client process |
| `Config` | the validated sections | `validate_schema` | a YAML file |
| `DROrchestrator` | the `Config` in use | `run_recovery`, `run_backup`, `reload_config` | the managers |
| `execute_switchover.py`, `execute_backup.py` | one session: consent, code, exit code | argument checks, prompts, one run | operator or scheduler, the managers |
| `security.py`, `validation.py` | none | hashing, path, disk and version checks | file system |
| `logger.py`, `exceptions.py` | none | redaction, error classes | |

Each manager is a sequential program, and nothing in the code keeps two of them
apart. They share three things: the DR server (through TSM), the blob container
and the work directories. Production and DR host share nothing but the
container: each has its own configuration file and its own clock. What is hard:

* **failure and restart**: each of some twenty calls of a failover can fail; the
  server then stays stopped or half restored, and the operator starts another run;
* **interrupts and kills**: `KeyboardInterrupt` skips the handler but not the
  `finally` block, a kill skips both;
* **commands that outlive their client**: `subprocess.run` kills the `tsm`
  client on a timeout, while TSM itself may go on;
* **checks that are not atomic**: size, bytes and metadata of a blob are read by
  three requests, a file is validated long before it is restored, fencing is
  decided once;
* **overlap**: two failovers, two pipelines, a pipeline next to a failover;
* **agreement between hosts**: what one configuration, version string and clock
  wrote, another configuration, library and clock must accept;
* **rules in two places**: the schema and the constructors check the same values
  (host names, retries, the executable) by different rules, the constructors
  after the disaster was declared.

What makes the parts correct:

* recovery: no change of the server before all gates; only verified content
  reaches it; never a mixture in service; SUCCESS means the manifest's backup is
  served; an accurate report of where a run failed; secrets removed; directories
  never shared; every run ends;
* download: never more bytes than allowed, only whole blobs returned, nothing
  left of a refused one, no file of another program overwritten;
* backup: no manifest without its artifacts; SUCCESS only for a complete and
  intact backup; staging deleted only after verification; failures marked;
  every pipeline ends;
* both together: a failover takes the freshest good backup, and the state of the
  pipeline that made it (still verifying, cleaning up, dead) is never a reason to
  refuse it;
* sessions: exit code 0 can be believed; nothing happens before consent; only
  valid configurations are used; an override decides alone; the reasons for which
  a manifest or a configuration is refused late are known; the reported age of
  the backup is honest.

## 2. Modules

| Module | Models | Remarks |
| --- | --- | --- |
| `BlobStorage` | `azure_manager.py` | payloads are records (backup, part, damage); a payload stands for its own SHA-256; only equality of sizes is kept |
| `TableauServer` | the DR server behind TSM | external: effects of the commands as the code relies on them, and what a failed command may leave |
| `ProductionFencer` | `fencing.py` | a pure decision |
| `HealthChecker` | `health_check.py` | `OpenAcceptsContext` tells whether the opener takes the keyword `_check_gateway` passes |
| `RecoveryManager` | `recovery_manager.py` | one action per call that can fail or be interleaved, plus interrupt, kill, late commands, store faults |
| `RecoverySafety` | | type invariant, invariants, action and liveness properties |
| `RecoveryPromise`, `RecoveryRefinement` | | abstract specification of a failover (verdict, proved backup, held backup, whole or not, serving or not) and the mapping, `KeepsPromise` |
| `RecoveryClaims` | | a statement of the source the recovery does not keep |
| `BlobDownload` | `_download_blob_to_file` | chunk by chunk, with sizes as numbers; properties included |
| `SplitBrain` | recovery next to production | adds one variable and the action that isolates production |
| `BackupManager`, `BackupSafety` | `backup_manager.py` | pipelines side by side |
| `BackupPromise`, `BackupRefinement` | | abstract specification of a pipeline (report, local copy, listed, remote copy) and the mapping, `KeepsBackupPromise` |
| `DRSystem` | a failover and pipelines on one container | `RecoveryManager` and `BackupManager` composed; properties of the pair |
| `ConfigRules` | `config.py` and the constructors | predicates over one configuration record |
| `ManifestRules` | the manifest as a contract, RPO | what one host writes, what the other accepts |
| `Entrypoints`, `EntrypointsSafety` | `execute_switchover.py`, `execute_backup.py`, `dr_orchestrator.py` | sessions one after another |
| `RecoveryManagerProofs`, `RecoverySafetyProofs`, `RecoveryStageProofs`, `RecoveryRetryProofs` | | TLAPS proofs about failovers, each module on top of the one before |
| `BackupProofs`, `DRSystemProofs`, `BlobDownloadProofs`, `EntrypointsProofs` | | TLAPS proofs about pipelines, the pair, one download, the sessions |
| `MCRecovery`, `MCSplitBrain`, `MCBackup`, `MCSystem`, `MCDownload`, `MCEntrypoints` | | values for the model checker |

A definition that ends in `_Slip` is a plausible mistake in the definition that
follows it. It is used by no action; put in place of the correct one it must be
caught by the property `PROJECT.json` pairs it with.

### How RecoveryManager corresponds to the code

`step[r]` is the next call of run `r`. The stages of `execute_failover` are
`StageOrder`; `Advance` is the end of one `_execute_stage` and the beginning of
the next, so `failed_step` always names the stage that was entered last, as in
the code. `Fail` is the handler of `execute_failover`. `Raise` is an exception:
inside the `try` of the security stage it first goes to step `cleanup`, the
`finally` block; `raised` remembers what waits behind it. The stages and their
actions:

| Stage | Actions |
| --- | --- |
| (start) | `Launch` with `_prepare_work_directory` |
| FENCING_PENDING, PRODUCTION_FENCED | `Fence`, `ConfirmFencing` |
| DR_PREFLIGHT_PASSED | `Preflight` |
| MANIFEST_VALIDATED | `ResolveManifest`, `AcquireManifest` |
| BACKUP_ARTIFACTS_VALIDATED | `CheckProperties`, `DownloadArtifact` or `DownloadBreaks`, `VerifyArtifact`, for each artifact |
| DR_STOPPED, REPOSITORY_RESTORED, SETTINGS_IMPORTED | `StopDR`, `RestoreRepository`, `ImportSettings`, `ArtifactMissing` |
| SECURITY_REBOUND | `ReadSecrets`, `WriteCertificate`, `WriteKey`, `EnableExternalSsl`, `ApplyPendingChanges`, `CleanUpSecrets` |
| DR_STARTED, HEALTH_VALIDATED | `StartDR`, `ValidateHealth` |

The environment: `IoFails` and `TsmFails` (any call fails), `Interrupt`, `Kill`,
`JobEnds` (a command whose client has gone comes to its end), `PublishBackup`,
`DamageBlob`, `LoseWorkFile`. `Faults` chooses which of them occur; the comments
at the definitions say what each kind means.

Abstractions. A manifest is a payload: well formed or truncated; a change that
keeps it well formed may or may not be accepted, because no digest of the
manifest is checked. An intact one is refused if host name, identity store or
version do not fit, or if it was created ahead of the DR host's clock. The exact
rules are `ManifestRules!ValidManifest`; here `Disputed` is the set of backups
they might refuse, and for a backup in it either answer is possible at any time
(a clock ahead is a reason today and none tomorrow). Backups are numbered by their start time, which is what
their names sort by. The digest comparison is equality of payloads. RTO, timings
and the wording of messages are left out; the RPO is in `ManifestRules`. The
order of reads in one stage that no other process can see is folded into the
call it precedes. In the work directory files can be lost (`LoseWorkFile`) or
left torn by a failed download, but no other program changes their bytes: after
the digest check, `recovery_manager.py` restores the file by its path and looks
at nothing but its place and existence.

### How BlobDownload corresponds to the code

One call of `_download_blob_to_file`. `CheckProperties` is everything before the
stream is requested, the limit on `expected_size` included; `ReceiveChunk` is one
turn of the loop (`total_bytes` is raised and compared before the write);
`EndOfStream` is the comparison after it. `RefuseEarly` is a refusal before the
stream is requested, which leaves the destination alone. From there on every
refusal is `Refuse`, which deletes what is at the destination. That includes the
refusals of the request itself and of `open("xb")`. `FileAppears` is another
program that puts a file there between the look (line 1275) and the creation
(line 1337): `open` then fails, nothing is overwritten, and the handler at 1369
deletes a file the call did not make. `mine` says whether this call created the
file. An interrupt is caught by neither `except` clause and leaves what was
written.

### How BackupManager corresponds to the code

Pipelines are numbered in the order they are started. `prefix[p]` is
`run_dir_name`, which names both the staging directory and the blob prefix; with
fault kind `collision` a second pipeline may get the name of a running one (same
run id, same second). The loser fails at the directory and, like any failing
pipeline, writes its marker there, into the winner's directory. `Upload` and
`Verify` walk the two artifacts and then the manifest. `Uploads` lets the bytes
that arrive differ from the bytes that were hashed. `CleanUp` may fail half way
and the pipeline still succeeds. `ConnectorKeywords` are the keyword parameters
of `TSMConnector`.

`BackupPromise` sees of a pipeline its report, whether an intact copy is in its
directory, whether a recovery can find it, and whether an intact copy is in the
container. It says that the local copy is given up only for a remote one, that
what can be found never changes, and that SUCCESS needs a remote copy. With one
name for two pipelines the code does not keep it: uploads overwrite, so a
pipeline that is started after another one with its name has finished replaces a
verified backup file by file. `BackupPipelines` therefore has no collisions.

### How DRSystem corresponds to the code

`BackUp` is any step of the production server, `FailOver` any step of the DR
server; `blobs` belongs to both, everything else to one of them. `PublishBackup`,
by which `RecoveryManager` alone makes a backup appear, is replaced by the real
pipelines, which make it appear file by file.

### How Entrypoints corresponds to the code

One session at a time, from `phase = "idle"` back to it:

| Code | Actions |
| --- | --- |
| `execute_switchover.py`: `parse_args`, the three validators, `main` | `Switchover`, `ConfirmFailover`, `GetEmergencyAuthCode`, `LoadConfig` |
| `execute_backup.py`: `main` | `BackupCommand`, `LoadConfig` |
| `DROrchestrator` | `ReloadConfig` (also `__init__`), `RunRecovery`, `RunBackup` |
| the recovery manager | `ConstructRecovery`, `Fence`, `CheckManifest`, `Restore`, `Report` |
| the backup manager | `ConstructBackup`, `TakeTimestamp`, `TakeSnapshot`, `Publish` |
| the environment | `Tick`, `Interrupt`, and the file `LoadConfig` and `ReloadConfig` find |

`Fail` and `Interrupted` translate the `except` clauses of each entry point into
what its caller sees: an exit code for a command line, an exception for an
orchestrator. The managers are reduced to the decisions that depend on the
configuration, the operator or the clock; the rest of a failover is `Restore`,
which may fail, because `RecoveryManager` and `BackupManager` model it.
`latest` keeps with a manifest when its data was really taken, so that the
reported age can be compared with it. A configuration is a record of the values
some check tells apart (`ConfigRules`); `OneDeviation` varies each of them.
`run_id` is what the manager is given (a switchover makes its own, a backup
command takes `--run-id`, an orchestrator lets fewer through than its managers
would take); `tsm_variable` is `TSM_EXECUTABLE` when the manager is constructed,
which counts only if the configuration names no executable.

Each constructor has a rule for host names. The schema only wants the two names
to differ. `ProductionFencer._get_hostname` refuses either name if it is too long
or holds anything but letters, digits and `.`, `_`, `:`, `-` (the class "url").
`HealthChecker` refuses a port or an underscore as well ("port"), and looks at
the DR host only. `BackupManager` has no such rule, so backups succeed for
months with a production name that every failover's constructor refuses
(`LateRefusalsKnown`).

## 3. Runs

Every passing run has deadlock checking off because runs, pipelines and sessions
end by themselves and then nothing has to happen.

| Run | Instance | Shows |
| --- | --- | --- |
| `RecoverySerial` | two runs one after the other, two backups (the second appears at any time), failing calls and commands, interrupts, kills; fairness, no symmetry | `TypeOK`, `ReportAccurate`, `NeverServesMixture`, `SecretsConfined`, `SuccessDelivered`, `KeepsPromise`, `RunsEnd` |
| `RecoveryStore` | one run, all configurations, two blobs damaged or deleted at any time, lost work files, failing deletions, late commands | `RestoredContentVerified` |
| `RecoveryOverlap` | two runs at the same time, two backups, late commands | `WorkspaceExclusive`, `DestructionGated` |
| `BackupPipelines` | two pipelines side by side, all faults but name collisions and failing markers, content check on | `TypeOK`, `ManifestNeverDangles`, `SuccessIsComplete`, `FailuresMarked`, `StagingOutlivesUpload`, `KeepsBackupPromise` |
| `BackupEnds` | two pipelines that may get one name, failing calls and markers, kills, fairness | `StagingNotShared`, `PipelinesEnd` |
| `SystemFailover` | two pipelines that may be killed or upload wrong bytes, and a failover at any time, content check off on the DR side, one backup disputed | `RefusalsJustified`, `FreshestListed` |
| `Downloads` | every limit check with sizes 0 to 7 around a limit of 6, chunks of 0, 1, 2 and 5, failing requests, interrupts, a file that is there or appears | `WithinLimits`, `ReturnedIsWhole`, `RefusedLeavesNothing`, `NeverOverwrites` |
| `Operations` | any number of sessions, every configuration that differs from a good one in one value, valid and invalid run ids, `TSM_EXECUTABLE` unset or wrong, production's clock behind, equal or two ahead of a tolerance of one, three instants | `ExitHonest`, `ConsentFirst`, `OnlyValidConfigs`, `OverrideDecides`, `BackupsRestorable`, `RpoHonest`, `LateRefusalsKnown` |

Bounds, and why they are enough for the questions asked. Two runs: a failed run
and its retry, or an overlap; directories are per run and the server keeps only
the last content, so a third run meets a server state the second can already
meet. Two backups: the fewest from which a mixture can be made. `MaxBlobFaults =
2`: one fault for each artifact, or two for one blob, between the three requests
that look at it. Two pipelines: a pipeline and its neighbour. `Downloads`: a
chunk can meet a limit exactly, fall one short and jump over it. `Disputed` is
both backups in `RecoverySerial`, the older of the two in the other passing runs,
so that a disputed and an undisputed backup meet. `Operations`: an empty
`TSM_EXECUTABLE` is refused like one that leads nowhere, and a good one is taken
like none; sessions are unbounded in number and only the newest manifest and the
orchestrator's configuration survive one; three instants put a tick before,
between and after the two ends of a backup's age. For the properties listed under
"Proofs" the proofs remove the bounds.

`NeverServesMixture`, `SuccessDelivered` and `KeepsPromise` are claimed for runs
that do not overlap and without late commands: without these two conditions
they are false (two overlapping failovers can leave the repository of one and the
settings of the other, and the later one reports SUCCESS).

Except in `ClaimGateway`, recovery runs use `OpenAcceptsContext = TRUE`. With
the standard library the gateway check always fails (first finding), and then no
run gets past HEALTH_VALIDATED; the runs check the workflow that is meant.
Likewise the runs with backups use `AnyKeyword` and `LoggerKeyword = TRUE`,
because no pipeline can be constructed otherwise (second finding).

**Fairness.** Weak fairness of each run's (pipeline's) own steps, as one action:
every TSM command has a timeout, Azure requests a bounded number of retries, the
HTTP request a timeout, so a process that runs takes its next step. Nothing is
assumed of the operator, of TSM finishing a late command, or of faults. Sessions
and downloads have no liveness property: a prompt may wait for ever, and a
stream's timeouts are the SDK's.

### Findings

| Run | Statement | What the code does |
| --- | --- | --- |
| `ClaimGateway` | `health_check.py:66`: 2xx-4xx is reachable | the opener refuses `context=`, the catch-all handler turns that into "unreachable"; no recovery succeeds |
| `ClaimBackupStarts` | `test_backup_manager.py:59`: SUCCESS | the constructor passes `logger=`, the parameter is `logger_instance`; no pipeline starts |
| `ClaimReportLost` | `recovery_manager.py:87`: the structured result is returned | `run_recovery` takes `.value` of plain strings when a failover failed; its caller gets an `AttributeError` instead |
| `ClaimSplitBrain` | `README.md:140`: isolation is validated before restore | two flags or a code decide; production is not contacted |

Other differences between text and code that the models show but no run is
devoted to: `execute_switchover.py:58` speaks of the latest valid manifest while
only the last name is tried (`ResolveManifest`); `test_recovery_manager.py:56`
expects PRODUCTION_FENCED for a refusal that is reported as FENCING_PENDING
(`Fence`); `README.md:139` calls the state transitions isolated while overlapping
failovers interleave (`RecoveryOverlap` without the two conditions above); the
three checks that keep production and DR host apart compare names as written, so
"dr" and "dr." pass as two hosts (`ConfigRules`); `azure_manager.py:22` imports
`ExponentialRetry` from `azure.core.pipeline.policies`, where `azure-core` has a
`RetryPolicy` (a library question, outside the models).

## 4. Proofs

`tlapm` checks every leaf; nothing is assumed but the named assumptions on the
constants (`BackupsAssumption`, `NoneAssumption`, `OpenAssumption`,
`RecoveryAssumption`, `BackupAssumption`, `DownloadAssumption`,
`ToleranceAssumption`, `EntrypointsAssumption`, `StagesAssumption`), which say
that the parameters have the types the code gives them and that "no value" is not
a value, nor the name of a stage. A theorem that needs more states it. All safety
properties of the passing runs are proved; what they need, and what happens
without it:

| Hypothesis | Needed by | Why |
| --- | --- | --- |
| `Serial`: runs do not overlap, no late commands | `NoMixtureServed`, `SuccessIsDelivered`, `FailoverKeepsPromise` | a matter of operation, the code has no lock and cannot stop TSM; without it two failovers, or a failover and an old command, mix two backups |
| `"collision" \notin ...Faults` | everything about the contents of the container | a name holds a timestamp and the run id, which is random unless the caller gives one (`--run-id`, an orchestrator that runs two backups within a second); with one name uploads overwrite each other |
| `VerifyContent` | `SuccessComplete`, `PipelinesKeepPromise` | `backup.verify_remote_content_sha256`; otherwise wrong bytes with the right length pass |
| `"unlink" \notin Faults` | `SecretsStayConfined` (and `NoLeftovers` for downloads) | deleting is best effort in the code |
| `"marker" \notin Faults` | `WorkspacesExclusive`, `FailuresLeaveMarkers` | so is writing a marker |
| `ManifestArgs \subseteq {None}` | `FreshestIsListed`, `RefusalsAreJustified` | with `--manifest-blob` the operator chooses |
| `"io" \notin Faults` (DR side) | `RefusalsAreJustified` | a request or a file operation that fails is another reason to refuse; what the checks make of a manifest stays open (any `Disputed`), and the pipelines may fail in any way |

* `RecoveryManagerProofs`: `TypeOKHolds` (`Spec => []TypeOK`) from the inductive
  `TypeInv`. `TypeOK` alone is not inductive: a download types `files` only if
  the run has a directory and a manifest. `TypeInv` therefore adds `Equipped`:
  whatever the run is about to dereference is there. One lemma for each way a
  run moves on (`Advance`, `Goto`, `Fail`, `Gone`, `Raise`), one for each action.
* `RecoverySafetyProofs`, `OnlyVerifiedContentRestored`
  (`Spec => []RestoredContentVerified`), for any number of overlapping runs and
  all faults. The server alone says nothing about what will be restored, so
  `VerifiedInv` adds: directories are owned by one run and are empty when made
  (`OwnDirectories`, `CleanFiles`), the files of a run that is active or has a
  command in TSM are verified and in place (`CleanFiles`), and a run whose
  command outlived its client only cleans up (`LateCommands`), so a bad download
  can never meet a restore of the same run.
* `RecoverySafetyProofs`, `WorkspacesExclusive`
  (`"marker" \notin Faults` implies `Spec => []WorkspaceExclusive`), from
  `VerifiedInv` and `MarkersExact`. The condition is needed: writing a marker is
  best effort in the code.
* `RecoveryStageProofs`, `ReportsAccurate` (`Spec => []ReportAccurate`), for any
  number of overlapping runs and all faults. What a run has recorded says nothing
  of what it does next, so `StageInv` adds `Progress`: the record of a run is the
  one of the stage its next call belongs to (`StageOf`). `ControlMoves` lists the
  five ways the record changes; every action of a run is one of them
  (`StepMoves`, `EndsMove`), and the invariant is proved once for the five.
* `RecoveryStageProofs`, `DestructionIsGated` (`Spec => DestructionGated`), again
  for overlapping runs and all faults. `GatedInv` adds to `StageInv` what each run
  has `Validated`: fencing after the third stage, a manifest exactly from the
  fifth on, only files of that manifest in its directory, and all gates for a
  command that is still in TSM. The last conjunct is what makes a command safe
  whose client has gone: the run that issued it may have ended long ago.
* `RecoveryStageProofs`, `SecretsStayConfined`. `SecretsInv` is `StageInv` with
  the property itself; a fresh directory holds no secrets because they would have
  an owner.
* `RecoveryRetryProofs`, `NoMixtureServed`, `SuccessIsDelivered` and
  `FailoverKeepsPromise`, under `Serial`. `RetryInv` adds to `GatedInv` what the
  server is at every call of a running failover (`ServerAt`): stopped from the
  stop to the start, then with the repository, the pending settings, the pending
  certificate and at last all of the validated backup. A run that ends anywhere
  leaves the server stopped or whole, which is all its retry needs. In the
  refinement `VerifyArtifact` of the second artifact is `Prove`, a command is
  `Work`, the end of a run is `Refuse`, `Succeed` or `GiveUp` (with the effect of
  a command that failed half way), and everything else stutters.
* `BlobDownloadProofs`: the four properties of a download, for every limit, every
  size and every stream. `NothingOverwritten` is as strong as the code allows: a
  file that appeared in the gap can be deleted. `DownloadInv` ties `file` to `total` while the stream
  runs and remembers what the checks before it established (`Accepted`).
* `BackupProofs`, `BackupTypes` and `StagingExclusive`, for any number of
  pipelines and all faults, names in common included. `StagingInv` adds to the
  two invariants that a pipeline inside its directory has it, under a name, with
  the files it has staged unchanged. A step of one pipeline is seen by the others
  as `Local`: it removes a directory or a file only below its own name, and only
  if nobody else is inside.
* `BackupProofs`, `ManifestsComplete`, `SuccessComplete`, `StagingOutlives` and
  `FailuresLeaveMarkers`, for pipelines with names of their own (`"collision"
  \notin Faults`; `VerifyContent` for the two about complete backups, no failing
  marker for the last). `StoreInv` adds how far each pipeline has got in its two
  loops (`Loops`): what comes before the current part is uploaded, or verified.
* `BackupProofs`, `PipelinesKeepPromise` (`Spec => KeepsBackupPromise`).
  `PromiseInv` adds to `StoreInv` that nobody can find a backup whose pipeline has
  not uploaded its manifest (`Unfound`). `Seen(p)` is a step of pipeline `p` as
  `BackupPromise` can see it; one lemma per action shows that it is one, and
  `SeenPromised` that such a step is a step of the abstract specification or none.
* `DRSystemProofs`, `FreshestIsListed` and `RefusalsAreJustified`, for any number
  of pipelines and of failovers, overlapping ones included. `SystemInv` has three
  parts. `GatedInv` is taken over as it is, because production changes only
  `blobs`, of which it says no more than the type. `PipelinesInv` says of each
  pipeline what the other side can rely on: the manifest is the last blob to
  appear, and what is below a prefix that has one is all of that backup's and
  final, whatever happened to its bytes. (The prover cannot use a theorem of an
  instanced module, so this is proved here and not taken from `BackupProofs`; it
  is weaker than `StoreInv` and needs no content check.) `Reading` connects the
  two: what a failover has selected can be found, its manifest belongs to what it
  selected, and the file it downloads next is not there yet. A check can then fail
  only because the host disputes the manifest or some blob differs from what was
  uploaded. A failover takes the last name and no other, so one disputed manifest
  stops it although an older backup would do.
* `EntrypointsProofs`: `SessionsSafe` and the seven properties of `Operations`,
  for every set of configurations (with any numbers in them), any value of
  `TSM_EXECUTABLE`, any clocks, any tolerance. The properties are not inductive: `Flow` says what each phase may
  count on (no configuration before it is loaded, no fencing before it was
  decided, which entry point it belongs to), and `Dated` that a manifest is never
  dated later than production's clock stood when its data was taken, which bounds
  both the age that is reported and the reasons for a refusal. What the
  constructors refuse of what the schema accepts is a lemma of its own
  (`ConstructorRefusals`).

The inductive invariants were also checked by TLC like any
other invariant: `SecretsInv` and `RetryInv` with the constants of `RecoverySerial`
(511,424 states), `GatedInv` with those of `RecoveryOverlap` (353,776), `PromiseInv`
with those of `BackupPipelines` (135,793), `SystemInv` with those of
`SystemFailover` (1,989,738).

Only model-checked: the two liveness properties, `RunsEnd` and `PipelinesEnd`
(fairness and ENABLED are out of the prover's reach), and the `Claim` runs, whose
statements are false. The refinements are proved for the safety part of the
abstract specifications, which have no other.

## 5. Not modelled

* `logger.py` and the redaction in `tab_server_connector.py`: text only.
* Path, symlink and name checks (`security.py`, blob names): a check that fails
  is a failing call; their string rules are not modelled.
* The JSON of the manifest and its field checks: a manifest is well formed or
  not, and its contract is in `ManifestRules`.
* RTO and the durations in the result: they are copied, nothing depends on them.
* Wrappers of `TSMConnector` and `AzureManager` that nothing calls.
* What a host name resolves to.
* The PowerShell host checks, CI and dependency files.

## 6. Plan

Modelled and checked: everything above. All safety properties of the runs are
proved. What is left is to say more with less:

1. One name for two pipelines: which parts of `BackupPromise` survive it
   (reports and the local copy do, "what can be found never changes" does not).
2. The late command of one run against the next run: which weaker form of
   `SuccessDelivered` holds when runs do not overlap but commands may finish late.
3. `SplitBrain`: what fencing by flags or code does guarantee, as an invariant
   with a proof, next to the claim that fails.

-------------------------- MODULE RecoveryManager --------------------------
(***************************************************************************)
(* recovery_manager.py: executions of execute_failover against one         *)
(* disaster-recovery (DR) server.  Each run is a process started by the    *)
(* operator; the runs share the DR server, the recovery work directory and *)
(* the blob container, and nothing in the code keeps two of them apart.    *)
(*                                                                         *)
(* A step is one call that can fail, be interrupted or be interleaved: a   *)
(* TSM command, an Azure or Key Vault request, a file write.               *)
(*                                                                         *)
(* A definition that ends in _Slip is a plausible mistake in the one that  *)
(* follows it; it is no part of Spec and shows which property catches it.  *)
(***************************************************************************)
EXTENDS TableauServer, ProductionFencer, HealthChecker, Sequences

CONSTANTS
  Runs,           \* recovery runs, one RecoveryManager each
  WorkDirs,       \* names recovery_<second>_<run id> of work directories
  Faults,         \* which kinds of trouble the environment makes
  Concurrent,     \* may the operator start a run while another one runs?
  VerifyContent,  \* backup.verify_remote_content_sha256
  Configs,        \* the security sections the runs may be started with
  ManifestArgs,   \* --manifest-blob: a backup, or None for the latest
  Answers,        \* the gateway answers that may occur
  Disputed,       \* backups whose manifests the DR host may not agree with
  Published,      \* backups complete in the store from the beginning
  MaxBlobFaults   \* bound on the blobs the store damages

FaultKinds == {"io", "tsm", "late", "interrupt", "kill", "unlink", "marker",
               "workspace", "store"}

ASSUME RecoveryAssumption ==
  /\ Faults \subseteq FaultKinds
  /\ Concurrent \in BOOLEAN
  /\ VerifyContent \in BOOLEAN
  /\ Configs \subseteq FencingConfigs
  /\ ManifestArgs \subseteq Backups \cup {None}
  /\ Answers \subseteq GatewayAnswers
  /\ Disputed \subseteq Backups
  /\ Published \subseteq Backups
  /\ MaxBlobFaults \in Nat
  /\ None \notin WorkDirs
  /\ None \notin FencingMethods
  /\ None \notin HealthResults

(* The eleven stages execute_failover runs, in its order. *)
StageOrder == << "FENCING_PENDING", "PRODUCTION_FENCED", "DR_PREFLIGHT_PASSED",
                 "MANIFEST_VALIDATED", "BACKUP_ARTIFACTS_VALIDATED", "DR_STOPPED",
                 "REPOSITORY_RESTORED", "SETTINGS_IMPORTED", "SECURITY_REBOUND",
                 "DR_STARTED", "HEALTH_VALIDATED" >>
Stages == {StageOrder[i] : i \in 1 .. 11}
ASSUME StagesAssumption == None \notin Stages
RecoveryStates == Stages \cup {"DISASTER_DECLARED", "RECOVERY_COMPLETED", "FAILED"}

(* Where a run stands inside its stage: the call it makes next. *)
RebindSteps == {"secrets", "cert", "key", "external-ssl", "apply"}
Steps == {"none", "fence", "confirm", "preflight", "resolve", "manifest",
          "properties", "download", "verify", "stop", "restore", "import",
          "cleanup", "start", "health"} \cup RebindSteps

SecretFiles == {"server.crt", "server.key"}
Outcomes == {"not started", "running", "SUCCESS", "FAILED", "interrupted", "killed"}

VARIABLES
  outcome,          \* how each run stands, or ended
  current_state,    \* self.current_state
  completed_steps,  \* self.completed_steps
  failed_step,      \* self.failed_step
  step,             \* the next call of the run
  artifact,         \* the artifact the download loop is at
  fencing_result,   \* self.fencing_result: the method, or None
  selected,         \* the backup whose manifest the run asked for
  manifest,         \* self.manifest: the payload that was accepted
  health_result,    \* self.health_result
  raised,           \* the exception that waits while "finally" runs
  work_dir,         \* self.work_dir
  dirs,             \* work directories that exist on the DR host
  files,            \* the artifacts in each work directory
  secrets,          \* certificate and key files in each work directory
  markers,          \* work directories with a RECOVERY_FAILED file
  server,           \* the DR Tableau Server
  job,              \* a command of a run that TSM still works on
  blobs,            \* the container
  blobFaults        \* how many blobs were damaged (bounds the model)

control == <<outcome, current_state, completed_steps, failed_step, step>>
memory == <<artifact, fencing_result, selected, manifest, health_result, raised>>
host == <<work_dir, dirs, files, secrets, markers>>
tsm == <<server, job>>
store == <<blobs, blobFaults>>
vars == <<control, memory, host, tsm, store>>

-----------------------------------------------------------------------------
Uploaded(b) ==
  [p \in BlobParts |-> UploadFile(Pristine(b, p), Pristine(b, p))]

Init ==
  /\ outcome = [r \in Runs |-> "not started"]
  /\ current_state = [r \in Runs |-> "DISASTER_DECLARED"]
  /\ completed_steps = [r \in Runs |-> <<"DISASTER_DECLARED">>]
  /\ failed_step = [r \in Runs |-> None]
  /\ step = [r \in Runs |-> "none"]
  /\ artifact = [r \in Runs |-> "backup.tsbak"]
  /\ fencing_result = [r \in Runs |-> None]
  /\ selected = [r \in Runs |-> None]
  /\ manifest = [r \in Runs |-> None]
  /\ health_result = [r \in Runs |-> None]
  /\ raised = [r \in Runs |-> "nothing"]
  /\ work_dir = [r \in Runs |-> None]
  /\ dirs = {}
  /\ files = [d \in WorkDirs |-> [p \in Artifacts |-> None]]
  /\ secrets = [d \in WorkDirs |-> {}]
  /\ markers = {}
  /\ \E up \in BOOLEAN : server = StandbyServer(up)
  /\ job = [r \in Runs |-> "none"]
  /\ blobs = [b \in Backups |-> IF b \in Published
                               THEN Uploaded(b) ELSE [p \in BlobParts |-> NoBlob]]
  /\ blobFaults = 0

-----------------------------------------------------------------------------
(* How a run moves on: execute_failover and _execute_stage. *)

Active(r, s) == outcome[r] = "running" /\ step[r] = s

Goto(r, s) ==
  /\ step' = [step EXCEPT ![r] = s]
  /\ UNCHANGED <<outcome, current_state, completed_steps, failed_step>>

(* The failing stage would be reported too early. *)
Advance_Slip(r, next, first) ==
  /\ completed_steps' = [completed_steps EXCEPT ![r] = Append(@, current_state[r])]
  /\ current_state' = [current_state EXCEPT ![r] = next]
  /\ failed_step' = [failed_step EXCEPT ![r] = current_state[r]]
  /\ step' = [step EXCEPT ![r] = first]
  /\ UNCHANGED outcome

(* The callback returned: the stage is recorded, the next one is entered,
   and failed_step names it before anything of it has run. *)
Advance(r, next, first) ==
  /\ completed_steps' = [completed_steps EXCEPT ![r] = Append(@, current_state[r])]
  /\ current_state' = [current_state EXCEPT ![r] = next]
  /\ failed_step' = [failed_step EXCEPT ![r] = next]
  /\ step' = [step EXCEPT ![r] = first]
  /\ UNCHANGED outcome

(* The process is over without a result; its attributes no longer matter. *)
Gone(r, how) ==
  /\ outcome' = [outcome EXCEPT ![r] = how]
  /\ step' = [step EXCEPT ![r] = "none"]
  /\ UNCHANGED <<current_state, completed_steps, failed_step>>

(* The directory a failure marks, if the run has one. *)
Marked_Slip(r) == {work_dir[r]}
Marked(r) == {work_dir[r]} \cap dirs

(* The handler of execute_failover: FAILED, the stage that was entered last,
   and a marker in the work directory if there is one (best effort). *)
Fail(r) ==
  /\ outcome' = [outcome EXCEPT ![r] = "FAILED"]
  /\ step' = [step EXCEPT ![r] = "none"]
  /\ current_state' = [current_state EXCEPT ![r] = "FAILED"]
  /\ failed_step' = [failed_step EXCEPT ![r] =
                       IF @ = None THEN "RECOVERY_INITIALIZATION" ELSE @]
  /\ \/ markers' = markers \cup Marked(r)
     \/ "marker" \in Faults /\ UNCHANGED markers
  /\ UNCHANGED completed_steps

(* No "finally"; a "return" in it that loses the exception; a retry without
   a limit. *)
RaisePastFinally_Slip(r) == Fail(r) /\ UNCHANGED raised
RaiseLost_Slip(r) ==
  IF step[r] \in RebindSteps
  THEN Goto(r, "cleanup") /\ UNCHANGED <<raised, markers>>
  ELSE Fail(r) /\ UNCHANGED raised
RaiseRetried_Slip(r) == UNCHANGED <<control, raised, markers>>

(* An exception: inside the try block of the security stage "finally" runs
   before it reaches the handler. *)
Raise(r) ==
  IF step[r] \in RebindSteps
  THEN /\ Goto(r, "cleanup")
       /\ raised' = [raised EXCEPT ![r] = "error"]
       /\ UNCHANGED markers
  ELSE Fail(r) /\ UNCHANGED raised

-----------------------------------------------------------------------------
(* A directory that exists is never used. *)
Available_Slip(d) == TRUE
Available(d) == d \notin dirs

(* Start of the process and _prepare_work_directory; a run without a
   directory has none to mark. *)
Launch(r) ==
  /\ outcome[r] = "not started"
  /\ Concurrent \/ \A q \in Runs : outcome[q] # "running"
  /\ \E d \in WorkDirs :
       \/ /\ ~Available(d) \/ "io" \in Faults
          /\ Fail(r)
          /\ UNCHANGED <<work_dir, dirs>>
       \/ /\ Available(d)
          /\ dirs' = dirs \cup {d}
          /\ work_dir' = [work_dir EXCEPT ![r] = d]
          /\ outcome' = [outcome EXCEPT ![r] = "running"]
          /\ current_state' = [current_state EXCEPT ![r] = "FENCING_PENDING"]
          /\ failed_step' = [failed_step EXCEPT ![r] = "FENCING_PENDING"]
          /\ step' = [step EXCEPT ![r] = "fence"]
          /\ UNCHANGED <<completed_steps, markers>>
  /\ UNCHANGED <<memory, files, secrets, tsm, store>>

(* What a call that is cut short can leave of the secret files. *)
LeaveSecrets(r) ==
  \E left \in CASE step[r] = "cert" -> {secrets[work_dir[r]], {"server.crt"}}
              [] step[r] = "key" -> {secrets[work_dir[r]], SecretFiles}
              [] step[r] = "cleanup" -> SUBSET secrets[work_dir[r]]
              [] OTHER -> {secrets[work_dir[r]]} :
    secrets' = [secrets EXCEPT ![work_dir[r]] = left]

(* Any request or file operation of these calls may fail, and so may what
   the preflight and the security stage check besides. *)
IoFails(r) ==
  /\ "io" \in Faults
  /\ outcome[r] = "running"
  /\ step[r] \in {"preflight", "resolve", "manifest", "properties",
                  "verify", "secrets", "cert", "key"}
  /\ LeaveSecrets(r)
  /\ Raise(r)
  /\ UNCHANGED <<artifact, fencing_result, selected, manifest, health_result,
                 work_dir, dirs, files, tsm, store>>

Fence(r) ==
  /\ Active(r, "fence")
  /\ \E config \in Configs, code \in AuthCodes, reason \in Reasons :
       LET method == FenceProduction(config, code, reason)
       IN  IF method = "refused"
           THEN Fail(r) /\ UNCHANGED fencing_result
           ELSE /\ fencing_result' = [fencing_result EXCEPT ![r] = method]
                /\ Advance(r, "PRODUCTION_FENCED", "confirm")
                /\ UNCHANGED markers
  /\ UNCHANGED <<artifact, selected, manifest, health_result, raised,
                 work_dir, dirs, files, secrets, tsm, store>>

ConfirmFencing(r) ==
  /\ Active(r, "confirm")
  /\ IF fencing_result[r] = None
     THEN Fail(r)
     ELSE Advance(r, "DR_PREFLIGHT_PASSED", "preflight") /\ UNCHANGED markers
  /\ UNCHANGED <<memory, work_dir, dirs, files, secrets, tsm, store>>

(* The server would be stopped before there is anything to restore. *)
Preflight_Slip(r) ==
  /\ Active(r, "preflight")
  /\ Advance(r, "DR_STOPPED", "stop")
  /\ UNCHANGED <<memory, host, tsm, store>>

(* A stopped server passes: "tsm status" only has to exit with 0. *)
Preflight(r) ==
  /\ Active(r, "preflight")
  /\ Advance(r, "MANIFEST_VALIDATED", "resolve")
  /\ UNCHANGED <<memory, host, tsm, store>>

-----------------------------------------------------------------------------
(* The manifest and the artifacts. *)

(* Any blob below backups/ would do. *)
Listed_Slip == {b \in Backups : \E p \in BlobParts : blobs[b][p].content # None}
Listed == {b \in Backups : blobs[b]["manifest.json"].content # None}

(* The listing would be taken in the wrong order. *)
ResolveManifest_Slip(r) ==
  /\ Active(r, "resolve")
  /\ \/ /\ \E b \in Listed :
             /\ \A c \in Listed : b <= c
             /\ selected' = [selected EXCEPT ![r] = b]
        /\ Goto(r, "manifest") /\ UNCHANGED markers
     \/ /\ Listed = {}
        /\ Fail(r) /\ UNCHANGED selected
  /\ UNCHANGED <<artifact, fencing_result, manifest, health_result, raised,
                 work_dir, dirs, files, secrets, tsm, store>>

(* The name given by the operator, or the last one in the listing: names
   sort by the time in their prefix, and nothing else is looked at. *)
ResolveManifest(r) ==
  /\ Active(r, "resolve")
  /\ \E arg \in ManifestArgs :
       \/ /\ arg # None
          /\ selected' = [selected EXCEPT ![r] = arg]
          /\ Goto(r, "manifest") /\ UNCHANGED markers
       \/ /\ arg = None
          /\ \E b \in Listed :
               /\ \A c \in Listed : c <= b
               /\ selected' = [selected EXCEPT ![r] = b]
          /\ Goto(r, "manifest") /\ UNCHANGED markers
       \/ /\ arg = None /\ Listed = {}
          /\ Fail(r) /\ UNCHANGED selected
  /\ UNCHANGED <<artifact, fencing_result, manifest, health_result, raised,
                 work_dir, dirs, files, secrets, tsm, store>>

(* No digest of the manifest itself is known, so a change that keeps it
   well formed can pass _validate_manifest; a truncated one is no JSON.  A
   change to a digest it lists makes the artifact check refuse instead.  An
   intact one can be refused for its version, its identity store, the name
   of its host, or a creation time ahead of the DR host's clock: what exactly
   is in ManifestRules, and here any of it may or may not happen to a backup
   in Disputed, now and again later. *)
Acceptable(payload) == payload # None /\ payload.damage \in {"none", "altered"}
Rejectable(payload) ==
  payload # None => payload.damage # "none" \/ payload.backup \in Disputed

AcquireManifest(r) ==
  /\ Active(r, "manifest")
  /\ LET payload == blobs[selected[r]]["manifest.json"].content
     IN  \/ /\ Acceptable(payload)
            /\ manifest' = [manifest EXCEPT ![r] = payload]
            /\ artifact' = [artifact EXCEPT ![r] = "backup.tsbak"]
            /\ Advance(r, "BACKUP_ARTIFACTS_VALIDATED", "properties")
            /\ UNCHANGED markers
         \/ /\ Rejectable(payload)
            /\ Fail(r)
            /\ UNCHANGED <<manifest, artifact>>
  /\ UNCHANGED <<fencing_result, selected, health_result, raised,
                 work_dir, dirs, files, secrets, tsm, store>>

Expected(r) == Pristine(manifest[r].backup, artifact[r])
RemoteBlob(r) == blobs[manifest[r].backup][artifact[r]]

(* _download_blob_to_file up to the request for the bytes. *)
CheckProperties(r) ==
  /\ Active(r, "properties")
  /\ IF /\ files[work_dir[r]][artifact[r]] = None
        /\ RemoteBlob(r).content # None
        /\ SizeOf(RemoteBlob(r).content) = SizeOf(Expected(r))
     THEN Goto(r, "download") /\ UNCHANGED markers
     ELSE Fail(r)
  /\ UNCHANGED <<memory, work_dir, dirs, files, secrets, tsm, store>>

(* The bytes are fetched, counted and hashed; a file that fails a check is
   deleted (best effort) before the error is raised. *)
DownloadValid_Slip(payload, expected) ==
  payload # None /\ SizeOf(payload) = SizeOf(expected)
DownloadValid(payload, expected) ==
  /\ payload # None
  /\ SizeOf(payload) = SizeOf(expected)
  /\ payload = expected

SaveFile(r, payload) ==
  files' = [files EXCEPT ![work_dir[r]][artifact[r]] = payload]

DownloadArtifact(r) ==
  /\ Active(r, "download")
  /\ LET payload == RemoteBlob(r).content
     IN  IF DownloadValid(payload, Expected(r))
         THEN /\ SaveFile(r, payload)
              /\ Goto(r, "verify") /\ UNCHANGED markers
         ELSE /\ Fail(r)
              /\ \/ UNCHANGED files
                 \/ "unlink" \in Faults /\ payload # None /\ SaveFile(r, payload)
  /\ UNCHANGED <<memory, work_dir, dirs, secrets, tsm, store>>

TornFile(r) == Damaged(manifest[r].backup, artifact[r], "torn")

(* The stream breaks off, and the file goes if it can be deleted; or all of
   it arrives and cannot be hashed, and the file stays. *)
DownloadBreaks(r) ==
  /\ "io" \in Faults
  /\ Active(r, "download")
  /\ Fail(r)
  /\ \/ UNCHANGED files
     \/ "unlink" \in Faults /\ SaveFile(r, TornFile(r))
     \/ LET payload == RemoteBlob(r).content
        IN  /\ payload # None
            /\ SizeOf(payload) = SizeOf(Expected(r))
            /\ SaveFile(r, payload)
  /\ UNCHANGED <<memory, work_dir, dirs, secrets, tsm, store>>

VerifyArtifact(r) ==
  /\ Active(r, "verify")
  /\ IF VerifyRemoteBlob(RemoteBlob(r), Expected(r), VerifyContent)
     THEN /\ UNCHANGED markers
          /\ IF artifact[r] = "backup.tsbak"
             THEN /\ artifact' = [artifact EXCEPT ![r] = "settings.json"]
                  /\ Goto(r, "properties")
             ELSE /\ Advance(r, "DR_STOPPED", "stop")
                  /\ UNCHANGED artifact
     ELSE Fail(r) /\ UNCHANGED artifact
  /\ UNCHANGED <<fencing_result, selected, manifest, health_result, raised,
                 work_dir, dirs, files, secrets, tsm, store>>

-----------------------------------------------------------------------------
(* TSM commands: tab_server_connector.run. *)

NeedsFile == {"restore", "import"}
Argument(r, command) ==
  files[work_dir[r]][IF command = "restore" THEN "backup.tsbak" ELSE "settings.json"]
Issuable(r, command) == command \in NeedsFile => Argument(r, command) # None

(* Exit code 0. *)
TsmSucceeds(r, command) ==
  /\ Active(r, command)
  /\ Issuable(r, command)
  /\ server' = TsmEffect(server, command, Argument(r, command))
  /\ UNCHANGED job

(* The client is gone or gave up (non-zero exit, timeout, interrupt, kill).
   TSM may not have begun, may have done all or half of it, or, if commands
   can finish late, may still be working on it. *)
LeaveCommand(r) ==
  \/ UNCHANGED tsm
  \/ /\ step[r] \in TsmCommands /\ Issuable(r, step[r])
     /\ server' \in TsmAftermath(server, step[r], Argument(r, step[r]))
     /\ UNCHANGED job
  \/ /\ step[r] \in TsmCommands /\ Issuable(r, step[r])
     /\ "late" \in Faults
     /\ job' = [job EXCEPT ![r] = step[r]]
     /\ UNCHANGED server

TsmFails(r) ==
  /\ "tsm" \in Faults
  /\ outcome[r] = "running"
  /\ step[r] \in TsmCommands /\ Issuable(r, step[r])
  /\ LeaveCommand(r)
  /\ Raise(r)
  /\ UNCHANGED <<artifact, fencing_result, selected, manifest, health_result,
                 work_dir, dirs, files, secrets, store>>

StopDR(r) ==
  /\ TsmSucceeds(r, "stop")
  /\ Advance(r, "REPOSITORY_RESTORED", "restore")
  /\ UNCHANGED <<memory, host, store>>

RestoreRepository(r) ==
  /\ TsmSucceeds(r, "restore")
  /\ Advance(r, "SETTINGS_IMPORTED", "import")
  /\ UNCHANGED <<memory, host, store>>

(* The security stage would be left out. *)
ImportSettings_Slip(r) ==
  /\ TsmSucceeds(r, "import")
  /\ Advance(r, "DR_STARTED", "start")
  /\ UNCHANGED <<memory, host, store>>

ImportSettings(r) ==
  /\ TsmSucceeds(r, "import")
  /\ Advance(r, "SECURITY_REBOUND", "secrets")
  /\ UNCHANGED <<memory, host, store>>

(* "Validated backup artifact is missing", the same for the settings. *)
ArtifactMissing(r) ==
  /\ outcome[r] = "running"
  /\ step[r] \in NeedsFile /\ ~Issuable(r, step[r])
  /\ Fail(r)
  /\ UNCHANGED <<memory, work_dir, dirs, files, secrets, tsm, store>>

-----------------------------------------------------------------------------
(* _apply_key_vault_security_bindings. *)

(* Both secrets are read and found non-empty; the directory is made. *)
ReadSecrets(r) ==
  /\ Active(r, "secrets")
  /\ Goto(r, "cert")
  /\ UNCHANGED <<memory, host, tsm, store>>

WriteSecret(r, s, file, next) ==
  /\ Active(r, s)
  /\ secrets' = [secrets EXCEPT ![work_dir[r]] = @ \cup {file}]
  /\ Goto(r, next)
  /\ UNCHANGED <<memory, work_dir, dirs, files, markers, tsm, store>>

WriteCertificate(r) == WriteSecret(r, "cert", "server.crt", "key")
WriteKey(r) == WriteSecret(r, "key", "server.key", "external-ssl")

(* "pending-changes apply" would be forgotten. *)
EnableExternalSsl_Slip(r) ==
  /\ TsmSucceeds(r, "external-ssl")
  /\ Goto(r, "cleanup")
  /\ UNCHANGED <<memory, host, store>>

EnableExternalSsl(r) ==
  /\ TsmSucceeds(r, "external-ssl")
  /\ Goto(r, "apply")
  /\ UNCHANGED <<memory, host, store>>

ApplyPendingChanges(r) ==
  /\ TsmSucceeds(r, "apply")
  /\ Goto(r, "cleanup")
  /\ UNCHANGED <<memory, host, store>>

(* What deleting both files can leave; deletion is best effort. *)
Remaining_Slip(r) == {secrets[work_dir[r]] \ {"server.crt"}}
Remaining(r) == IF "unlink" \in Faults THEN SUBSET secrets[work_dir[r]] ELSE {{}}

(* The finally block: the files are deleted, then the stage ends the way the
   try block did. *)
CleanUpSecrets(r) ==
  /\ Active(r, "cleanup")
  /\ \E left \in Remaining(r) : secrets' = [secrets EXCEPT ![work_dir[r]] = left]
  /\ \/ /\ raised[r] = "nothing"
        /\ Advance(r, "DR_STARTED", "start") /\ UNCHANGED markers
     \/ raised[r] = "error" /\ Fail(r)
     \/ raised[r] = "interrupt" /\ Gone(r, "interrupted") /\ UNCHANGED markers
  /\ UNCHANGED <<memory, work_dir, dirs, files, tsm, store>>

-----------------------------------------------------------------------------
StartDR(r) ==
  /\ TsmSucceeds(r, "start")
  /\ Advance(r, "HEALTH_VALIDATED", "health")
  /\ UNCHANGED <<memory, host, store>>

(* _validate_health and the end of execute_failover.  A stopped server has
   no gateway that could answer. *)
ValidateHealth(r) ==
  /\ Active(r, "health")
  /\ \E returnCode \in {0} \cup (IF "tsm" \in Faults THEN {1} ELSE {}),
        answer \in IF server.running THEN Answers ELSE {"unreachable"} :
       LET result == RunAllChecks(returnCode, answer)
       IN  /\ health_result' = [health_result EXCEPT ![r] = result]
           /\ IF OverallHealthy(result)
              THEN /\ outcome' = [outcome EXCEPT ![r] = "SUCCESS"]
                   /\ step' = [step EXCEPT ![r] = "none"]
                   /\ current_state' = [current_state EXCEPT ![r] = "RECOVERY_COMPLETED"]
                   /\ completed_steps' = [completed_steps EXCEPT ![r] =
                        @ \o <<"HEALTH_VALIDATED", "RECOVERY_COMPLETED">>]
                   /\ failed_step' = [failed_step EXCEPT ![r] = None]
                   /\ UNCHANGED markers
              ELSE Fail(r)
  /\ UNCHANGED <<artifact, fencing_result, selected, manifest, raised,
                 work_dir, dirs, files, secrets, tsm, store>>

-----------------------------------------------------------------------------
(* No handler deletes the file of a download that is cut short like this. *)
LeaveFile(r) ==
  \/ UNCHANGED files
  \/ step[r] = "download" /\ SaveFile(r, TornFile(r))

(* KeyboardInterrupt is no Exception: "finally" runs, the handler does not,
   so the run ends without a result and without a marker. *)
Interrupt(r) ==
  /\ "interrupt" \in Faults
  /\ outcome[r] = "running" /\ step[r] # "cleanup"
  /\ LeaveCommand(r)
  /\ LeaveSecrets(r)
  /\ LeaveFile(r)
  /\ IF step[r] \in RebindSteps
     THEN Goto(r, "cleanup") /\ raised' = [raised EXCEPT ![r] = "interrupt"]
     ELSE Gone(r, "interrupted") /\ UNCHANGED raised
  /\ UNCHANGED <<artifact, fencing_result, selected, manifest, health_result,
                 work_dir, dirs, markers, store>>

(* The process or its host dies, or a second interrupt cuts "finally" short:
   what it was writing or deleting may be half done. *)
Kill(r) ==
  /\ "kill" \in Faults
  /\ outcome[r] = "running"
  /\ LeaveCommand(r)
  /\ LeaveSecrets(r)
  /\ LeaveFile(r)
  /\ Gone(r, "killed")
  /\ UNCHANGED <<memory, work_dir, dirs, markers, store>>

(* A command whose client has gone comes to its end, whatever that is. *)
JobEnds(r) ==
  /\ job[r] # "none"
  /\ IF Issuable(r, job[r])
     THEN server' \in TsmAftermath(server, job[r], Argument(r, job[r]))
     ELSE UNCHANGED server
  /\ job' = [job EXCEPT ![r] = "none"]
  /\ UNCHANGED <<control, memory, host, store>>

(* Another backup pipeline puts a complete backup into the container. *)
PublishBackup(b) ==
  /\ \A p \in BlobParts : blobs[b][p] = NoBlob
  /\ b \notin Published
  /\ blobs' = [blobs EXCEPT ![b] = Uploaded(b)]
  /\ UNCHANGED <<control, memory, host, tsm, blobFaults>>

DamageBlob(b, p) ==
  /\ "store" \in Faults /\ blobFaults < MaxBlobFaults
  /\ \E faulty \in FaultyBlobs(blobs[b][p]) :
       blobs' = [blobs EXCEPT ![b][p] = faulty]
  /\ blobFaults' = blobFaults + 1
  /\ UNCHANGED <<control, memory, host, tsm>>

(* A downloaded artifact disappears from the work directory. *)
LoseWorkFile(d, p) ==
  /\ "workspace" \in Faults
  /\ files[d][p] # None
  /\ files' = [files EXCEPT ![d][p] = None]
  /\ UNCHANGED <<control, memory, work_dir, dirs, secrets, markers, tsm, store>>

-----------------------------------------------------------------------------
(* What the process of a run does by itself once it is started. *)
RunStep(r) ==
  \/ Fence(r) \/ ConfirmFencing(r) \/ Preflight(r)
  \/ ResolveManifest(r) \/ AcquireManifest(r)
  \/ CheckProperties(r) \/ DownloadArtifact(r) \/ DownloadBreaks(r) \/ VerifyArtifact(r)
  \/ StopDR(r) \/ RestoreRepository(r) \/ ImportSettings(r) \/ ArtifactMissing(r)
  \/ ReadSecrets(r) \/ WriteCertificate(r) \/ WriteKey(r)
  \/ EnableExternalSsl(r) \/ ApplyPendingChanges(r) \/ CleanUpSecrets(r)
  \/ StartDR(r) \/ ValidateHealth(r)
  \/ IoFails(r) \/ TsmFails(r)

Next ==
  \/ \E r \in Runs : Launch(r) \/ RunStep(r) \/ Interrupt(r) \/ Kill(r) \/ JobEnds(r)
  \/ \E b \in Backups : PublishBackup(b)
  \/ \E b \in Backups, p \in BlobParts : DamageBlob(b, p)
  \/ \E d \in WorkDirs, p \in Artifacts : LoseWorkFile(d, p)

(* Every TSM command has a timeout and every Azure request a bounded number
   of retries, so a running process always takes its next step; nothing
   makes the operator start a run or TSM finish a command. *)
Fairness == \A r \in Runs : WF_vars(RunStep(r))

Spec == Init /\ [][Next]_vars /\ Fairness
=============================================================================

----------------------- MODULE RecoveryManagerProofs -----------------------
(***************************************************************************)
(* Invariants of RecoveryManager, for any number of runs, directories and  *)
(* backups and for every choice of faults.                                 *)
(***************************************************************************)
EXTENDS RecoverySafety, TLAPS

(* What a run relies on at its next call: a directory that exists, a
   manifest that was named, a manifest that was accepted. *)
ReadsManifest == {"properties", "download", "verify"}
Equipped(r) ==
  /\ outcome[r] = "running" \/ job[r] # "none" => work_dir[r] \in dirs
  /\ outcome[r] = "running" /\ step[r] = "manifest" => selected[r] \in Backups
  /\ outcome[r] = "running" /\ step[r] \in ReadsManifest => manifest[r] \in Payload

(* The range of every variable is preserved together with that. *)
TypeInv == TypeOK /\ \A r \in Runs : Equipped(r)

-----------------------------------------------------------------------------
(* The stages, one by one. *)
LEMMA StageNames ==
  Stages = {"FENCING_PENDING", "PRODUCTION_FENCED", "DR_PREFLIGHT_PASSED",
            "MANIFEST_VALIDATED", "BACKUP_ARTIFACTS_VALIDATED", "DR_STOPPED",
            "REPOSITORY_RESTORED", "SETTINGS_IMPORTED", "SECURITY_REBOUND",
            "DR_STARTED", "HEALTH_VALIDATED"}
<1>1. \A i \in 1 .. 11 : i = 1 \/ i = 2 \/ i = 3 \/ i = 4 \/ i = 5 \/ i = 6
                         \/ i = 7 \/ i = 8 \/ i = 9 \/ i = 10 \/ i = 11
  OBVIOUS
<1>2. /\ 1 \in 1 .. 11 /\ 2 \in 1 .. 11 /\ 3 \in 1 .. 11 /\ 4 \in 1 .. 11
      /\ 5 \in 1 .. 11 /\ 6 \in 1 .. 11 /\ 7 \in 1 .. 11 /\ 8 \in 1 .. 11
      /\ 9 \in 1 .. 11 /\ 10 \in 1 .. 11 /\ 11 \in 1 .. 11
  OBVIOUS
<1> QED
  BY <1>1, <1>2 DEF Stages, StageOrder

(* How a run moves on keeps the control variables in range. *)
LEMMA AdvanceTyped ==
  ASSUME NEW r \in Runs, NEW next \in Stages, NEW first \in Steps,
         ControlOK, Advance(r, next, first)
  PROVE  ControlOK'
<1>1. completed_steps' \in [Runs -> Seq(RecoveryStates)]
  <2>1. Append(completed_steps[r], current_state[r]) \in Seq(RecoveryStates)
    BY DEF ControlOK
  <2> QED
    BY <2>1 DEF ControlOK, Advance
<1>2. /\ current_state' \in [Runs -> RecoveryStates]
      /\ failed_step' \in [Runs -> Stages \cup {"RECOVERY_INITIALIZATION", None}]
  BY DEF ControlOK, Advance, RecoveryStates
<1>3. step' \in [Runs -> Steps] /\ outcome' \in [Runs -> Outcomes]
  BY DEF ControlOK, Advance
<1> QED
  BY <1>1, <1>2, <1>3 DEF ControlOK

LEMMA GotoTyped ==
  ASSUME NEW r \in Runs, NEW s \in Steps, ControlOK, Goto(r, s)
  PROVE  ControlOK'
BY DEF ControlOK, Goto

LEMMA GoneTyped ==
  ASSUME NEW r \in Runs, NEW how \in {"interrupted", "killed"}, ControlOK, Gone(r, how)
  PROVE  ControlOK'
BY DEF ControlOK, Gone, Outcomes, Steps

LEMMA FailTyped ==
  ASSUME NEW r \in Runs, ControlOK, markers \subseteq dirs, Fail(r)
  PROVE  ControlOK' /\ markers' \subseteq dirs
<1>1. ControlOK'
  BY DEF ControlOK, Fail, Outcomes, Steps, RecoveryStates
<1>2. markers' \subseteq dirs
  BY DEF Fail, Marked
<1> QED
  BY <1>1, <1>2

-----------------------------------------------------------------------------
(* What a TSM command, finished or not, makes of the server. *)
LEMMA EffectTyped ==
  ASSUME NEW s \in ServerStates, NEW command, NEW file \in Payload \cup {None}
  PROVE  TsmEffect(s, command, file) \in ServerStates
BY DEF TsmEffect, ServerStates

LEMMA AftermathTyped ==
  ASSUME NEW s \in ServerStates, NEW command, NEW file \in Payload \cup {None},
         command \in NeedsFile => file # None,
         NEW t \in TsmAftermath(s, command, file)
  PROVE  t \in ServerStates
<1>1. CASE t = s
  BY <1>1
<1>2. CASE t = TsmEffect(s, command, file)
  BY <1>2, EffectTyped
<1>3. CASE command = "restore" /\ t = [s EXCEPT !.repo = Damaged(file.backup, file.part, "torn")]
  <2>1. Damaged(file.backup, file.part, "torn") \in Payload
    BY <1>3 DEF NeedsFile, Payload, Damaged, Damage
  <2> QED
    BY <1>3, <2>1 DEF ServerStates
<1> QED
  BY <1>1, <1>2, <1>3 DEF TsmAftermath

LEMMA ArgumentTyped ==
  ASSUME NEW r \in Runs, NEW command, HostOK, work_dir[r] \in dirs
  PROVE  Argument(r, command) \in Payload \cup {None}
BY DEF HostOK, Argument, Artifacts

LEMMA TsmSucceedsTyped ==
  ASSUME NEW r \in Runs, NEW command, TypeInv, TsmSucceeds(r, command)
  PROVE  TsmOK'
BY ArgumentTyped, EffectTyped DEF TypeInv, TypeOK, TsmOK, TsmSucceeds, Active, Equipped

LEMMA LeaveCommandTyped ==
  ASSUME NEW r \in Runs, TypeInv, outcome[r] = "running", LeaveCommand(r)
  PROVE  TsmOK'
<1>1. CASE UNCHANGED tsm
  BY <1>1 DEF TypeInv, TypeOK, TsmOK, tsm
<1>2. CASE /\ step[r] \in TsmCommands /\ Issuable(r, step[r])
           /\ server' \in TsmAftermath(server, step[r], Argument(r, step[r]))
           /\ UNCHANGED job
  BY <1>2, ArgumentTyped, AftermathTyped
    DEF TypeInv, TypeOK, TsmOK, Equipped, Issuable
<1>3. CASE /\ step[r] \in TsmCommands
           /\ job' = [job EXCEPT ![r] = step[r]]
           /\ UNCHANGED server
  BY <1>3 DEF TypeInv, TypeOK, TsmOK
<1> QED
  BY <1>1, <1>2, <1>3 DEF LeaveCommand

LEMMA LeaveSecretsTyped ==
  ASSUME NEW r \in Runs, TypeInv, outcome[r] = "running", LeaveSecrets(r)
  PROVE  secrets' \in [WorkDirs -> SUBSET SecretFiles]
<1>1. work_dir[r] \in WorkDirs /\ secrets[work_dir[r]] \subseteq SecretFiles
  BY DEF TypeInv, TypeOK, HostOK, Equipped
<1>2. PICK left : /\ secrets' = [secrets EXCEPT ![work_dir[r]] = left]
                  /\ left \subseteq SecretFiles
  BY <1>1 DEF LeaveSecrets, SecretFiles
<1> QED
  BY <1>1, <1>2 DEF TypeInv, TypeOK, HostOK

-----------------------------------------------------------------------------
(* The initial states are in range. *)
LEMMA InitTyped ==
  Init => TypeInv
<1> SUFFICES ASSUME Init PROVE TypeInv
  OBVIOUS
<1>1. ControlOK
  <2>1. <<"DISASTER_DECLARED">> \in Seq(RecoveryStates)
    BY DEF RecoveryStates
  <2>2. /\ "not started" \in Outcomes
        /\ "DISASTER_DECLARED" \in RecoveryStates
        /\ "none" \in Steps
    BY DEF Outcomes, RecoveryStates, Steps
  <2> QED
    BY <2>1, <2>2 DEF Init, ControlOK
<1>2. MemoryOK
  BY DEF Init, MemoryOK, Artifacts
<1>3. HostOK
  BY DEF Init, HostOK
<1>4. TsmOK
  <2>1. \A up \in BOOLEAN : StandbyServer(up) \in ServerStates
    BY DEF StandbyServer, ServerStates
  <2> QED
    BY <2>1 DEF Init, TsmOK
<1>5. StoreOK
  <2>1. \A b \in Backups : Uploaded(b) \in [BlobParts -> Blob]
    BY DEF Uploaded, UploadFile, Pristine, SizeOf, Blob, Payload, Damage
  <2>2. NoBlob \in Blob
    BY DEF NoBlob, Blob
  <2>3. [p \in BlobParts |-> NoBlob] \in [BlobParts -> Blob]
    BY <2>2
  <2>4. blobs \in [Backups -> [BlobParts -> Blob]]
    BY <2>1, <2>3 DEF Init
  <2>5. blobFaults \in 0 .. MaxBlobFaults
    <3>1. MaxBlobFaults \in Nat
      BY RecoveryAssumption
    <3>2. blobFaults = 0
      BY DEF Init
    <3> QED
      BY <3>1, <3>2
  <2> QED
    BY <2>4, <2>5 DEF StoreOK
<1>6. \A r \in Runs : Equipped(r)
  BY DEF Init, Equipped
<1> QED
  BY <1>1, <1>2, <1>3, <1>4, <1>5, <1>6 DEF TypeInv, TypeOK

(* The part of a step that is not the control of a run: the variables stay
   in range, and the directory of every run stays. *)
RestTyped ==
  /\ MemoryOK' /\ TsmOK' /\ StoreOK'
  /\ files' \in [WorkDirs -> [Artifacts -> Payload \cup {None}]]
  /\ secrets' \in [WorkDirs -> SUBSET SecretFiles]
  /\ UNCHANGED <<work_dir, dirs>>
  /\ \A q \in Runs : job'[q] # "none" => job[q] # "none" \/ outcome[q] = "running"

(* Whichever way a run moves on, TypeInv is kept if the rest is typed and
   the next call finds the manifest it reads. *)
LEMMA FailKeeps ==
  ASSUME NEW r \in Runs, TypeInv, Fail(r), RestTyped, UNCHANGED <<selected, manifest>>
  PROVE  TypeInv'
<1>1. ControlOK' /\ markers' \subseteq dirs
  BY FailTyped DEF TypeInv, TypeOK, HostOK
<1>2. \A q \in Runs : Equipped(q)'
  BY DEF TypeInv, TypeOK, ControlOK, Fail, Equipped, RestTyped
<1> QED
  BY <1>1, <1>2 DEF TypeInv, TypeOK, HostOK, RestTyped

LEMMA GoneKeeps ==
  ASSUME NEW r \in Runs, NEW how \in {"interrupted", "killed"}, TypeInv, Gone(r, how),
         RestTyped, UNCHANGED <<selected, manifest, markers>>
  PROVE  TypeInv'
<1>1. ControlOK'
  BY GoneTyped DEF TypeInv, TypeOK
<1>2. \A q \in Runs : Equipped(q)'
  BY DEF TypeInv, TypeOK, ControlOK, Gone, Equipped, RestTyped
<1> QED
  BY <1>1, <1>2 DEF TypeInv, TypeOK, HostOK, RestTyped

LEMMA AdvanceKeeps ==
  ASSUME NEW r \in Runs, NEW next \in Stages, NEW first \in Steps,
         TypeInv, outcome[r] = "running", Advance(r, next, first), RestTyped,
         UNCHANGED <<selected, markers>>,
         \A q \in Runs \ {r} : manifest'[q] = manifest[q],
         first # "manifest", first \in ReadsManifest => manifest'[r] \in Payload
  PROVE  TypeInv'
<1>1. ControlOK'
  BY AdvanceTyped DEF TypeInv, TypeOK
<1>2. \A q \in Runs : Equipped(q)'
  BY DEF TypeInv, TypeOK, ControlOK, Advance, Equipped, RestTyped
<1> QED
  BY <1>1, <1>2 DEF TypeInv, TypeOK, HostOK, RestTyped

LEMMA GotoKeeps ==
  ASSUME NEW r \in Runs, NEW s \in Steps,
         TypeInv, outcome[r] = "running", Goto(r, s), RestTyped,
         UNCHANGED <<manifest, markers>>,
         \A q \in Runs \ {r} : selected'[q] = selected[q],
         s = "manifest" => selected'[r] \in Backups,
         s \in ReadsManifest => manifest[r] \in Payload
  PROVE  TypeInv'
<1>1. ControlOK'
  BY GotoTyped DEF TypeInv, TypeOK
<1>2. \A q \in Runs : Equipped(q)'
  BY DEF TypeInv, TypeOK, ControlOK, Goto, Equipped, RestTyped
<1> QED
  BY <1>1, <1>2 DEF TypeInv, TypeOK, HostOK, RestTyped

(* Most steps leave everything but control, markers and one more variable
   alone. *)
LEMMA RestUnchanged ==
  ASSUME TypeInv, UNCHANGED <<memory, work_dir, dirs, files, secrets, tsm, store>>
  PROVE  RestTyped /\ UNCHANGED <<selected, manifest>>
BY DEF TypeInv, TypeOK, MemoryOK, HostOK, TsmOK, StoreOK, RestTyped, memory, tsm, store

(* An exception, in the security stage or outside it. *)
LEMMA RaiseKeeps ==
  ASSUME NEW r \in Runs, TypeInv, outcome[r] = "running", Raise(r),
         RestTyped, UNCHANGED <<selected, manifest>>
  PROVE  TypeInv'
<1>1. CASE step[r] \in RebindSteps
  <2>1. Goto(r, "cleanup") /\ UNCHANGED markers
    BY <1>1 DEF Raise
  <2> QED
    BY <2>1, GotoKeeps DEF Steps, ReadsManifest
<1>2. CASE step[r] \notin RebindSteps
  BY <1>2, FailKeeps DEF Raise
<1> QED
  BY <1>1, <1>2

-----------------------------------------------------------------------------
(* Every action keeps TypeInv: the control part by the lemmas above, then
   the variables it assigns, then what the next call relies on. *)
LEMMA LaunchTyped ==
  ASSUME NEW r \in Runs, TypeInv, Launch(r)
  PROVE  TypeInv'
<1> USE DEF TypeInv, TypeOK
<1>1. PICK d \in WorkDirs :
        \/ Fail(r) /\ UNCHANGED <<work_dir, dirs>>
        \/ /\ dirs' = dirs \cup {d}
           /\ work_dir' = [work_dir EXCEPT ![r] = d]
           /\ outcome' = [outcome EXCEPT ![r] = "running"]
           /\ current_state' = [current_state EXCEPT ![r] = "FENCING_PENDING"]
           /\ failed_step' = [failed_step EXCEPT ![r] = "FENCING_PENDING"]
           /\ step' = [step EXCEPT ![r] = "fence"]
           /\ UNCHANGED <<completed_steps, markers>>
  BY DEF Launch
<1>2. UNCHANGED <<memory, files, secrets, tsm, store>>
  BY DEF Launch
<1>3. CASE Fail(r) /\ UNCHANGED <<work_dir, dirs>>
  BY <1>2, <1>3, RestUnchanged, FailKeeps
<1>4. CASE /\ dirs' = dirs \cup {d}
           /\ work_dir' = [work_dir EXCEPT ![r] = d]
           /\ outcome' = [outcome EXCEPT ![r] = "running"]
           /\ current_state' = [current_state EXCEPT ![r] = "FENCING_PENDING"]
           /\ failed_step' = [failed_step EXCEPT ![r] = "FENCING_PENDING"]
           /\ step' = [step EXCEPT ![r] = "fence"]
           /\ UNCHANGED <<completed_steps, markers>>
  <2>1. ControlOK'
    BY <1>4, StageNames DEF ControlOK, Outcomes, RecoveryStates, Steps
  <2>2. \A q \in Runs : Equipped(q)'
    BY <1>2, <1>4 DEF Equipped, ControlOK, HostOK, ReadsManifest, memory, tsm
  <2> QED
    BY <1>2, <1>4, <2>1, <2>2 DEF memory, tsm, store, MemoryOK, HostOK, TsmOK, StoreOK
<1> QED
  BY <1>1, <1>3, <1>4

LEMMA FenceTyped ==
  ASSUME NEW r \in Runs, TypeInv, Fence(r)
  PROVE  TypeInv'
<1>1. UNCHANGED <<artifact, selected, manifest, health_result, raised,
                  work_dir, dirs, files, secrets, tsm, store>>
  BY DEF Fence
<1>2. CASE Fail(r) /\ UNCHANGED fencing_result
  BY <1>1, <1>2, RestUnchanged, FailKeeps DEF memory
<1>3. ASSUME NEW method \in FencingMethods,
             fencing_result' = [fencing_result EXCEPT ![r] = method],
             Advance(r, "PRODUCTION_FENCED", "confirm"),
             UNCHANGED markers
      PROVE  TypeInv'
  <2>1. RestTyped
    BY <1>1, <1>3 DEF TypeInv, TypeOK, MemoryOK, HostOK, TsmOK, StoreOK, RestTyped,
                      tsm, store
  <2> QED
    BY <1>1, <1>3, <2>1, StageNames, AdvanceKeeps DEF Fence, Active, Steps, ReadsManifest
<1>4. \A config, code, reason : FenceProduction(config, code, reason) # "refused"
          => FenceProduction(config, code, reason) \in FencingMethods
  BY DEF FenceProduction, EvaluateFencing, FencingMethods
<1> QED
  BY <1>2, <1>3, <1>4 DEF Fence

LEMMA ConfirmFencingTyped ==
  ASSUME NEW r \in Runs, TypeInv, ConfirmFencing(r)
  PROVE  TypeInv'
<1>1. RestTyped /\ UNCHANGED <<selected, manifest>>
  BY RestUnchanged DEF ConfirmFencing
<1> QED
  BY <1>1, StageNames, FailKeeps, AdvanceKeeps
    DEF ConfirmFencing, Active, Steps, ReadsManifest

LEMMA PreflightTyped ==
  ASSUME NEW r \in Runs, TypeInv, Preflight(r)
  PROVE  TypeInv'
<1>1. RestTyped /\ UNCHANGED <<selected, manifest, markers>>
  BY RestUnchanged DEF Preflight, host
<1> QED
  BY <1>1, StageNames, AdvanceKeeps DEF Preflight, Active, Steps, ReadsManifest

LEMMA ResolveManifestTyped ==
  ASSUME NEW r \in Runs, TypeInv, ResolveManifest(r)
  PROVE  TypeInv'
<1>1. UNCHANGED <<artifact, fencing_result, manifest, health_result, raised,
                  work_dir, dirs, files, secrets, tsm, store>>
  BY DEF ResolveManifest
<1>2. CASE Fail(r) /\ UNCHANGED selected
  BY <1>1, <1>2, RestUnchanged, FailKeeps DEF memory
<1>3. ASSUME NEW b \in Backups, selected' = [selected EXCEPT ![r] = b],
             Goto(r, "manifest"), UNCHANGED markers
      PROVE  TypeInv'
  <2>1. RestTyped
    BY <1>1, <1>3 DEF TypeInv, TypeOK, MemoryOK, HostOK, TsmOK, StoreOK, RestTyped,
                      tsm, store
  <2>2. selected'[r] = b
    BY <1>3 DEF TypeInv, TypeOK, MemoryOK
  <2> QED
    BY <1>1, <1>3, <2>1, <2>2, GotoKeeps DEF ResolveManifest, Active, Steps, ReadsManifest
<1>4. \/ Fail(r) /\ UNCHANGED selected
      \/ \E b \in Backups : /\ selected' = [selected EXCEPT ![r] = b]
                            /\ Goto(r, "manifest") /\ UNCHANGED markers
  <2>1. \A arg \in ManifestArgs : arg # None => arg \in Backups
    BY RecoveryAssumption
  <2>2. Listed \subseteq Backups
    BY DEF Listed
  <2> QED
    BY <2>1, <2>2 DEF ResolveManifest
<1> QED
  BY <1>2, <1>3, <1>4

LEMMA AcquireManifestTyped ==
  ASSUME NEW r \in Runs, TypeInv, AcquireManifest(r)
  PROVE  TypeInv'
<1> DEFINE payload == blobs[selected[r]]["manifest.json"].content
<1>1. UNCHANGED <<fencing_result, selected, health_result, raised,
                  work_dir, dirs, files, secrets, tsm, store>>
  BY DEF AcquireManifest
<1>2. CASE Fail(r) /\ UNCHANGED <<manifest, artifact>>
  BY <1>1, <1>2, RestUnchanged, FailKeeps DEF memory
<1>3. CASE /\ Acceptable(payload)
           /\ manifest' = [manifest EXCEPT ![r] = payload]
           /\ artifact' = [artifact EXCEPT ![r] = "backup.tsbak"]
           /\ Advance(r, "BACKUP_ARTIFACTS_VALIDATED", "properties")
           /\ UNCHANGED markers
  <2>1. selected[r] \in Backups
    BY DEF AcquireManifest, Active, TypeInv, Equipped
  <2>2. payload \in Payload
    <3>1. blobs[selected[r]]["manifest.json"] \in Blob
      BY <2>1 DEF TypeInv, TypeOK, StoreOK, BlobParts
    <3> QED
      BY <1>3, <3>1 DEF Blob, Acceptable
  <2>3. RestTyped
    BY <1>1, <1>3, <2>2 DEF TypeInv, TypeOK, MemoryOK, HostOK, TsmOK, StoreOK, RestTyped,
                            tsm, store, Artifacts
  <2>4. /\ manifest'[r] \in Payload
        /\ \A q \in Runs \ {r} : manifest'[q] = manifest[q]
    BY <1>3, <2>2 DEF TypeInv, TypeOK, MemoryOK
  <2> QED
    BY <1>1, <1>3, <2>3, <2>4, StageNames, AdvanceKeeps
      DEF AcquireManifest, Active, Steps, ReadsManifest
<1> QED
  BY <1>2, <1>3 DEF AcquireManifest

LEMMA CheckPropertiesTyped ==
  ASSUME NEW r \in Runs, TypeInv, CheckProperties(r)
  PROVE  TypeInv'
<1>1. RestTyped /\ UNCHANGED <<selected, manifest>>
  BY RestUnchanged DEF CheckProperties
<1>2. outcome[r] = "running" /\ manifest[r] \in Payload
  BY DEF CheckProperties, Active, TypeInv, Equipped, ReadsManifest
<1>3. CASE Fail(r)
  BY <1>1, <1>3, FailKeeps
<1>4. CASE Goto(r, "download") /\ UNCHANGED markers
  BY <1>1, <1>2, <1>4, GotoKeeps DEF Steps
<1> QED
  BY <1>3, <1>4 DEF CheckProperties

(* The bytes of a blob, saved or torn, are a payload. *)
LEMMA SaveFileTyped ==
  ASSUME NEW r \in Runs, TypeInv, outcome[r] = "running",
         NEW payload \in Payload \cup {None}, SaveFile(r, payload)
  PROVE  files' \in [WorkDirs -> [Artifacts -> Payload \cup {None}]]
<1>1. work_dir[r] \in WorkDirs /\ artifact[r] \in Artifacts
  BY DEF TypeInv, TypeOK, HostOK, MemoryOK, Equipped
<1> QED
  BY <1>1 DEF SaveFile, TypeInv, TypeOK, HostOK

LEMMA RemoteBlobTyped ==
  ASSUME NEW r \in Runs, TypeInv, manifest[r] \in Payload
  PROVE  RemoteBlob(r) \in Blob /\ TornFile(r) \in Payload
<1>1. manifest[r].backup \in Backups /\ artifact[r] \in BlobParts
  BY DEF Payload, TypeInv, TypeOK, MemoryOK, BlobParts
<1> QED
  BY <1>1 DEF RemoteBlob, TornFile, Damaged, Damage, Payload, TypeInv, TypeOK, StoreOK

LEMMA DownloadTyped ==
  ASSUME NEW r \in Runs, TypeInv, DownloadArtifact(r) \/ DownloadBreaks(r)
  PROVE  TypeInv'
<1>1. /\ UNCHANGED <<memory, work_dir, dirs, secrets, tsm, store>>
      /\ outcome[r] = "running" /\ manifest[r] \in Payload
  BY DEF DownloadArtifact, DownloadBreaks, Active, TypeInv, Equipped, ReadsManifest
<1>2. RemoteBlob(r).content \in Payload \cup {None} /\ TornFile(r) \in Payload
  BY <1>1, RemoteBlobTyped DEF Blob
<1>3. files' \in [WorkDirs -> [Artifacts -> Payload \cup {None}]]
  <2>1. \/ UNCHANGED files
        \/ SaveFile(r, RemoteBlob(r).content)
        \/ SaveFile(r, TornFile(r))
    BY DEF DownloadArtifact, DownloadBreaks
  <2>2. UNCHANGED files => files' \in [WorkDirs -> [Artifacts -> Payload \cup {None}]]
    BY DEF TypeInv, TypeOK, HostOK
  <2> QED
    BY <1>1, <1>2, <2>1, <2>2, SaveFileTyped
<1>4. RestTyped /\ UNCHANGED <<selected, manifest>>
  BY <1>1, <1>3 DEF TypeInv, TypeOK, MemoryOK, HostOK, TsmOK, StoreOK, RestTyped,
                    memory, tsm, store
<1>5. \/ Fail(r)
      \/ Goto(r, "verify") /\ UNCHANGED markers
  BY DEF DownloadArtifact, DownloadBreaks
<1> QED
  BY <1>1, <1>4, <1>5, FailKeeps, GotoKeeps DEF Steps

LEMMA VerifyArtifactTyped ==
  ASSUME NEW r \in Runs, TypeInv, VerifyArtifact(r)
  PROVE  TypeInv'
<1>1. /\ UNCHANGED <<fencing_result, selected, manifest, health_result, raised,
                     work_dir, dirs, files, secrets, tsm, store>>
      /\ outcome[r] = "running" /\ manifest[r] \in Payload
  BY DEF VerifyArtifact, Active, TypeInv, Equipped, ReadsManifest
<1>2. UNCHANGED artifact \/ artifact' = [artifact EXCEPT ![r] = "settings.json"]
  BY DEF VerifyArtifact
<1>3. RestTyped
  BY <1>1, <1>2 DEF TypeInv, TypeOK, MemoryOK, HostOK, TsmOK, StoreOK, RestTyped,
                    tsm, store, Artifacts
<1>4. CASE Fail(r)
  BY <1>1, <1>3, <1>4, FailKeeps
<1>5. CASE Goto(r, "properties") /\ UNCHANGED markers
  BY <1>1, <1>3, <1>5, GotoKeeps DEF Steps
<1>6. CASE Advance(r, "DR_STOPPED", "stop") /\ UNCHANGED markers
  BY <1>1, <1>3, <1>6, StageNames, AdvanceKeeps DEF Steps, ReadsManifest
<1> QED
  BY <1>4, <1>5, <1>6 DEF VerifyArtifact

(* The commands whose success ends a stage, and those of the security
   stage. *)
LEMMA CommandRest ==
  ASSUME NEW r \in Runs, NEW command, TypeInv, TsmSucceeds(r, command),
         UNCHANGED <<memory, host, store>>
  PROVE  RestTyped /\ UNCHANGED <<selected, manifest, markers>> /\ outcome[r] = "running"
<1>1. TsmOK'
  BY TsmSucceedsTyped
<1>2. UNCHANGED job /\ outcome[r] = "running"
  BY DEF TsmSucceeds, Active
<1> QED
  BY <1>1, <1>2 DEF TypeInv, TypeOK, MemoryOK, HostOK, TsmOK, StoreOK, RestTyped,
                    memory, host, store

LEMMA CommandsTyped ==
  ASSUME NEW r \in Runs, TypeInv,
         \/ StopDR(r) \/ RestoreRepository(r) \/ ImportSettings(r)
         \/ EnableExternalSsl(r) \/ ApplyPendingChanges(r) \/ StartDR(r)
  PROVE  TypeInv'
<1>1. RestTyped /\ UNCHANGED <<selected, manifest, markers>> /\ outcome[r] = "running"
  BY CommandRest DEF StopDR, RestoreRepository, ImportSettings, EnableExternalSsl,
                     ApplyPendingChanges, StartDR
<1>2. \/ Advance(r, "REPOSITORY_RESTORED", "restore")
      \/ Advance(r, "SETTINGS_IMPORTED", "import")
      \/ Advance(r, "SECURITY_REBOUND", "secrets")
      \/ Advance(r, "HEALTH_VALIDATED", "health")
      \/ Goto(r, "apply") \/ Goto(r, "cleanup")
  BY DEF StopDR, RestoreRepository, ImportSettings, EnableExternalSsl,
         ApplyPendingChanges, StartDR
<1>3. {"restore", "import", "secrets", "health", "apply", "cleanup"}
         \subseteq Steps \ (ReadsManifest \cup {"manifest"})
  BY DEF Steps, RebindSteps, ReadsManifest
<1>4. CASE Goto(r, "apply") \/ Goto(r, "cleanup")
  BY <1>1, <1>3, <1>4, GotoKeeps
<1>5. CASE ~(Goto(r, "apply") \/ Goto(r, "cleanup"))
  BY <1>1, <1>2, <1>3, <1>5, StageNames, AdvanceKeeps
<1> QED
  BY <1>4, <1>5

LEMMA ArtifactMissingTyped ==
  ASSUME NEW r \in Runs, TypeInv, ArtifactMissing(r)
  PROVE  TypeInv'
<1>1. RestTyped /\ UNCHANGED <<selected, manifest>>
  BY RestUnchanged DEF ArtifactMissing
<1> QED
  BY <1>1, FailKeeps DEF ArtifactMissing

LEMMA SecretsTyped ==
  ASSUME NEW r \in Runs, TypeInv,
         ReadSecrets(r) \/ WriteCertificate(r) \/ WriteKey(r)
  PROVE  TypeInv'
<1>1. /\ UNCHANGED <<memory, work_dir, dirs, files, markers, tsm, store>>
      /\ outcome[r] = "running"
      /\ Goto(r, "cert") \/ Goto(r, "key") \/ Goto(r, "external-ssl")
  BY DEF ReadSecrets, WriteCertificate, WriteKey, WriteSecret, Active, host
<1>2. secrets' \in [WorkDirs -> SUBSET SecretFiles]
  BY DEF ReadSecrets, WriteCertificate, WriteKey, WriteSecret, SecretFiles, host,
         TypeInv, TypeOK, HostOK
<1>3. RestTyped /\ UNCHANGED <<selected, manifest>>
  BY <1>1, <1>2 DEF TypeInv, TypeOK, MemoryOK, HostOK, TsmOK, StoreOK, RestTyped,
                    memory, tsm, store
<1>4. {"cert", "key", "external-ssl"} \subseteq Steps \ (ReadsManifest \cup {"manifest"})
  BY DEF Steps, RebindSteps, ReadsManifest
<1> QED
  BY <1>1, <1>3, <1>4, GotoKeeps

LEMMA CleanUpSecretsTyped ==
  ASSUME NEW r \in Runs, TypeInv, CleanUpSecrets(r)
  PROVE  TypeInv'
<1>1. /\ UNCHANGED <<memory, work_dir, dirs, files, tsm, store>>
      /\ outcome[r] = "running"
  BY DEF CleanUpSecrets, Active
<1>2. secrets' \in [WorkDirs -> SUBSET SecretFiles]
  <2>1. work_dir[r] \in WorkDirs
    BY <1>1 DEF TypeInv, TypeOK, HostOK, Equipped
  <2> QED
    BY <2>1 DEF CleanUpSecrets, Remaining, TypeInv, TypeOK, HostOK
<1>3. RestTyped /\ UNCHANGED <<selected, manifest>>
  BY <1>1, <1>2 DEF TypeInv, TypeOK, MemoryOK, HostOK, TsmOK, StoreOK, RestTyped,
                    memory, tsm, store
<1>4. \/ Advance(r, "DR_STARTED", "start") /\ UNCHANGED markers
      \/ Fail(r)
      \/ Gone(r, "interrupted") /\ UNCHANGED markers
  BY DEF CleanUpSecrets
<1>5. "start" \in Steps \ (ReadsManifest \cup {"manifest"})
  BY DEF Steps, ReadsManifest
<1> QED
  BY <1>1, <1>3, <1>4, <1>5, StageNames, AdvanceKeeps, FailKeeps, GoneKeeps

LEMMA ValidateHealthTyped ==
  ASSUME NEW r \in Runs, TypeInv, ValidateHealth(r)
  PROVE  TypeInv'
<1>1. UNCHANGED <<artifact, fencing_result, selected, manifest, raised,
                  work_dir, dirs, files, secrets, tsm, store>>
  BY DEF ValidateHealth
<1>2. PICK result \in HealthResults :
        /\ health_result' = [health_result EXCEPT ![r] = result]
        /\ \/ /\ outcome' = [outcome EXCEPT ![r] = "SUCCESS"]
              /\ step' = [step EXCEPT ![r] = "none"]
              /\ current_state' = [current_state EXCEPT ![r] = "RECOVERY_COMPLETED"]
              /\ completed_steps' = [completed_steps EXCEPT ![r] =
                   @ \o <<"HEALTH_VALIDATED", "RECOVERY_COMPLETED">>]
              /\ failed_step' = [failed_step EXCEPT ![r] = None]
              /\ UNCHANGED markers
           \/ Fail(r)
  <2>1. Answers \subseteq GatewayAnswers
    BY RecoveryAssumption
  <2>2. PICK returnCode \in {0} \cup (IF "tsm" \in Faults THEN {1} ELSE {}),
             answer \in IF server.running THEN Answers ELSE {"unreachable"} :
          LET result == RunAllChecks(returnCode, answer)
          IN  /\ health_result' = [health_result EXCEPT ![r] = result]
              /\ IF OverallHealthy(result)
                 THEN /\ outcome' = [outcome EXCEPT ![r] = "SUCCESS"]
                      /\ step' = [step EXCEPT ![r] = "none"]
                      /\ current_state' = [current_state EXCEPT ![r] = "RECOVERY_COMPLETED"]
                      /\ completed_steps' = [completed_steps EXCEPT ![r] =
                           @ \o <<"HEALTH_VALIDATED", "RECOVERY_COMPLETED">>]
                      /\ failed_step' = [failed_step EXCEPT ![r] = None]
                      /\ UNCHANGED markers
                 ELSE Fail(r)
    BY DEF ValidateHealth
  <2>3. answer \in GatewayAnswers
    BY <2>1, <2>2 DEF GatewayAnswers
  <2>4. RunAllChecks(returnCode, answer) \in HealthResults
    BY <2>3 DEF RunAllChecks, CheckTsmStatus, CheckGateway, HealthResults
  <2> QED
    BY <2>2, <2>4
<1>3. RestTyped /\ UNCHANGED <<selected, manifest>>
  BY <1>1, <1>2 DEF TypeInv, TypeOK, MemoryOK, HostOK, TsmOK, StoreOK, RestTyped,
                    tsm, store
<1>4. CASE Fail(r)
  BY <1>3, <1>4, FailKeeps
<1>5. CASE /\ outcome' = [outcome EXCEPT ![r] = "SUCCESS"]
           /\ step' = [step EXCEPT ![r] = "none"]
           /\ current_state' = [current_state EXCEPT ![r] = "RECOVERY_COMPLETED"]
           /\ completed_steps' = [completed_steps EXCEPT ![r] =
                @ \o <<"HEALTH_VALIDATED", "RECOVERY_COMPLETED">>]
           /\ failed_step' = [failed_step EXCEPT ![r] = None]
           /\ UNCHANGED markers
  <2>1. completed_steps' \in [Runs -> Seq(RecoveryStates)]
    <3>1. <<"HEALTH_VALIDATED", "RECOVERY_COMPLETED">> \in Seq(RecoveryStates)
      BY StageNames DEF RecoveryStates
    <3>2. completed_steps[r] \o <<"HEALTH_VALIDATED", "RECOVERY_COMPLETED">>
             \in Seq(RecoveryStates)
      BY <3>1 DEF TypeInv, TypeOK, ControlOK
    <3> QED
      BY <1>5, <3>2 DEF TypeInv, TypeOK, ControlOK
  <2>2. ControlOK'
    BY <1>5, <2>1 DEF TypeInv, TypeOK, ControlOK, Outcomes, RecoveryStates, Steps
  <2>3. \A q \in Runs : Equipped(q)'
    BY <1>3, <1>5 DEF TypeInv, TypeOK, ControlOK, Equipped, RestTyped
  <2> QED
    BY <1>3, <1>5, <2>2, <2>3 DEF TypeInv, TypeOK, HostOK, RestTyped
<1> QED
  BY <1>2, <1>4, <1>5

-----------------------------------------------------------------------------
(* The environment: failing calls, interrupts, kills, late commands, and
   the store. *)
LEMMA IoFailsTyped ==
  ASSUME NEW r \in Runs, TypeInv, IoFails(r)
  PROVE  TypeInv'
<1>1. /\ UNCHANGED <<artifact, fencing_result, selected, manifest, health_result,
                     work_dir, dirs, files, tsm, store>>
      /\ outcome[r] = "running" /\ Raise(r)
      /\ secrets' \in [WorkDirs -> SUBSET SecretFiles]
  BY LeaveSecretsTyped DEF IoFails
<1>2. raised' \in [Runs -> {"nothing", "error", "interrupt"}]
  BY <1>1 DEF Raise, TypeInv, TypeOK, MemoryOK
<1>3. RestTyped
  BY <1>1, <1>2 DEF TypeInv, TypeOK, MemoryOK, HostOK, TsmOK, StoreOK, RestTyped,
                    tsm, store
<1> QED
  BY <1>1, <1>3, RaiseKeeps

LEMMA LeaveCommandJobs ==
  ASSUME NEW r \in Runs, TypeInv, outcome[r] = "running", LeaveCommand(r)
  PROVE  \A q \in Runs : job'[q] # "none" => job[q] # "none" \/ outcome[q] = "running"
BY DEF LeaveCommand, tsm, TypeInv, TypeOK, TsmOK

LEMMA TsmFailsTyped ==
  ASSUME NEW r \in Runs, TypeInv, TsmFails(r)
  PROVE  TypeInv'
<1>1. /\ UNCHANGED <<artifact, fencing_result, selected, manifest, health_result,
                     work_dir, dirs, files, secrets, store>>
      /\ outcome[r] = "running" /\ Raise(r) /\ LeaveCommand(r)
  BY DEF TsmFails
<1>2. raised' \in [Runs -> {"nothing", "error", "interrupt"}]
  BY <1>1 DEF Raise, TypeInv, TypeOK, MemoryOK
<1>3. RestTyped
  BY <1>1, <1>2, LeaveCommandTyped, LeaveCommandJobs
    DEF TypeInv, TypeOK, MemoryOK, HostOK, StoreOK, RestTyped, store
<1> QED
  BY <1>1, <1>3, RaiseKeeps

LEMMA LeaveFileTyped ==
  ASSUME NEW r \in Runs, TypeInv, outcome[r] = "running", LeaveFile(r)
  PROVE  files' \in [WorkDirs -> [Artifacts -> Payload \cup {None}]]
<1>1. CASE UNCHANGED files
  BY <1>1 DEF TypeInv, TypeOK, HostOK
<1>2. CASE step[r] = "download" /\ SaveFile(r, TornFile(r))
  <2>1. manifest[r] \in Payload
    BY <1>2 DEF TypeInv, Equipped, ReadsManifest
  <2> QED
    BY <1>2, <2>1, RemoteBlobTyped, SaveFileTyped
<1> QED
  BY <1>1, <1>2 DEF LeaveFile

LEMMA InterruptTyped ==
  ASSUME NEW r \in Runs, TypeInv, Interrupt(r)
  PROVE  TypeInv'
<1>1. /\ UNCHANGED <<artifact, fencing_result, selected, manifest, health_result,
                     work_dir, dirs, markers, store>>
      /\ LeaveFile(r)
      /\ outcome[r] = "running" /\ LeaveCommand(r)
      /\ secrets' \in [WorkDirs -> SUBSET SecretFiles]
  BY LeaveSecretsTyped DEF Interrupt
<1>2. \/ Goto(r, "cleanup") /\ raised' = [raised EXCEPT ![r] = "interrupt"]
      \/ Gone(r, "interrupted") /\ UNCHANGED raised
  BY DEF Interrupt
<1>3. raised' \in [Runs -> {"nothing", "error", "interrupt"}]
  BY <1>2 DEF TypeInv, TypeOK, MemoryOK
<1>4. RestTyped
  BY <1>1, <1>3, LeaveFileTyped, LeaveCommandTyped, LeaveCommandJobs
    DEF TypeInv, TypeOK, MemoryOK, HostOK, StoreOK, RestTyped, store
<1>5. "cleanup" \in Steps \ (ReadsManifest \cup {"manifest"})
  BY DEF Steps, ReadsManifest
<1> QED
  BY <1>1, <1>2, <1>4, <1>5, GotoKeeps, GoneKeeps

LEMMA KillTyped ==
  ASSUME NEW r \in Runs, TypeInv, Kill(r)
  PROVE  TypeInv'
<1>1. /\ UNCHANGED <<memory, work_dir, dirs, markers, store>>
      /\ outcome[r] = "running" /\ LeaveCommand(r) /\ Gone(r, "killed")
      /\ secrets' \in [WorkDirs -> SUBSET SecretFiles]
  BY LeaveSecretsTyped DEF Kill
<1>2. files' \in [WorkDirs -> [Artifacts -> Payload \cup {None}]]
  BY <1>1, LeaveFileTyped DEF Kill
<1>3. RestTyped /\ UNCHANGED <<selected, manifest>>
  BY <1>1, <1>2, LeaveCommandTyped, LeaveCommandJobs
    DEF TypeInv, TypeOK, MemoryOK, HostOK, StoreOK, RestTyped, memory, store
<1> QED
  BY <1>1, <1>3, GoneKeeps

LEMMA JobEndsTyped ==
  ASSUME NEW r \in Runs, TypeInv, JobEnds(r)
  PROVE  TypeInv'
<1>1. /\ UNCHANGED <<control, memory, host, store>>
      /\ job[r] # "none" /\ job' = [job EXCEPT ![r] = "none"]
  BY DEF JobEnds
<1>2. server' \in ServerStates
  <2>1. Argument(r, job[r]) \in Payload \cup {None}
    BY <1>1, ArgumentTyped DEF TypeInv, TypeOK, Equipped
  <2>2. CASE ~Issuable(r, job[r])
    BY <2>2 DEF JobEnds, TypeInv, TypeOK, TsmOK
  <2>3. CASE Issuable(r, job[r])
    BY <2>1, <2>3, AftermathTyped DEF JobEnds, Issuable, TypeInv, TypeOK, TsmOK
  <2> QED
    BY <2>2, <2>3
<1> QED
  BY <1>1, <1>2 DEF TypeInv, TypeOK, ControlOK, MemoryOK, HostOK, TsmOK, StoreOK, Equipped,
                    control, memory, host, store

LEMMA FaultyBlobsTyped ==
  ASSUME NEW blob \in Blob
  PROVE  FaultyBlobs(blob) \subseteq Blob
<1>1. CASE blob.content = None
  BY <1>1 DEF FaultyBlobs
<1>2. CASE blob.content # None
  <2>1. blob.content \in Payload
    BY <1>2 DEF Blob
  <2>2. \A how \in {"altered", "resized"} :
          [blob EXCEPT !.content = [blob.content EXCEPT !.damage = how]] \in Blob
    <3>1. \A how \in {"altered", "resized"} :
            [blob.content EXCEPT !.damage = how] \in Payload
      BY <2>1 DEF Payload, Damage
    <3> QED
      BY <3>1 DEF Blob
  <2>3. [blob EXCEPT !.sha256 = None, !.size = None] \in Blob /\ NoBlob \in Blob
    BY DEF Blob, NoBlob
  <2>4. FaultyBlobs(blob) =
          { [blob EXCEPT !.content = [blob.content EXCEPT !.damage = how]] :
              how \in {"altered", "resized"} }
            \cup { [blob EXCEPT !.sha256 = None, !.size = None], NoBlob }
    BY <1>2 DEF FaultyBlobs
  <2> QED
    BY <2>2, <2>3, <2>4
<1> QED
  BY <1>1, <1>2

LEMMA StoreTyped ==
  ASSUME TypeInv, NEW b \in Backups, NEW p \in BlobParts, PublishBackup(b) \/ DamageBlob(b, p)
  PROVE  TypeInv'
<1>1. UNCHANGED <<control, memory, host, tsm>>
  BY DEF PublishBackup, DamageBlob
<1>2. StoreOK'
  <2>1. CASE PublishBackup(b)
    <3>1. Uploaded(b) \in [BlobParts -> Blob]
      BY DEF Uploaded, UploadFile, Pristine, SizeOf, Blob, Payload, Damage
    <3> QED
      BY <2>1, <3>1 DEF PublishBackup, TypeInv, TypeOK, StoreOK
  <2>2. CASE DamageBlob(b, p)
    <3>1. blobs[b][p] \in Blob
      BY DEF TypeInv, TypeOK, StoreOK
    <3>2. FaultyBlobs(blobs[b][p]) \subseteq Blob
      BY <3>1, FaultyBlobsTyped
    <3>3. blobs' \in [Backups -> [BlobParts -> Blob]]
      BY <2>2, <3>2 DEF DamageBlob, TypeInv, TypeOK, StoreOK
    <3>4. blobFaults' \in 0 .. MaxBlobFaults
      <4>1. MaxBlobFaults \in Nat
        BY RecoveryAssumption
      <4> QED
        BY <2>2, <4>1 DEF DamageBlob, TypeInv, TypeOK, StoreOK
    <3> QED
      BY <3>3, <3>4 DEF StoreOK
  <2> QED
    BY <2>1, <2>2
<1> QED
  BY <1>1, <1>2 DEF TypeInv, TypeOK, ControlOK, MemoryOK, HostOK, TsmOK, Equipped,
                    control, memory, host, tsm

LEMMA LoseWorkFileTyped ==
  ASSUME TypeInv, NEW d \in WorkDirs, NEW p \in Artifacts, LoseWorkFile(d, p)
  PROVE  TypeInv'
<1>1. UNCHANGED <<control, memory, work_dir, dirs, secrets, markers, tsm, store>>
  BY DEF LoseWorkFile
<1>2. files' \in [WorkDirs -> [Artifacts -> Payload \cup {None}]]
  BY DEF LoseWorkFile, TypeInv, TypeOK, HostOK
<1> QED
  BY <1>1, <1>2 DEF TypeInv, TypeOK, ControlOK, MemoryOK, HostOK, TsmOK, StoreOK, Equipped,
                    control, memory, tsm, store

-----------------------------------------------------------------------------
LEMMA StutterTyped ==
  TypeInv /\ UNCHANGED vars => TypeInv'
BY DEF TypeInv, TypeOK, ControlOK, MemoryOK, HostOK, TsmOK, StoreOK, Equipped,
       vars, control, memory, host, tsm, store

LEMMA NextTyped ==
  TypeInv /\ [Next]_vars => TypeInv'
<1> SUFFICES ASSUME TypeInv, [Next]_vars PROVE TypeInv'
  OBVIOUS
<1>1. ASSUME NEW r \in Runs, RunStep(r) PROVE TypeInv'
  BY <1>1, FenceTyped, ConfirmFencingTyped, PreflightTyped, ResolveManifestTyped,
     AcquireManifestTyped, CheckPropertiesTyped, DownloadTyped, VerifyArtifactTyped,
     CommandsTyped, ArtifactMissingTyped, SecretsTyped, CleanUpSecretsTyped,
     ValidateHealthTyped, IoFailsTyped, TsmFailsTyped
    DEF RunStep
<1>2. ASSUME NEW r \in Runs, Launch(r) \/ Interrupt(r) \/ Kill(r) \/ JobEnds(r)
      PROVE  TypeInv'
  BY <1>2, LaunchTyped, InterruptTyped, KillTyped, JobEndsTyped
<1>3. ASSUME NEW b \in Backups, PublishBackup(b) PROVE TypeInv'
  BY <1>3, StoreTyped DEF BlobParts
<1>4. ASSUME NEW b \in Backups, NEW p \in BlobParts, DamageBlob(b, p) PROVE TypeInv'
  BY <1>4, StoreTyped
<1>5. ASSUME NEW d \in WorkDirs, NEW p \in Artifacts, LoseWorkFile(d, p) PROVE TypeInv'
  BY <1>5, LoseWorkFileTyped
<1>6. CASE UNCHANGED vars
  BY <1>6, StutterTyped
<1> QED
  BY <1>1, <1>2, <1>3, <1>4, <1>5, <1>6 DEF Next

(* Every variable stays in its range, every run that is active or has a
   command in TSM owns an existing work directory, and none dereferences a
   manifest it does not have: the attributes of a RecoveryManager are set
   before the stage callbacks read them. *)
THEOREM TypeCorrect == Spec => []TypeInv
BY InitTyped, NextTyped, PTL DEF Spec

THEOREM TypeOKHolds == Spec => []TypeOK
<1>1. TypeInv => TypeOK
  BY DEF TypeInv
<1> QED
  BY <1>1, TypeCorrect, PTL
=============================================================================

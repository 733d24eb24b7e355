--------------------------- MODULE RecoverySafety ---------------------------
(***************************************************************************)
(* What RecoveryManager must never do, and what it must eventually do.     *)
(***************************************************************************)
EXTENDS RecoveryManager

(* Every variable stays in its range, group by group. *)
ControlOK ==
  /\ outcome \in [Runs -> Outcomes]
  /\ current_state \in [Runs -> RecoveryStates]
  /\ completed_steps \in [Runs -> Seq(RecoveryStates)]
  /\ failed_step \in [Runs -> Stages \cup {"RECOVERY_INITIALIZATION", None}]
  /\ step \in [Runs -> Steps]

MemoryOK ==
  /\ artifact \in [Runs -> Artifacts]
  /\ fencing_result \in [Runs -> FencingMethods \cup {None}]
  /\ selected \in [Runs -> Backups \cup {None}]
  /\ manifest \in [Runs -> Payload \cup {None}]
  /\ health_result \in [Runs -> HealthResults \cup {None}]
  /\ raised \in [Runs -> {"nothing", "error", "interrupt"}]

HostOK ==
  /\ work_dir \in [Runs -> WorkDirs \cup {None}]
  /\ dirs \subseteq WorkDirs
  /\ files \in [WorkDirs -> [Artifacts -> Payload \cup {None}]]
  /\ secrets \in [WorkDirs -> SUBSET SecretFiles]
  /\ markers \subseteq dirs

TsmOK ==
  /\ server \in ServerStates
  /\ job \in [Runs -> TsmCommands \cup {"none"}]

StoreOK ==
  /\ blobs \in [Backups -> [BlobParts -> Blob]]
  /\ blobFaults \in 0 .. MaxBlobFaults

TypeOK == ControlOK /\ MemoryOK /\ HostOK /\ TsmOK /\ StoreOK

-----------------------------------------------------------------------------
(* The result a run reports says how far it came: the completed stages are
   the first ones of the fixed order, a failed run names the very next one
   (or the initialization, if it had no work directory), and only a run
   that completed all of them reports SUCCESS. *)
InStage(r, k) ==
  /\ completed_steps[r] = <<"DISASTER_DECLARED">> \o SubSeq(StageOrder, 1, k - 1)
  /\ failed_step[r] = StageOrder[k]

ReportAccurate ==
  \A r \in Runs :
    /\ outcome[r] = "running" =>
         \E k \in 1 .. 11 : InStage(r, k) /\ current_state[r] = StageOrder[k]
    /\ outcome[r] = "FAILED" =>
         /\ current_state[r] = "FAILED"
         /\ IF work_dir[r] = None
            THEN /\ failed_step[r] = "RECOVERY_INITIALIZATION"
                 /\ completed_steps[r] = <<"DISASTER_DECLARED">>
            ELSE \E k \in 1 .. 11 : InStage(r, k)
    /\ outcome[r] = "SUCCESS" =>
         /\ current_state[r] = "RECOVERY_COMPLETED"
         /\ failed_step[r] = None
         /\ completed_steps[r] =
              <<"DISASTER_DECLARED">> \o StageOrder \o <<"RECOVERY_COMPLETED">>

(* No step changes the DR server, not even a command that outlives its
   client, unless a run had fencing confirmed, the preflight, the manifest
   and both artifacts validated; and what the change installs comes from
   the backup of that run. *)
Gates == {StageOrder[i] : i \in 1 .. 5}
GateOpen(r) ==
  /\ fencing_result[r] # None
  /\ manifest[r] # None
  /\ Gates \subseteq {completed_steps[r][i] : i \in 1 .. Len(completed_steps[r])}

DestructionGated ==
  [][server' # server =>
       \E r \in Runs :
         /\ GateOpen(r)
         /\ \A field \in {"repo", "pendingSettings"} :
              server'[field] \notin {server[field], None}
                => server'[field].backup = manifest[r].backup]_vars

(* Never restore an artifact whose integrity has not been validated: the
   server only ever holds verified bytes (or half of a verified backup),
   each in its own place, whatever the store does between the checks. *)
IntactOf(payload, p) == payload # None => payload.part = p /\ payload.damage = "none"
HoldsVerified(s) ==
  /\ s.repo # None => s.repo.part = "backup.tsbak" /\ s.repo.damage \in {"none", "torn"}
  /\ IntactOf(s.settings, "settings.json")
  /\ IntactOf(s.pendingSettings, "settings.json")
RestoredContentVerified == HoldsVerified(server)

(* A server that serves users is either as it was before any recovery or
   carries repository, settings and certificate of one single backup: no
   failure, interrupt or crash, and no retry after one, makes a mixture
   visible.  Holds when runs do not overlap and commands do not finish late. *)
Untouched == /\ server.repo = None /\ server.settings = None
Recovered(s, b) ==
  /\ s.running /\ s.tls
  /\ s.repo = Pristine(b, "backup.tsbak")
  /\ s.settings = Pristine(b, "settings.json")
NeverServesMixture ==
  server.running => Untouched \/ \E b \in Backups : Recovered(server, b)

(* When a run reports SUCCESS the server runs, with exactly the backup of
   the manifest of that run (runs that do not overlap, no late commands). *)
SuccessDelivered ==
  [][\A r \in Runs :
       outcome'[r] = "SUCCESS" /\ outcome[r] # "SUCCESS"
         => Recovered(server', manifest[r].backup)]_vars

(* Certificate and private key are on disk only while their run is between
   writing and deleting them, unless the process was killed in between:
   success, every error and an interrupt all remove them. *)
SecretsConfined ==
  \A d \in WorkDirs : secrets[d] # {} =>
    \E r \in Runs :
      /\ work_dir[r] = d
      /\ \/ outcome[r] = "killed"
         \/ outcome[r] = "running"
            /\ step[r] \in {"key", "external-ssl", "apply", "cleanup"}

(* No two runs ever use the same work directory, and a directory carries
   the failure marker exactly when the run that owns it reported FAILED. *)
WorkspaceExclusive ==
  /\ \A q, r \in Runs : work_dir[q] # None /\ work_dir[q] = work_dir[r] => q = r
  /\ markers = {work_dir[r] : r \in {q \in Runs : outcome[q] = "FAILED"}} \ {None}

-----------------------------------------------------------------------------
(* A run that was started comes to an end, whatever fails on the way. *)
RunsEnd ==
  \A r \in Runs : outcome[r] = "running" ~> outcome[r] # "running"
=============================================================================

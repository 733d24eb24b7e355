------------------------------ MODULE DRSystem ------------------------------
(***************************************************************************)
(* Backup pipelines of the production server and failovers on the DR       *)
(* server, which meet in one container and nowhere else: a pipeline writes *)
(* file after file, a failover lists and reads whenever the operator wants *)
(* it to, and neither knows of the other.                                  *)
(***************************************************************************)
EXTENDS RecoverySafety

CONSTANTS
  PipelineFaults,         \* Faults of the production side
  PipelineVerifyContent,  \* its backup.verify_remote_content_sha256
  ConnectorKeywords       \* see BackupManager

VARIABLES
  status, pipeline_step, part, prefix, remote_verified, cleanup_status,
  staging_dirs, staging_files, staging_markers

Pipeline == INSTANCE BackupManager WITH
  Faults <- PipelineFaults,
  VerifyContent <- PipelineVerifyContent,
  step <- pipeline_step,
  dirs <- staging_dirs,
  files <- staging_files,
  markers <- staging_markers

production == <<status, pipeline_step, part, prefix, remote_verified, cleanup_status,
                staging_dirs, staging_files, staging_markers>>

SystemInit == Init /\ Pipeline!Init

(* A step of the production server. *)
BackUp ==
  /\ Pipeline!Next
  /\ UNCHANGED <<control, memory, host, tsm, blobFaults>>

(* A step of the DR server. *)
FailOver ==
  /\ \E r \in Runs : Launch(r) \/ RunStep(r) \/ Interrupt(r) \/ Kill(r) \/ JobEnds(r)
  /\ UNCHANGED production

SystemNext == BackUp \/ FailOver

(* Each side keeps the fairness it has alone. *)
SystemSpec ==
  /\ SystemInit
  /\ [][SystemNext]_<<vars, production>>
  /\ Fairness /\ Pipeline!Fairness

-----------------------------------------------------------------------------
(* A failover that finds no manifest finds none because no pipeline has ever
   reported SUCCESS.  One that refuses the backup it found does so because
   the DR host's configuration or clock is at odds with its manifest, and
   then before anything else of it is looked at, or because bytes were
   changed on their way into the container.  What it never refuses is a
   backup whose pipeline is still uploading, verifying or cleaning up, or
   has died half way: a manifest that can be listed is a backup that is
   complete. *)
Mangled(b) ==
  \E p \in BlobParts :
    /\ blobs[b][p] # NoBlob
    /\ blobs[b][p] # UploadFile(Pristine(b, p), Pristine(b, p))

RefusalsJustified ==
  [][\A r \in Runs :
       outcome'[r] = "FAILED" /\ outcome[r] # "FAILED"
         /\ failed_step[r] \in {"MANIFEST_VALIDATED", "BACKUP_ARTIFACTS_VALIDATED"}
         => IF selected[r] = None
            THEN \A p \in Backups : status[p] # "SUCCESS"
            ELSE \/ Mangled(selected[r])
                 \/ step[r] = "manifest" /\ selected[r] \in Disputed]_<<vars, production>>

(* When a failover without --manifest-blob settles on a backup, no pipeline
   that started later has reported SUCCESS by then: what is lost is at most
   what was written since the last good backup began. *)
FreshestListed ==
  [][\A r \in Runs :
       selected'[r] # selected[r]
         => \A p \in Backups : status[p] = "SUCCESS" => selected'[r] >= prefix[p]
    ]_<<vars, production>>
=============================================================================

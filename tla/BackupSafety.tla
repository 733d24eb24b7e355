---------------------------- MODULE BackupSafety ----------------------------
(***************************************************************************)
(* What BackupManager must never do, and what it must eventually do.       *)
(***************************************************************************)
EXTENDS BackupManager

(* Every variable stays in its range. *)
TypeOK ==
  /\ status \in [Backups -> Statuses]
  /\ step \in [Backups -> Steps]
  /\ part \in [Backups -> BlobParts]
  /\ prefix \in [Backups -> Backups \cup {None}]
  /\ remote_verified \in [Backups -> BOOLEAN]
  /\ cleanup_status \in [Backups -> {"SKIPPED", "SUCCESS", "FAILED"}]
  /\ dirs \subseteq Backups
  /\ files \in [Backups -> [BlobParts -> Payload \cup {None}]]
  /\ markers \subseteq dirs
  /\ blobs \in [Backups -> [BlobParts -> Blob]]

Complete(p) ==
  \A x \in BlobParts :
    blobs[prefix[p]][x] = UploadFile(Pristine(p, x), Pristine(p, x))

(* A manifest is never in the store without the artifacts it lists: as soon
   as a recovery can find it, both blobs next to it carry the digests that
   were recorded when the files were hashed, whatever happened to the
   pipeline.  (Their bytes, and so their sizes, may still be wrong:
   verification comes later.) *)
ManifestNeverDangles ==
  \A s \in Backups :
    LET found == blobs[s]["manifest.json"].content
    IN  found # None =>
          \A x \in Artifacts : blobs[s][x].sha256 = Pristine(found.backup, x)

(* A pipeline that reports SUCCESS left a complete and undamaged backup in
   the store, if the content check is configured. *)
SuccessIsComplete ==
  \A p \in Backups : status[p] = "SUCCESS" => remote_verified[p] /\ Complete(p)

(* Never delete local staging before remote verification succeeds: no step,
   not even a cleanup that stops half way or is killed, removes a staged
   file whose pipeline has not seen everything safely in the store. *)
StagingOutlivesUpload ==
  [][\A s \in Backups, x \in BlobParts :
       files[s][x] # None /\ files'[s][x] = None
         => \E p \in Backups : prefix[p] = s /\ remote_verified[p] /\ Complete(p)]_vars

(* A directory (named after its pipeline) carries the failure marker only if
   that pipeline failed, and every pipeline that failed after it had created one left
   the marker there. *)
FailuresMarked ==
  /\ \A s \in markers : status[s] = "ERROR"
  /\ \A p \in Backups :
       status[p] = "ERROR" /\ prefix[p] \in dirs => prefix[p] \in markers

(* Pipelines with one name never work in one staging directory: the mkdir
   lets one of them in, even if the other was still in its preflight when
   that one finished and removed the directory. *)
StagingNotShared ==
  \A p, q \in Backups :
    p # q /\ prefix[p] = prefix[q] /\ step[p] \notin {"none", "preflight", "workdir"}
      => step[q] \in {"none", "preflight", "workdir"}

(* A pipeline that was started comes to an end. *)
PipelinesEnd ==
  \A p \in Backups : status[p] = "running" ~> status[p] # "running"

-----------------------------------------------------------------------------
(* What the documentation and the tests say and the code does not do. *)

(* tests/test_backup_manager.py, test_execute_backup_pipeline_success: with
   nothing failing, a pipeline reports SUCCESS. *)
FaultFreeBackupSucceeds == \A p \in Backups : status[p] # "ERROR"
=============================================================================

-------------------------- MODULE BackupRefinement --------------------------
(* How BackupManager implements BackupPromise. *)
EXTENDS BackupSafety

(* How a pipeline's status looks from outside. *)
ReportFor(s) ==
  CASE s \in {"SUCCESS", "ERROR"} -> s
    [] s \in {"interrupted", "killed"} -> "aborted"
    [] OTHER -> "open"

Intact(p) == \A x \in BlobParts : files[p][x] = Pristine(p, x)
InStore(p) ==
  \A x \in BlobParts : blobs[p][x] = UploadFile(Pristine(p, x), Pristine(p, x))

reportOf == [p \in Backups |-> ReportFor(status[p])]
localOf == [p \in Backups |-> Intact(p)]
listedOf == [p \in Backups |-> blobs[p]["manifest.json"].content # None]
remoteOf == [p \in Backups |-> InStore(p)]

Promise == INSTANCE BackupPromise WITH
  Pipelines <- Backups,
  report <- reportOf,
  local <- localOf,
  listed <- listedOf,
  remote <- remoteOf

(* Every behaviour of the pipelines, whatever fails, is interrupted or
   killed, is one of BackupPromise: no good copy is given up before there is
   another one, a backup that can be found never changes, and SUCCESS comes
   only with a good copy in the container. *)
KeepsBackupPromise == Promise!Spec
=============================================================================

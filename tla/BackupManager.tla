--------------------------- MODULE BackupManager ---------------------------
(***************************************************************************)
(* backup_manager.py: backup pipelines of the production server, started   *)
(* one after another and possibly still running side by side.  Pipeline p  *)
(* is the p-th one started; it stages files in a directory of its own and  *)
(* uploads them below a prefix of the same name, backups/<second>_<run id>.*)
(*                                                                         *)
(* A definition that ends in _Slip is a plausible mistake in the one that  *)
(* follows it; it is no part of Spec and shows which property catches it.  *)
(***************************************************************************)
EXTENDS BlobStorage

CONSTANTS
  Faults,             \* which kinds of trouble the environment makes
  VerifyContent,      \* backup.verify_remote_content_sha256
  ConnectorKeywords   \* the keywords TSMConnector() accepts

BackupFaultKinds ==
  {"io", "interrupt", "kill", "upload", "rmtree", "marker", "collision"}

ASSUME BackupAssumption ==
  /\ Faults \subseteq BackupFaultKinds
  /\ VerifyContent \in BOOLEAN
  /\ ConnectorKeywords \subseteq STRING

VARIABLES
  status,           \* how each pipeline stands, or ended
  step,             \* its next call
  part,             \* the file the upload or verification loop is at
  prefix,           \* its run_dir_name, as the pipeline that had it first
  remote_verified,  \* set when every remote file passed verification
  cleanup_status,   \* what _execute_local_cleanup returned
  dirs,             \* staging directories that exist
  files,            \* the files in each staging directory
  markers,          \* staging directories with a BACKUP_FAILED file
  blobs             \* the container

staging == <<dirs, files, markers>>
verdicts == <<remote_verified, cleanup_status>>
vars == <<status, step, part, prefix, verdicts, staging, blobs>>

Statuses == {"not started", "running", "SUCCESS", "ERROR", "interrupted", "killed"}
Steps == {"none", "preflight", "workdir", "export", "backup", "manifest",
          "upload", "verify", "cleanup"}

(* Both loops take the artifacts in this order and the manifest last. *)
NextPart_Slip(x) == IF x = "backup.tsbak" THEN "manifest.json" ELSE "settings.json"
NextPart(x) == IF x = "backup.tsbak" THEN "settings.json" ELSE "manifest.json"

EmptyDir == [x \in BlobParts |-> None]

Init ==
  /\ status = [p \in Backups |-> "not started"]
  /\ step = [p \in Backups |-> "none"]
  /\ part = [p \in Backups |-> "backup.tsbak"]
  /\ prefix = [p \in Backups |-> None]
  /\ remote_verified = [p \in Backups |-> FALSE]
  /\ cleanup_status = [p \in Backups |-> "SKIPPED"]
  /\ dirs = {}
  /\ files = [s \in Backups |-> EmptyDir]
  /\ markers = {}
  /\ blobs = [s \in Backups |-> [x \in BlobParts |-> NoBlob]]

-----------------------------------------------------------------------------
Active(p, s) == status[p] = "running" /\ step[p] = s

Goto(p, s) == step' = [step EXCEPT ![p] = s] /\ UNCHANGED status

End(p, how) ==
  /\ status' = [status EXCEPT ![p] = how]
  /\ step' = [step EXCEPT ![p] = "none"]

(* A directory of the pipeline's name is marked if it exists. *)
Marked_Slip(p) == {prefix[p]}
Marked(p) == {prefix[p]} \cap dirs

(* No marker; a retry without a limit. *)
RaiseUnmarked_Slip(p) == End(p, "ERROR") /\ UNCHANGED markers
RaiseRetried_Slip(p) == UNCHANGED <<status, step, markers>>

(* The handler of execute_backup_pipeline: the directory is marked (best
   effort), and the error goes up. *)
Raise(p) ==
  /\ End(p, "ERROR")
  /\ \/ markers' = markers \cup Marked(p)
     \/ "marker" \in Faults /\ UNCHANGED markers

(* __init__ names the pipeline.  Two of them share a name when they are
   started with one run id within one second. *)
Launch(p) ==
  /\ status[p] = "not started"
  /\ \A q \in Backups : q < p => status[q] # "not started"
  /\ IF {"config", "logger"} \subseteq ConnectorKeywords
     THEN \E name \in {p} \cup {q \in Backups : "collision" \in Faults
                                  /\ prefix[q] = q /\ Active(q, "preflight")} :
            /\ prefix' = [prefix EXCEPT ![p] = name]
            /\ status' = [status EXCEPT ![p] = "running"]
            /\ step' = [step EXCEPT ![p] = "preflight"]
     ELSE End(p, "ERROR") /\ UNCHANGED prefix
  /\ UNCHANGED <<part, verdicts, staging, blobs>>

Preflight(p) ==
  /\ Active(p, "preflight")
  /\ Goto(p, "workdir")
  /\ UNCHANGED <<part, prefix, verdicts, staging, blobs>>

(* exist_ok=True. *)
PrepareWorkDirectory_Slip(p) ==
  /\ Active(p, "workdir")
  /\ Goto(p, "export")
  /\ dirs' = dirs \cup {prefix[p]}
  /\ UNCHANGED <<part, prefix, verdicts, files, markers, blobs>>

(* The check for the directory and a mkdir that fails if it exists refuse
   the same pipelines, so they are one step. *)
PrepareWorkDirectory(p) ==
  /\ Active(p, "workdir")
  /\ IF prefix[p] \in dirs
     THEN Raise(p) /\ UNCHANGED dirs
     ELSE Goto(p, "export") /\ dirs' = dirs \cup {prefix[p]} /\ UNCHANGED markers
  /\ UNCHANGED <<part, prefix, verdicts, files, blobs>>

(* A file is made, checked and hashed: from here on Pristine(p, x) stands
   for the digest that goes into the metadata and the manifest. *)
Produce(p, s, x, next) ==
  /\ Active(p, s)
  /\ files[prefix[p]][x] = None
  /\ files' = [files EXCEPT ![prefix[p]][x] = Pristine(p, x)]
  /\ Goto(p, next)
  /\ UNCHANGED <<part, prefix, verdicts, dirs, markers, blobs>>

ExportSettings(p) == Produce(p, "export", "settings.json", "backup")
CreateRepositoryBackup(p) == Produce(p, "backup", "backup.tsbak", "manifest")
CreateManifest(p) == Produce(p, "manifest", "manifest.json", "upload")

-----------------------------------------------------------------------------
(* What one upload can put into the store: the file, or bytes that were
   changed since the file was hashed or on their way. *)
Uploads(p) ==
  LET file == files[prefix[p]][part[p]]
      checksum == Pristine(p, part[p])
  IN  { UploadFile(sent, checksum) :
          sent \in {file} \cup (IF "upload" \in Faults
                                THEN {[file EXCEPT !.damage = "altered"],
                                      [file EXCEPT !.damage = "resized"]}
                                ELSE {}) }

Store(p) ==
  \E blob \in Uploads(p) : blobs' = [blobs EXCEPT ![prefix[p]][part[p]] = blob]

(* _upload_artifacts and the upload of the manifest. *)
Upload(p) ==
  /\ Active(p, "upload")
  /\ Store(p)
  /\ IF part[p] = "manifest.json"
     THEN /\ part' = [part EXCEPT ![p] = "backup.tsbak"]
          /\ Goto(p, "verify")
     ELSE /\ part' = [part EXCEPT ![p] = NextPart(@)]
          /\ UNCHANGED <<status, step>>
  /\ UNCHANGED <<prefix, verdicts, staging>>

(* Nothing would be verified. *)
Verify_Slip(p) ==
  /\ Active(p, "verify")
  /\ remote_verified' = [remote_verified EXCEPT ![p] = TRUE]
  /\ Goto(p, "cleanup")
  /\ UNCHANGED <<part, prefix, cleanup_status, staging, blobs>>

(* _verify_remote_artifacts and the verification of the manifest. *)
Verify(p) ==
  /\ Active(p, "verify")
  /\ IF VerifyRemoteBlob(blobs[prefix[p]][part[p]], Pristine(p, part[p]), VerifyContent)
     THEN /\ UNCHANGED markers
          /\ IF part[p] = "manifest.json"
             THEN /\ remote_verified' = [remote_verified EXCEPT ![p] = TRUE]
                  /\ Goto(p, "cleanup") /\ UNCHANGED part
             ELSE /\ part' = [part EXCEPT ![p] = NextPart(@)]
                  /\ UNCHANGED <<status, step, remote_verified>>
     ELSE Raise(p) /\ UNCHANGED <<part, remote_verified>>
  /\ UNCHANGED <<prefix, cleanup_status, dirs, files, blobs>>

(* rmtree deletes file after file; it may stop at any of them. *)
RemovedSome(p) ==
  \E kept \in SUBSET BlobParts :
    files' = [files EXCEPT ![prefix[p]] =
                [x \in BlobParts |-> IF x \in kept THEN @[x] ELSE None]]

(* The pipeline succeeds whether or not its directory could be removed. *)
CleanUp(p) ==
  /\ Active(p, "cleanup")
  /\ \/ /\ dirs' = dirs \ {prefix[p]}
        /\ markers' = markers \ {prefix[p]}
        /\ files' = [files EXCEPT ![prefix[p]] = EmptyDir]
        /\ cleanup_status' = [cleanup_status EXCEPT ![p] = "SUCCESS"]
     \/ /\ "rmtree" \in Faults
        /\ RemovedSome(p)
        /\ cleanup_status' = [cleanup_status EXCEPT ![p] = "FAILED"]
        /\ UNCHANGED <<dirs, markers>>
  /\ End(p, "SUCCESS")
  /\ UNCHANGED <<part, prefix, remote_verified, blobs>>

-----------------------------------------------------------------------------
FileOf == [export |-> "settings.json", backup |-> "backup.tsbak",
           manifest |-> "manifest.json"]

(* What a step that is cut short leaves: a file, half of it maybe, an upload
   whose answer was lost, half a cleanup. *)
Unfinished(p) ==
  \/ UNCHANGED <<files, blobs>>
  \/ /\ step[p] \in DOMAIN FileOf
     /\ \E how \in {"torn", "none"} :
          files' = [files EXCEPT ![prefix[p]][FileOf[step[p]]] =
                      Damaged(p, FileOf[step[p]], how)]
     /\ UNCHANGED blobs
  \/ step[p] = "upload" /\ Store(p) /\ UNCHANGED files
  \/ step[p] = "cleanup" /\ RemovedSome(p) /\ UNCHANGED blobs

(* The staging directory would be removed on every way out. *)
IoFails_Slip(p) ==
  /\ "io" \in Faults
  /\ status[p] = "running" /\ step[p] # "cleanup"
  /\ files' = [files EXCEPT ![prefix[p]] = EmptyDir]
  /\ Raise(p)
  /\ UNCHANGED <<part, prefix, verdicts, dirs, blobs>>

(* A TSM command, a file operation, a check or a request fails. *)
IoFails(p) ==
  /\ "io" \in Faults
  /\ status[p] = "running" /\ step[p] # "cleanup"
  /\ Unfinished(p)
  /\ Raise(p)
  /\ UNCHANGED <<part, prefix, verdicts, dirs>>

(* KeyboardInterrupt passes the handler: no marker.  A kill does the same. *)
Abort(p, how) ==
  /\ status[p] = "running"
  /\ Unfinished(p)
  /\ End(p, how)
  /\ UNCHANGED <<part, prefix, verdicts, dirs, markers>>

Interrupt(p) == "interrupt" \in Faults /\ Abort(p, "interrupted")
Kill(p) == "kill" \in Faults /\ Abort(p, "killed")

-----------------------------------------------------------------------------
PipelineStep(p) ==
  \/ Preflight(p) \/ PrepareWorkDirectory(p)
  \/ ExportSettings(p) \/ CreateRepositoryBackup(p) \/ CreateManifest(p)
  \/ Upload(p) \/ Verify(p) \/ CleanUp(p) \/ IoFails(p)

Next == \E p \in Backups : Launch(p) \/ PipelineStep(p) \/ Interrupt(p) \/ Kill(p)

(* TSM commands have timeouts and Azure retries are bounded: a pipeline
   that runs takes its next step.  Nobody has to start one. *)
Fairness == \A p \in Backups : WF_vars(PipelineStep(p))

Spec == Init /\ [][Next]_vars /\ Fairness
=============================================================================

---------------------------- MODULE BackupProofs ----------------------------
(***************************************************************************)
(* What BackupSafety states of the pipelines, for any number of them and   *)
(* every choice of faults that leaves the statement its meaning.           *)
(***************************************************************************)
EXTENDS BackupRefinement, TLAPS

(* The pipeline has made its directory. *)
Inside(p) == step[p] \notin {"none", "preflight", "workdir"}

(* What a pipeline has staged before a step. *)
StagedBefore(s) ==
  CASE s = "backup" -> {"settings.json"}
    [] s = "manifest" -> Artifacts
    [] s \in {"upload", "verify", "cleanup"} -> BlobParts
    [] OTHER -> {}

(* A running pipeline has a name, inside its directory it has the directory,
   and what it staged is there as it was made. *)
Control(p) ==
  /\ status[p] = "running" <=> step[p] # "none"
  /\ status[p] = "running" => prefix[p] \in Backups
  /\ Inside(p) => prefix[p] \in dirs
  /\ \A x \in StagedBefore(step[p]) : files[prefix[p]][x] = Pristine(p, x)

StagingInv == TypeOK /\ StagingNotShared /\ \A p \in Backups : Control(p)

-----------------------------------------------------------------------------
(* A step of pipeline p, as far as staging goes: the others stay what they
   are, and so do their directories. *)
Local(p) ==
  /\ \A q \in Backups \ {p} : /\ status'[q] = status[q] /\ step'[q] = step[q]
                              /\ prefix'[q] = prefix[q]
  /\ \/ UNCHANGED files /\ dirs \subseteq dirs'
     \/ /\ Inside(p)
        /\ \A s \in Backups \ {prefix[p]} : files'[s] = files[s] /\ (s \in dirs => s \in dirs')
  /\ Inside(p)' => \/ Inside(p) /\ prefix'[p] = prefix[p]
                   \/ prefix'[p] \notin dirs

LEMMA LocalKeeps ==
  ASSUME StagingInv, NEW p \in Backups, TypeOK', Local(p), Control(p)'
  PROVE  StagingInv'
<1>1. ASSUME NEW q \in Backups \ {p}
      PROVE  Control(q)'
  <2>1. /\ status'[q] = status[q] /\ step'[q] = step[q] /\ prefix'[q] = prefix[q]
        /\ Control(q)
    BY <1>1 DEF Local, StagingInv
  <2>2. CASE Inside(q)
    <3>1. Inside(p) => prefix[q] # prefix[p]
      BY <1>1, <2>2 DEF StagingInv, StagingNotShared, Inside
    <3>2. prefix[q] \in Backups /\ prefix[q] \in dirs
      BY <2>1, <2>2 DEF Control, Inside
    <3>3. files'[prefix[q]] = files[prefix[q]] /\ prefix[q] \in dirs'
      BY <3>1, <3>2 DEF Local
    <3> QED
      BY <2>1, <3>3 DEF Control, Inside
  <2>3. CASE ~Inside(q)
    <3>1. StagedBefore(step'[q]) = {}
      BY <2>1, <2>3 DEF Inside, StagedBefore
    <3> QED
      BY <2>1, <2>3, <3>1 DEF Control, Inside
  <2> QED
    BY <2>2, <2>3
<1>2. ASSUME NEW q \in Backups \ {p}, Inside(p)', prefix'[p] = prefix'[q]
      PROVE  ~Inside(q)'
  <2>1. step'[q] = step[q] /\ prefix'[q] = prefix[q]
    BY <1>2 DEF Local
  <2>2. CASE Inside(p) /\ prefix'[p] = prefix[p]
    BY <1>2, <2>1, <2>2 DEF StagingInv, StagingNotShared, Inside
  <2>3. CASE prefix'[p] \notin dirs
    BY <1>2, <2>1, <2>3 DEF StagingInv, Control, Inside
  <2> QED
    BY <1>2, <2>2, <2>3 DEF Local
<1>3. StagingNotShared'
  <2>1. ASSUME NEW a \in Backups, NEW b \in Backups, a # b, prefix'[a] = prefix'[b], Inside(a)'
        PROVE  ~Inside(b)'
    <3>1. CASE a = p
      BY <1>2, <2>1, <3>1
    <3>2. CASE b = p
      BY <1>2, <2>1, <3>2
    <3>3. CASE a # p /\ b # p
      BY <2>1, <3>3 DEF Local, StagingInv, StagingNotShared, Inside
    <3> QED
      BY <3>1, <3>2, <3>3
  <2> QED
    BY <2>1 DEF StagingNotShared, Inside
<1>4. \A q \in Backups : Control(q)'
  BY <1>1
<1> QED
  BY <1>3, <1>4 DEF StagingInv

(* How a pipeline moves on is expanded everywhere. *)
USE DEF Active, Goto, End, staging, verdicts

(* A payload stays one, however damaged, and so does what is uploaded. *)
LEMMA PayloadsTyped ==
  ASSUME NEW p \in Backups, NEW x \in BlobParts, NEW how \in Damage
  PROVE  /\ Pristine(p, x) \in Payload /\ Damaged(p, x, how) \in Payload
         /\ Pristine(p, x) # None
BY NoneAssumption DEF Pristine, Damaged, Payload, Damage

LEMMA UploadsTyped ==
  ASSUME StagingInv, NEW p \in Backups, step[p] = "upload", NEW blob \in Uploads(p)
  PROVE  /\ blob \in Blob
         /\ blob.content \in Payload /\ blob.content.backup = p
         /\ blob.sha256 = Pristine(p, part[p])
<1>1. part[p] \in BlobParts
  BY DEF StagingInv, TypeOK
<1>2. files[prefix[p]][part[p]] = Pristine(p, part[p])
  BY <1>1 DEF StagingInv, Control, StagedBefore
<1>3. PICK sent \in {Damaged(p, part[p], how) : how \in {"none", "altered", "resized"}} :
        blob = UploadFile(sent, Pristine(p, part[p]))
  <2> DEFINE file == Pristine(p, part[p])
  <2>1. /\ file = Damaged(p, part[p], "none")
        /\ [file EXCEPT !.damage = "altered"] = Damaged(p, part[p], "altered")
        /\ [file EXCEPT !.damage = "resized"] = Damaged(p, part[p], "resized")
    BY DEF Pristine, Damaged
  <2>2. PICK sent \in {file, [file EXCEPT !.damage = "altered"],
                       [file EXCEPT !.damage = "resized"]} : blob = UploadFile(sent, file)
    <3> HIDE DEF file
    <3>1. files[prefix[p]][part[p]] = file
      BY <1>2 DEF file
    <3> QED
      BY <3>1 DEF Uploads, file
  <2>3. sent \in {Damaged(p, part[p], how) : how \in {"none", "altered", "resized"}}
    BY <2>1, <2>2
  <2> QED
    BY <2>2, <2>3
<1>4. sent \in Payload /\ sent.backup = p
  BY <1>1, <1>3 DEF Damaged, Payload, Damage
<1>5. SizeOf(sent) \in {1, 2}
  BY DEF SizeOf
<1> QED
  BY <1>1, <1>3, <1>4, <1>5, PayloadsTyped DEF UploadFile, Blob, Damage

(* Raising changes nothing but the outcome and the marker. *)
LEMMA RaiseTyped ==
  ASSUME TypeOK, NEW p \in Backups, Raise(p)
  PROVE  /\ status' \in [Backups -> Statuses] /\ step' \in [Backups -> Steps]
         /\ markers' \subseteq dirs
         /\ status'[p] = "ERROR" /\ step'[p] = "none"
         /\ \A q \in Backups \ {p} : status'[q] = status[q] /\ step'[q] = step[q]
BY DEF TypeOK, Raise, Marked, Statuses, Steps

LEMMA LaunchStages ==
  ASSUME StagingInv, NEW p \in Backups, Launch(p)
  PROVE  StagingInv'
<1>1. CASE End(p, "ERROR") /\ UNCHANGED prefix
  <2>1. TypeOK'
    BY <1>1 DEF StagingInv, TypeOK, Launch, Statuses, Steps
  <2>2. Local(p)
    BY <1>1 DEF StagingInv, TypeOK, Launch, Local, Inside
  <2>3. Control(p)'
    BY <1>1 DEF StagingInv, TypeOK, Control, Launch, Inside, StagedBefore
  <2> QED
    BY <2>1, <2>2, <2>3, LocalKeeps
<1>2. ASSUME NEW name \in Backups,
             prefix' = [prefix EXCEPT ![p] = name],
             status' = [status EXCEPT ![p] = "running"],
             step' = [step EXCEPT ![p] = "preflight"]
      PROVE  StagingInv'
  <2>1. TypeOK'
    BY <1>2 DEF StagingInv, TypeOK, Launch, Statuses, Steps
  <2>2. Local(p)
    BY <1>2 DEF StagingInv, TypeOK, Launch, Local, Inside
  <2>3. Control(p)'
    BY <1>2 DEF StagingInv, TypeOK, Control, Inside, StagedBefore
  <2> QED
    BY <2>1, <2>2, <2>3, LocalKeeps
<1> QED
  BY <1>1, <1>2 DEF Launch

LEMMA PreflightStages ==
  ASSUME StagingInv, NEW p \in Backups, Preflight(p)
  PROVE  StagingInv'
<1>1. TypeOK'
  BY DEF StagingInv, TypeOK, Preflight, Steps
<1>2. Local(p)
  BY DEF StagingInv, TypeOK, Preflight, Local, Inside
<1>3. Control(p)'
  BY DEF StagingInv, TypeOK, Control, Preflight, Inside, StagedBefore
<1> QED
  BY <1>1, <1>2, <1>3, LocalKeeps

LEMMA PrepareWorkDirectoryStages ==
  ASSUME StagingInv, NEW p \in Backups, PrepareWorkDirectory(p)
  PROVE  StagingInv'
<1>1. TypeOK'
  <2>1. prefix[p] \in Backups
    BY DEF StagingInv, Control, PrepareWorkDirectory
  <2> QED
    BY <2>1, RaiseTyped DEF StagingInv, TypeOK, PrepareWorkDirectory, Steps
<1>2. Local(p)
  BY RaiseTyped DEF StagingInv, TypeOK, PrepareWorkDirectory, Local, Inside
<1>3. Control(p)'
  BY RaiseTyped DEF StagingInv, TypeOK, Control, PrepareWorkDirectory, Inside, StagedBefore
<1> QED
  BY <1>1, <1>2, <1>3, LocalKeeps

(* The three stages that make a file. *)
LEMMA ProduceStages ==
  ASSUME StagingInv, NEW p \in Backups,
         NEW s, NEW x, NEW next,
         <<s, x, next>> \in {<<"export", "settings.json", "backup">>,
                            <<"backup", "backup.tsbak", "manifest">>,
                            <<"manifest", "manifest.json", "upload">>},
         Produce(p, s, x, next)
  PROVE  StagingInv'
<1> x \in BlobParts /\ s \in Steps /\ next \in Steps
  BY DEF BlobParts, Artifacts, Steps
<1>1. Pristine(p, x) \in Payload
  BY PayloadsTyped DEF Damage
<1>2. TypeOK'
  BY <1>1 DEF StagingInv, TypeOK, Produce
<1>3. Inside(p) /\ prefix[p] \in Backups /\ prefix[p] \in dirs
  BY DEF StagingInv, Control, Produce, Inside
<1>4. Local(p)
  BY <1>3 DEF StagingInv, TypeOK, Produce, Local, Inside
<1>5. StagedBefore(next) = StagedBefore(s) \cup {x}
  BY DEF StagedBefore, BlobParts, Artifacts
<1>6. \A y \in StagedBefore(s) \cup {x} : files'[prefix[p]][y] = Pristine(p, y)
  BY <1>3 DEF StagingInv, TypeOK, Control, Produce, StagedBefore, BlobParts, Artifacts
<1>7. Control(p)'
  BY <1>3, <1>5, <1>6 DEF StagingInv, TypeOK, Control, Produce, Inside
<1> QED
  BY <1>2, <1>4, <1>7, LocalKeeps

LEMMA UploadStages ==
  ASSUME StagingInv, NEW p \in Backups, Upload(p)
  PROVE  StagingInv'
<1>1. TypeOK'
  <2>1. PICK blob \in Uploads(p) : blobs' = [blobs EXCEPT ![prefix[p]][part[p]] = blob]
    BY DEF Upload, Store
  <2>2. blob \in Blob
    BY <2>1, UploadsTyped DEF Upload
  <2>3. NextPart(part[p]) \in BlobParts
    BY DEF NextPart, BlobParts, Artifacts
  <2>4. "backup.tsbak" \in BlobParts
    BY DEF BlobParts, Artifacts
  <2>5. blobs' \in [Backups -> [BlobParts -> Blob]]
    BY <2>1, <2>2 DEF StagingInv, TypeOK
  <2>6. part' \in [Backups -> BlobParts]
    BY <2>3, <2>4 DEF StagingInv, TypeOK, Upload
  <2> QED
    BY <2>5, <2>6 DEF StagingInv, TypeOK, Upload, Steps
<1>2. Local(p)
  BY DEF StagingInv, TypeOK, Upload, Local, Inside
<1>3. Control(p)'
  BY DEF StagingInv, TypeOK, Control, Upload, Inside, StagedBefore
<1> QED
  BY <1>1, <1>2, <1>3, LocalKeeps

LEMMA VerifyStages ==
  ASSUME StagingInv, NEW p \in Backups, Verify(p)
  PROVE  StagingInv'
<1>1. TypeOK'
  <2>1. NextPart(part[p]) \in BlobParts
    BY DEF NextPart, BlobParts, Artifacts
  <2>2. part' \in [Backups -> BlobParts] /\ remote_verified' \in [Backups -> BOOLEAN]
    BY <2>1 DEF StagingInv, TypeOK, Verify
  <2> QED
    BY <2>2, RaiseTyped DEF StagingInv, TypeOK, Verify, Steps
<1>2. Local(p)
  BY RaiseTyped DEF StagingInv, TypeOK, Verify, Local, Inside
<1>3. Control(p)'
  BY RaiseTyped DEF StagingInv, TypeOK, Control, Verify, Inside, StagedBefore
<1> QED
  BY <1>1, <1>2, <1>3, LocalKeeps

(* Removing files makes no others. *)
LEMMA RemovedSomeTyped ==
  ASSUME TypeOK, NEW p \in Backups, RemovedSome(p)
  PROVE  /\ files' \in [Backups -> [BlobParts -> Payload \cup {None}]]
         /\ \A s \in Backups \ {prefix[p]} : files'[s] = files[s]
<1>1. PICK kept \in SUBSET BlobParts :
        files' = [files EXCEPT ![prefix[p]] =
                    [x \in BlobParts |-> IF x \in kept THEN @[x] ELSE None]]
  BY DEF RemovedSome
<1>2. ASSUME NEW s \in Backups
      PROVE  [x \in BlobParts |-> IF x \in kept THEN files[s][x] ELSE None]
               \in [BlobParts -> Payload \cup {None}]
  BY DEF TypeOK
<1> QED
  BY <1>1, <1>2 DEF TypeOK

LEMMA CleanUpStages ==
  ASSUME StagingInv, NEW p \in Backups, CleanUp(p)
  PROVE  StagingInv'
<1>1. TypeOK'
  <2>1. files' \in [Backups -> [BlobParts -> Payload \cup {None}]]
    <3>1. EmptyDir \in [BlobParts -> Payload \cup {None}]
      BY DEF EmptyDir
    <3>2. CASE files' = [files EXCEPT ![prefix[p]] = EmptyDir]
      BY <3>1, <3>2 DEF StagingInv, TypeOK
    <3>3. CASE RemovedSome(p)
      BY <3>3, RemovedSomeTyped DEF StagingInv
    <3> QED
      BY <3>2, <3>3 DEF CleanUp
  <2>2. status' \in [Backups -> Statuses] /\ step' \in [Backups -> Steps]
    BY DEF StagingInv, TypeOK, CleanUp, Statuses, Steps
  <2> QED
    BY <2>1, <2>2 DEF StagingInv, TypeOK, CleanUp
<1>2. Local(p)
  <2>1. \A s \in Backups \ {prefix[p]} : files'[s] = files[s]
    BY RemovedSomeTyped DEF StagingInv, TypeOK, CleanUp
  <2> QED
    BY <2>1 DEF StagingInv, TypeOK, CleanUp, Local, Inside
<1>3. Control(p)'
  BY DEF StagingInv, TypeOK, Control, CleanUp, Inside, StagedBefore
<1> QED
  BY <1>1, <1>2, <1>3, LocalKeeps

(* What a step that is cut short can leave. *)
LEMMA UnfinishedTyped ==
  ASSUME StagingInv, NEW p \in Backups, status[p] = "running", Unfinished(p)
  PROVE  /\ files' \in [Backups -> [BlobParts -> Payload \cup {None}]]
         /\ blobs' \in [Backups -> [BlobParts -> Blob]]
         /\ \/ UNCHANGED files
            \/ Inside(p) /\ \A s \in Backups \ {prefix[p]} : files'[s] = files[s]
         /\ \/ UNCHANGED blobs
            \/ step[p] = "upload" /\ Store(p)
<1>1. CASE UNCHANGED <<files, blobs>>
  BY <1>1 DEF StagingInv, TypeOK
<1>2. CASE /\ step[p] \in DOMAIN FileOf
           /\ \E how \in {"torn", "none"} :
                files' = [files EXCEPT ![prefix[p]][FileOf[step[p]]] =
                            Damaged(p, FileOf[step[p]], how)]
           /\ UNCHANGED blobs
  <2>1. step[p] \in {"export", "backup", "manifest"}
    BY <1>2 DEF FileOf
  <2>2. FileOf[step[p]] \in BlobParts
    BY <2>1 DEF FileOf, BlobParts, Artifacts
  <2>3. PICK how \in {"torn", "none"} :
           files' = [files EXCEPT ![prefix[p]][FileOf[step[p]]] =
                       Damaged(p, FileOf[step[p]], how)]
    BY <1>2
  <2>4. Damaged(p, FileOf[step[p]], how) \in Payload
    BY <2>2, PayloadsTyped DEF Damage
  <2>5. files' \in [Backups -> [BlobParts -> Payload \cup {None}]]
    BY <2>3, <2>4 DEF StagingInv, TypeOK
  <2>6. Inside(p) /\ \A s \in Backups \ {prefix[p]} : files'[s] = files[s]
    BY <2>1, <2>3 DEF StagingInv, TypeOK, Inside
  <2> QED
    BY <1>2, <2>5, <2>6 DEF StagingInv, TypeOK
<1>3. CASE step[p] = "upload" /\ Store(p) /\ UNCHANGED files
  <2>1. PICK blob \in Uploads(p) : blobs' = [blobs EXCEPT ![prefix[p]][part[p]] = blob]
    BY <1>3 DEF Store
  <2>2. blob \in Blob
    BY <1>3, <2>1, UploadsTyped
  <2> QED
    BY <1>3, <2>1, <2>2 DEF StagingInv, TypeOK
<1>4. CASE step[p] = "cleanup" /\ RemovedSome(p) /\ UNCHANGED blobs
  BY <1>4, RemovedSomeTyped DEF StagingInv, TypeOK, Inside
<1> QED
  BY <1>1, <1>2, <1>3, <1>4 DEF Unfinished

LEMMA IoFailsStages ==
  ASSUME StagingInv, NEW p \in Backups, IoFails(p)
  PROVE  StagingInv'
<1>1. TypeOK'
  BY UnfinishedTyped, RaiseTyped DEF StagingInv, TypeOK, IoFails
<1>2. Local(p)
  BY UnfinishedTyped, RaiseTyped DEF StagingInv, IoFails, Local, Inside
<1>3. Control(p)'
  BY RaiseTyped DEF StagingInv, Control, IoFails, Inside, StagedBefore
<1> QED
  BY <1>1, <1>2, <1>3, LocalKeeps

LEMMA AbortStages ==
  ASSUME StagingInv, NEW p \in Backups, NEW how \in {"interrupted", "killed"}, Abort(p, how)
  PROVE  StagingInv'
<1>1. TypeOK'
  BY UnfinishedTyped DEF StagingInv, TypeOK, Abort, Statuses, Steps
<1>2. Local(p)
  BY UnfinishedTyped DEF StagingInv, TypeOK, Abort, Local, Inside
<1>3. Control(p)'
  BY DEF StagingInv, TypeOK, Control, Abort, Inside, StagedBefore
<1> QED
  BY <1>1, <1>2, <1>3, LocalKeeps

LEMMA InitStages ==
  ASSUME Init
  PROVE  StagingInv
<1>1. TypeOK
  BY DEF Init, TypeOK, Statuses, Steps, BlobParts, Artifacts, EmptyDir, NoBlob, Blob
<1>2. StagingNotShared
  BY DEF Init, StagingNotShared
<1>3. ASSUME NEW p \in Backups PROVE Control(p)
  BY DEF Init, Control, Inside, StagedBefore
<1> QED
  BY <1>1, <1>2, <1>3 DEF StagingInv

LEMMA StutterStages ==
  ASSUME StagingInv, UNCHANGED vars
  PROVE  StagingInv'
<1>1. TypeOK'
  BY DEF StagingInv, TypeOK, vars
<1>2. StagingNotShared'
  BY DEF StagingInv, StagingNotShared, vars
<1>3. ASSUME NEW p \in Backups PROVE Control(p)'
  BY DEF StagingInv, Control, Inside, vars
<1> QED
  BY <1>1, <1>2, <1>3 DEF StagingInv

LEMMA NextStages ==
  ASSUME StagingInv, [Next]_vars
  PROVE  StagingInv'
<1>1. ASSUME NEW p \in Backups, PipelineStep(p)
      PROVE  StagingInv'
  BY <1>1, PreflightStages, PrepareWorkDirectoryStages, ProduceStages, UploadStages,
     VerifyStages, CleanUpStages, IoFailsStages
    DEF PipelineStep, ExportSettings, CreateRepositoryBackup, CreateManifest
<1>2. ASSUME NEW p \in Backups, Interrupt(p) \/ Kill(p)
      PROVE  StagingInv'
  BY <1>2, AbortStages DEF Interrupt, Kill
<1> QED
  BY <1>1, <1>2, LaunchStages, StutterStages DEF Next

-----------------------------------------------------------------------------
(* Every variable of BackupManager stays in its range. *)
THEOREM BackupTypes == Spec => []TypeOK
<1>1. StagingInv => TypeOK
  BY DEF StagingInv
<1> QED
  BY <1>1, InitStages, NextStages, PTL DEF Spec

(* Even pipelines that were given one name never work in one directory. *)
THEOREM StagingExclusive == Spec => []StagingNotShared
<1>1. StagingInv => StagingNotShared
  BY DEF StagingInv
<1> QED
  BY <1>1, InitStages, NextStages, PTL DEF Spec

-----------------------------------------------------------------------------
(* What has been uploaded, or verified, before a part. *)
PartsBefore(x) ==
  CASE x = "backup.tsbak" -> {}
    [] x = "settings.json" -> {"backup.tsbak"}
    [] x = "manifest.json" -> Artifacts

Uploaded(s, x) ==
  /\ blobs[s][x].content \in Payload /\ blobs[s][x].content.backup = s
  /\ blobs[s][x].sha256 = Pristine(s, x)

Good(s, x) == blobs[s][x] = UploadFile(Pristine(s, x), Pristine(s, x))

(* How far a pipeline has got in its two loops. *)
Loops(p) ==
  /\ step[p] \notin {"none", "upload", "verify", "cleanup"} => part[p] = "backup.tsbak"
  /\ status[p] = "not started" => part[p] = "backup.tsbak" /\ prefix[p] = None
  /\ step[p] = "upload" => \A x \in PartsBefore(part[p]) : Uploaded(p, x)
  /\ step[p] \in {"verify", "cleanup"} => \A x \in BlobParts : Uploaded(p, x)
  /\ step[p] = "verify" /\ VerifyContent => \A x \in PartsBefore(part[p]) : Good(p, x)
  /\ step[p] = "cleanup" => remote_verified[p]
  /\ remote_verified[p] => /\ step[p] \in {"cleanup", "none"} /\ status[p] # "not started"
                          /\ prefix[p] = p
                          /\ \A x \in BlobParts : Uploaded(p, x)
  /\ remote_verified[p] /\ VerifyContent => \A x \in BlobParts : Good(p, x)
  /\ status[p] = "SUCCESS" => remote_verified[p]

(* With a name of its own, a pipeline alone writes below its prefix. *)
StoreInv ==
  /\ StagingInv
  /\ \A p \in Backups : prefix[p] \in {p, None}
  /\ \A p \in Backups : Loops(p)
  /\ \A s \in Backups : blobs[s]["manifest.json"].content # None =>
       \A x \in BlobParts : Uploaded(s, x)

-----------------------------------------------------------------------------
(* A step of pipeline p, as far as the store goes. *)
Apart(p) ==
  /\ \A q \in Backups \ {p} :
       /\ status'[q] = status[q] /\ step'[q] = step[q] /\ prefix'[q] = prefix[q]
       /\ part'[q] = part[q] /\ remote_verified'[q] = remote_verified[q]
       /\ blobs'[q] = blobs[q]
  /\ prefix'[p] \in {p, None}

Listed(s) ==
  blobs[s]["manifest.json"].content # None => \A x \in BlobParts : Uploaded(s, x)

(* A pipeline that nothing happens to stays where it is in its loops. *)
LEMMA LoopsFrame ==
  ASSUME NEW q \in Backups, Loops(q), blobs'[q] = blobs[q],
         status'[q] = status[q], step'[q] = step[q], prefix'[q] = prefix[q],
         part'[q] = part[q], remote_verified'[q] = remote_verified[q]
  PROVE  Loops(q)'
<1>1. \A x \in BlobParts : (Uploaded(q, x) => Uploaded(q, x)') /\ (Good(q, x) => Good(q, x)')
  BY DEF Uploaded, Good
<1>2. \A x \in PartsBefore(part[q]) :
        (Uploaded(q, x) => Uploaded(q, x)') /\ (Good(q, x) => Good(q, x)')
  BY DEF Uploaded, Good
<1>3. PartsBefore(part[q])' = PartsBefore(part[q])
  OBVIOUS
<1> QED
  BY <1>1, <1>2, <1>3 DEF Loops

LEMMA ApartKeeps ==
  ASSUME StoreInv, NEW p \in Backups, StagingInv', Apart(p), Loops(p)', Listed(p)'
  PROVE  StoreInv'
<1>1. ASSUME NEW q \in Backups \ {p} PROVE Loops(q)'
  BY <1>1, LoopsFrame DEF StoreInv, Apart
<1>2. ASSUME NEW q \in Backups \ {p} PROVE Listed(q)'
  BY <1>2 DEF StoreInv, Apart, Listed, Uploaded
<1>3. \A q \in Backups : prefix'[q] \in {q, None}
  BY DEF StoreInv, Apart
<1> QED
  BY <1>1, <1>2, <1>3 DEF StoreInv, Listed

(* As long as p writes nothing. *)
LEMMA UnwrittenListed ==
  ASSUME StoreInv, NEW p \in Backups, UNCHANGED blobs
  PROVE  Listed(p)'
BY DEF StoreInv, Listed, Uploaded

(* The pipeline that raises, or is cut short, has said nothing. *)
LEMMA StoppedLoops ==
  ASSUME StoreInv, NEW p \in Backups, status[p] = "running",
         status'[p] \in {"ERROR", "interrupted", "killed"}, step'[p] = "none",
         UNCHANGED <<remote_verified, prefix>>, step[p] = "upload" \/ UNCHANGED blobs
  PROVE  Loops(p)'
<1>1. Loops(p)
  BY DEF StoreInv
<1>2. CASE step[p] = "upload"
  BY <1>1, <1>2 DEF Loops
<1>3. CASE UNCHANGED blobs
  BY <1>1, <1>3 DEF Loops, Good, Uploaded
<1> QED
  BY <1>2, <1>3

(* One more blob of p. *)
LEMMA StoreKeeps ==
  ASSUME StoreInv, NEW p \in Backups, Active(p, "upload"), Store(p)
  PROVE  /\ prefix[p] = p
         /\ \A q \in Backups \ {p} : blobs'[q] = blobs[q]
         /\ \A x \in PartsBefore(part[p]) \cup {part[p]} : Uploaded(p, x)'
         /\ Listed(p)'
<1>1. prefix[p] = p /\ part[p] \in BlobParts
  BY NoneAssumption DEF StoreInv, StagingInv, TypeOK, Control
<1>2. PICK blob \in Uploads(p) : blobs' = [blobs EXCEPT ![p][part[p]] = blob]
  BY <1>1 DEF Store
<1>3. /\ blob.content \in Payload /\ blob.content.backup = p
      /\ blob.sha256 = Pristine(p, part[p])
  BY <1>2, UploadsTyped DEF StoreInv
<1>4. /\ \A q \in Backups \ {p} : blobs'[q] = blobs[q]
      /\ \A x \in BlobParts \ {part[p]} : blobs'[p][x] = blobs[p][x]
      /\ blobs'[p][part[p]] = blob
  BY <1>1, <1>2 DEF StoreInv, StagingInv, TypeOK
<1>5. \A x \in BlobParts : x = part[p] => Uploaded(p, x)'
  BY <1>3, <1>4 DEF Uploaded
<1>6. \A x \in BlobParts : Uploaded(p, x) => Uploaded(p, x)'
  BY <1>4, <1>5 DEF Uploaded
<1>7. PartsBefore(part[p]) \subseteq BlobParts
  BY <1>1 DEF PartsBefore, BlobParts, Artifacts
<1>8. \A x \in PartsBefore(part[p]) : Uploaded(p, x)
  BY DEF StoreInv, Loops
<1>9. Listed(p)'
  <2>1. CASE part[p] = "manifest.json"
    BY <1>5, <1>6, <1>8, <2>1 DEF Listed, PartsBefore, BlobParts
  <2>2. CASE part[p] # "manifest.json"
    <3>1. blobs'[p]["manifest.json"] = blobs[p]["manifest.json"]
      BY <1>4, <2>2 DEF BlobParts
    <3> QED
      BY <1>6, <3>1 DEF StoreInv, Listed
  <2> QED
    BY <2>1, <2>2
<1> QED
  BY <1>1, <1>4, <1>5, <1>6, <1>7, <1>9, <1>8

-----------------------------------------------------------------------------
(* The steps that write nothing to the store. *)
LEMMA LaunchStores ==
  ASSUME StoreInv, "collision" \notin Faults, NEW p \in Backups, Launch(p)
  PROVE  StoreInv'
<1>1. StagingInv'
  BY LaunchStages DEF StoreInv
<1>2. Loops(p) /\ prefix[p] \in {p, None}
  BY DEF StoreInv
<1>3. CASE End(p, "ERROR") /\ UNCHANGED prefix
  <2>1. Apart(p)
    BY <1>2, <1>3 DEF StoreInv, StagingInv, TypeOK, Launch, Apart
  <2>2. Loops(p)'
    BY <1>2, <1>3 DEF StoreInv, StagingInv, TypeOK, Launch, Loops
  <2> QED
    BY <1>1, <2>1, <2>2, ApartKeeps, UnwrittenListed DEF Launch
<1>4. CASE /\ prefix' = [prefix EXCEPT ![p] = p]
           /\ status' = [status EXCEPT ![p] = "running"]
           /\ step' = [step EXCEPT ![p] = "preflight"]
  <2>1. Apart(p)
    BY <1>4 DEF StoreInv, StagingInv, TypeOK, Launch, Apart
  <2>2. Loops(p)'
    BY <1>2, <1>4 DEF StoreInv, StagingInv, TypeOK, Launch, Loops
  <2> QED
    BY <1>1, <2>1, <2>2, ApartKeeps, UnwrittenListed DEF Launch
<1> QED
  BY <1>3, <1>4 DEF Launch

LEMMA EarlyStores ==
  ASSUME StoreInv, NEW p \in Backups, StagingInv',
         \/ Preflight(p) \/ PrepareWorkDirectory(p)
         \/ ExportSettings(p) \/ CreateRepositoryBackup(p) \/ CreateManifest(p)
  PROVE  StoreInv'
<1>1. /\ status[p] = "running" /\ UNCHANGED <<part, prefix, remote_verified, blobs>>
      /\ step[p] \in {"preflight", "workdir", "export", "backup", "manifest"}
      /\ \/ Raise(p)
         \/ /\ UNCHANGED status
            /\ \E s \in {"workdir", "export", "backup", "manifest", "upload"} :
                 step' = [step EXCEPT ![p] = s]
  BY DEF Preflight, PrepareWorkDirectory, ExportSettings, CreateRepositoryBackup,
         CreateManifest, Produce
<1>2. Apart(p)
  BY <1>1, RaiseTyped DEF StoreInv, StagingInv, TypeOK, Apart
<1>3. Loops(p)'
  <2>1. Loops(p)
    BY DEF StoreInv
  <2>2. CASE Raise(p)
    BY <1>1, <2>2, RaiseTyped, StoppedLoops DEF StoreInv, StagingInv
  <2>3. ASSUME NEW s \in {"workdir", "export", "backup", "manifest", "upload"},
               UNCHANGED status, step' = [step EXCEPT ![p] = s]
        PROVE  Loops(p)'
    <3>1. step'[p] = s /\ ~remote_verified[p] /\ part'[p] = "backup.tsbak"
      <4>1. step[p] # "none" /\ status[p] # "not started" /\ step'[p] = s
        BY <1>1, <2>3 DEF StoreInv, StagingInv, TypeOK
      <4> QED
        BY <1>1, <2>1, <4>1 DEF Loops
    <3> QED
      BY <1>1, <2>3, <3>1 DEF Loops, PartsBefore
  <2> QED
    BY <1>1, <2>2, <2>3
<1> QED
  BY <1>1, <1>2, <1>3, ApartKeeps, UnwrittenListed

LEMMA UploadStores ==
  ASSUME StoreInv, NEW p \in Backups, Upload(p)
  PROVE  StoreInv'
<1>1. StagingInv'
  BY UploadStages DEF StoreInv
<1>2. Active(p, "upload") /\ Store(p)
  BY DEF Upload
<1>3. /\ \A q \in Backups \ {p} : blobs'[q] = blobs[q]
      /\ \A x \in PartsBefore(part[p]) \cup {part[p]} : Uploaded(p, x)'
      /\ prefix[p] = p /\ Listed(p)'
  BY <1>2, StoreKeeps
<1>4. Apart(p)
  BY <1>3 DEF StoreInv, StagingInv, TypeOK, Upload, Apart
<1>5. ~remote_verified[p] /\ part[p] \in BlobParts
  BY <1>2 DEF StoreInv, StagingInv, TypeOK, Loops
<1>6. Loops(p)'
  <2>1. CASE part[p] = "manifest.json"
    <3>1. /\ part'[p] = "backup.tsbak" /\ step'[p] = "verify" /\ status'[p] = "running"
          /\ ~remote_verified'[p]
      BY <1>5, <2>1 DEF StoreInv, StagingInv, TypeOK, Upload
    <3>2. BlobParts \subseteq PartsBefore(part[p]) \cup {part[p]} /\ PartsBefore(part'[p]) = {}
      BY <2>1, <3>1 DEF PartsBefore, BlobParts
    <3> QED
      BY <1>3, <3>1, <3>2 DEF Loops
  <2>2. CASE part[p] # "manifest.json"
    <3>1. /\ part'[p] = NextPart(part[p]) /\ step'[p] = "upload" /\ status'[p] = "running"
          /\ ~remote_verified'[p]
      BY <1>5, <2>2 DEF StoreInv, StagingInv, TypeOK, Upload
    <3>2. PartsBefore(part'[p]) = PartsBefore(part[p]) \cup {part[p]}
      BY <1>5, <2>2, <3>1 DEF PartsBefore, NextPart, BlobParts, Artifacts
    <3> QED
      BY <1>3, <3>1, <3>2 DEF Loops
  <2> QED
    BY <2>1, <2>2
<1> QED
  BY <1>1, <1>3, <1>4, <1>6, ApartKeeps

(* A blob that passes with the content check is what was uploaded. *)
LEMMA VerifiedIsGood ==
  ASSUME NEW s \in Backups, NEW x \in BlobParts, blobs[s][x] \in Blob,
         VerifyRemoteBlob(blobs[s][x], Pristine(s, x), TRUE)
  PROVE  Good(s, x)
BY DEF VerifyRemoteBlob, Good, UploadFile, Blob

LEMMA VerifyStores ==
  ASSUME StoreInv, NEW p \in Backups, Verify(p)
  PROVE  StoreInv'
<1>1. StagingInv'
  BY VerifyStages DEF StoreInv
<1>2. Loops(p) /\ prefix[p] = p /\ part[p] \in BlobParts /\ ~remote_verified[p]
  <2>1. Loops(p) /\ step[p] = "verify" /\ status[p] = "running"
    BY DEF StoreInv, Verify
  <2>2. prefix[p] = p /\ part[p] \in BlobParts
    BY <2>1, NoneAssumption DEF StoreInv, StagingInv, TypeOK, Control
  <2> QED
    BY <2>1, <2>2 DEF Loops
<1>3. Apart(p)
  BY <1>2, RaiseTyped DEF StoreInv, StagingInv, TypeOK, Verify, Apart
<1>4. Loops(p)'
  <2>1. CASE Raise(p) /\ UNCHANGED <<part, remote_verified>>
    BY <2>1, RaiseTyped, StoppedLoops DEF StoreInv, StagingInv, Verify
  <2>2. CASE VerifyRemoteBlob(blobs[p][part[p]], Pristine(p, part[p]), VerifyContent)
    <3>1. VerifyContent => Good(p, part[p])
      <4>1. blobs[p][part[p]] \in Blob
        BY <1>2 DEF StoreInv, StagingInv, TypeOK
      <4>2. VerifyContent => VerifyRemoteBlob(blobs[p][part[p]], Pristine(p, part[p]), TRUE)
        BY <2>2 DEF VerifyRemoteBlob
      <4> QED
        BY <1>2, <4>1, <4>2, VerifiedIsGood
    <3>2. VerifyContent => \A x \in PartsBefore(part[p]) \cup {part[p]} : Good(p, x)'
      BY <1>2, <3>1 DEF Loops, Good, Verify
    <3>3. \A x \in BlobParts : Uploaded(p, x)'
      BY <1>2 DEF Loops, Uploaded, Verify
    <3>4. CASE part[p] = "manifest.json"
      <4>1. /\ step'[p] = "cleanup" /\ status'[p] = "running"
            /\ remote_verified'[p] /\ prefix'[p] = p
        BY <1>2, <2>2, <3>4 DEF StoreInv, StagingInv, TypeOK, Verify
      <4>2. BlobParts \subseteq PartsBefore(part[p]) \cup {part[p]}
        BY <3>4 DEF PartsBefore, BlobParts
      <4> QED
        BY <3>2, <3>3, <4>1, <4>2 DEF Loops
    <3>5. CASE part[p] # "manifest.json"
      <4>1. /\ step'[p] = "verify" /\ status'[p] = "running" /\ ~remote_verified'[p]
            /\ part'[p] = NextPart(part[p])
        BY <1>2, <2>2, <3>5 DEF StoreInv, StagingInv, TypeOK, Verify
      <4>2. PartsBefore(part'[p]) = PartsBefore(part[p]) \cup {part[p]}
        BY <1>2, <3>5, <4>1 DEF PartsBefore, NextPart, BlobParts, Artifacts
      <4> QED
        BY <3>2, <3>3, <4>1, <4>2 DEF Loops
    <3> QED
      BY <3>4, <3>5
  <2> QED
    BY <1>2, <2>1, <2>2 DEF Verify
<1> QED
  BY <1>1, <1>3, <1>4, ApartKeeps, UnwrittenListed DEF Verify

LEMMA CleanUpStores ==
  ASSUME StoreInv, NEW p \in Backups, CleanUp(p)
  PROVE  StoreInv'
<1>1. StagingInv'
  BY CleanUpStages DEF StoreInv
<1>2. Apart(p)
  BY DEF StoreInv, StagingInv, TypeOK, CleanUp, Apart
<1>3. Loops(p)'
  <2>1. Loops(p) /\ step'[p] = "none" /\ status'[p] = "SUCCESS" /\ step[p] = "cleanup"
    BY DEF StoreInv, StagingInv, TypeOK, CleanUp
  <2> QED
    BY <2>1 DEF Loops, Good, Uploaded, CleanUp
<1> QED
  BY <1>1, <1>2, <1>3, ApartKeeps, UnwrittenListed DEF CleanUp

LEMMA StoppedStores ==
  ASSUME StoreInv, NEW p \in Backups, StagingInv',
         IoFails(p) \/ Interrupt(p) \/ Kill(p)
  PROVE  StoreInv'
<1>1. /\ status[p] = "running" /\ Unfinished(p)
      /\ UNCHANGED <<part, prefix, remote_verified>>
      /\ status'[p] \in {"ERROR", "interrupted", "killed"} /\ step'[p] = "none"
      /\ \A q \in Backups \ {p} : status'[q] = status[q] /\ step'[q] = step[q]
  BY RaiseTyped DEF StoreInv, StagingInv, TypeOK, IoFails, Interrupt, Kill, Abort
<1>2. UNCHANGED blobs \/ (step[p] = "upload" /\ Store(p))
  BY <1>1 DEF Unfinished
<1>3. Loops(p)'
  BY <1>1, <1>2, StoppedLoops
<1>4. Listed(p)' /\ \A q \in Backups \ {p} : blobs'[q] = blobs[q]
  BY <1>1, <1>2, UnwrittenListed, StoreKeeps DEF Active
<1>5. Apart(p)
  BY <1>1, <1>4 DEF StoreInv, Apart
<1> QED
  BY <1>3, <1>4, <1>5, ApartKeeps

LEMMA InitStores ==
  ASSUME Init
  PROVE  StoreInv
<1>1. \A p \in Backups : Loops(p)
  BY DEF Init, Loops
<1>2. ASSUME NEW s \in Backups PROVE blobs[s]["manifest.json"].content = None
  BY DEF Init, NoBlob, BlobParts
<1>3. \A p \in Backups : prefix[p] \in {p, None}
  BY DEF Init
<1> QED
  BY <1>1, <1>2, <1>3, InitStages DEF StoreInv

LEMMA NextStores ==
  ASSUME StoreInv, "collision" \notin Faults, [Next]_vars
  PROVE  StoreInv'
<1>1. StagingInv'
  BY NextStages DEF StoreInv
<1>2. CASE UNCHANGED vars
  <2>1. UNCHANGED <<status, step, part, prefix, remote_verified, blobs>>
    BY <1>2 DEF vars
  <2>2. \A p \in Backups : Loops(p)'
    BY <2>1, LoopsFrame DEF StoreInv
  <2>3. \A s \in Backups : Listed(s)'
    BY <2>1 DEF StoreInv, Listed, Uploaded
  <2> QED
    BY <1>1, <2>1, <2>2, <2>3 DEF StoreInv, Listed
<1> QED
  BY <1>1, <1>2, LaunchStores, EarlyStores, UploadStores, VerifyStores, CleanUpStores,
     StoppedStores DEF Next, PipelineStep

-----------------------------------------------------------------------------
(* With names of their own, whatever happens to the pipelines, a manifest in
   the store has its artifacts next to it. *)
THEOREM ManifestsComplete ==
  ASSUME "collision" \notin Faults
  PROVE  Spec => []ManifestNeverDangles
<1>1. StoreInv => ManifestNeverDangles
  BY DEF StoreInv, ManifestNeverDangles, Uploaded, BlobParts
<1>2. StoreInv /\ [Next]_vars => StoreInv'
  BY NextStores
<1> QED
  BY <1>1, <1>2, InitStores, PTL DEF Spec

(* What is verified is complete. *)
LEMMA VerifiedComplete ==
  ASSUME NEW p \in Backups, Loops(p), remote_verified[p], VerifyContent
  PROVE  Complete(p)
<1>1. prefix[p] = p /\ \A x \in BlobParts : Good(p, x)
  BY DEF Loops
<1> QED
  BY <1>1 DEF Good, Complete

(* With the content check, SUCCESS means that every byte is in the store. *)
THEOREM SuccessComplete ==
  ASSUME "collision" \notin Faults, VerifyContent
  PROVE  Spec => []SuccessIsComplete
<1>1. StoreInv => SuccessIsComplete
  <2> SUFFICES ASSUME StoreInv, NEW p \in Backups, status[p] = "SUCCESS"
               PROVE  remote_verified[p] /\ Complete(p)
    BY DEF SuccessIsComplete
  <2>1. remote_verified[p]
    BY DEF StoreInv, Loops
  <2> QED
    BY <2>1, VerifiedComplete DEF StoreInv
<1>2. StoreInv /\ [Next]_vars => StoreInv'
  BY NextStores
<1> QED
  BY <1>1, <1>2, InitStores, PTL DEF Spec

(* The steps that can take a file away are those of the cleanup. *)
LEMMA OnlyCleanupRemoves ==
  ASSUME StagingInv, [Next]_vars, NEW s \in Backups, NEW x \in BlobParts,
         files[s][x] # None, files'[s][x] = None
  PROVE  \E p \in Backups : prefix[p] = s /\ step[p] = "cleanup"
<1>1. ASSUME NEW p \in Backups, Unfinished(p), status[p] = "running"
      PROVE  prefix[p] = s /\ step[p] = "cleanup"
  <2>1. CASE /\ step[p] \in DOMAIN FileOf
             /\ \E how \in {"torn", "none"} :
                  files' = [files EXCEPT ![prefix[p]][FileOf[step[p]]] =
                              Damaged(p, FileOf[step[p]], how)]
    <3>1. FileOf[step[p]] \in BlobParts
      BY <2>1 DEF FileOf, BlobParts, Artifacts
    <3>2. \A how \in {"torn", "none"} : Damaged(p, FileOf[step[p]], how) # None
      BY <3>1, PayloadsTyped, NoneAssumption DEF Damage
    <3> QED
      BY <2>1, <3>1, <3>2 DEF StagingInv, TypeOK
  <2>2. CASE step[p] = "cleanup" /\ RemovedSome(p)
    BY <2>2, RemovedSomeTyped DEF StagingInv
  <2> QED
    BY <1>1, <2>1, <2>2 DEF Unfinished
<1>2. ASSUME NEW p \in Backups,
             ExportSettings(p) \/ CreateRepositoryBackup(p) \/ CreateManifest(p)
      PROVE  FALSE
  <2>1. PICK y \in BlobParts : files' = [files EXCEPT ![prefix[p]][y] = Pristine(p, y)]
    BY <1>2 DEF ExportSettings, CreateRepositoryBackup, CreateManifest, Produce, BlobParts,
                Artifacts
  <2>2. Pristine(p, y) # None
    BY PayloadsTyped DEF Damage
  <2> QED
    BY <2>1, <2>2 DEF StagingInv, TypeOK
<1>3. ASSUME NEW p \in Backups, CleanUp(p)
      PROVE  prefix[p] = s /\ step[p] = "cleanup"
  BY <1>3, RemovedSomeTyped DEF StagingInv, TypeOK, CleanUp
<1>4. ~UNCHANGED files
  OBVIOUS
<1>5. ASSUME NEW p \in Backups,
             Launch(p) \/ Preflight(p) \/ PrepareWorkDirectory(p) \/ Upload(p) \/ Verify(p)
      PROVE  FALSE
  BY <1>4, <1>5 DEF Launch, Preflight, PrepareWorkDirectory, Upload, Verify
<1> QED
  BY <1>1, <1>2, <1>3, <1>4, <1>5
    DEF Next, PipelineStep, IoFails, Interrupt, Kill, Abort, vars

(* Never delete local staging before remote verification succeeds. *)
THEOREM StagingOutlives ==
  ASSUME "collision" \notin Faults, VerifyContent
  PROVE  Spec => StagingOutlivesUpload
<1> DEFINE Kept ==
      \A s \in Backups, x \in BlobParts :
        files[s][x] # None /\ files'[s][x] = None
          => \E p \in Backups : prefix[p] = s /\ remote_verified[p] /\ Complete(p)
<1>1. StoreInv /\ [Next]_vars => Kept
  <2> SUFFICES ASSUME StoreInv, [Next]_vars, NEW s \in Backups, NEW x \in BlobParts,
                      files[s][x] # None, files'[s][x] = None
               PROVE  \E p \in Backups : prefix[p] = s /\ remote_verified[p] /\ Complete(p)
    OBVIOUS
  <2>1. PICK p \in Backups : prefix[p] = s /\ step[p] = "cleanup"
    BY OnlyCleanupRemoves DEF StoreInv
  <2> QED
    <3>1. Loops(p) /\ remote_verified[p]
      BY <2>1 DEF StoreInv, Loops
    <3> QED
      BY <2>1, <3>1, VerifiedComplete
<1>2. StoreInv /\ [Next]_vars => StoreInv'
  BY NextStores
<1>3. Init => StoreInv
  BY InitStores
<1>4. [][Kept]_vars => StagingOutlivesUpload
  BY PTL DEF StagingOutlivesUpload
<1> HIDE DEF Kept
<1> QED
  BY <1>1, <1>2, <1>3, <1>4, PTL DEF Spec

-----------------------------------------------------------------------------
(* A step of p either fails or gives no directory a marker. *)
LEMMA MarksKept ==
  ASSUME StoreInv, "marker" \notin Faults, FailuresMarked, NEW p \in Backups,
         \A q \in Backups \ {p} : status'[q] = status[q] /\ prefix'[q] = prefix[q],
         status[p] # "ERROR", dirs' \subseteq dirs \cup {p},
         \/ /\ status'[p] # "ERROR" /\ markers \ {p} = markers' \ {p}
            /\ markers' \subseteq markers
         \/ Raise(p) /\ UNCHANGED <<dirs, prefix>>
         \/ prefix'[p] = None /\ status'[p] = "ERROR" /\ UNCHANGED <<markers, dirs>>
  PROVE  FailuresMarked'
<1>1. p \notin markers /\ None \notin dirs /\ None \notin markers
  BY NoneAssumption DEF FailuresMarked, StoreInv, StagingInv, TypeOK
<1>2. \A q \in Backups : prefix[q] \in {q, None}
  BY DEF StoreInv
<1>3. markers \subseteq Backups /\ dirs \subseteq Backups
  BY DEF StoreInv, StagingInv, TypeOK
<1>4. CASE status'[p] # "ERROR" /\ markers \ {p} = markers' \ {p} /\ markers' \subseteq markers
  <2>1. ASSUME NEW t \in markers' PROVE status'[t] = "ERROR"
    BY <1>1, <1>3, <1>4, <2>1 DEF FailuresMarked
  <2>2. ASSUME NEW q \in Backups, status'[q] = "ERROR", prefix'[q] \in dirs'
        PROVE  prefix'[q] \in markers'
    <3>1. q # p /\ status[q] = "ERROR" /\ prefix'[q] = prefix[q]
      BY <1>4, <2>2
    <3>2. prefix[q] \in dirs /\ prefix[q] # p
      BY <1>1, <1>2, <2>2, <3>1, NoneAssumption DEF StoreInv, StagingInv, TypeOK
    <3> QED
      BY <1>4, <3>1, <3>2 DEF FailuresMarked
  <2> QED
    BY <2>1, <2>2 DEF FailuresMarked
<1>5. CASE Raise(p) /\ UNCHANGED <<dirs, prefix>>
  <2>1. markers' = markers \cup ({prefix[p]} \cap dirs) /\ status'[p] = "ERROR"
    BY <1>5, RaiseTyped DEF Raise, Marked, StoreInv, StagingInv
  <2> QED
    BY <1>1, <1>2, <1>3, <1>5, <2>1 DEF FailuresMarked
<1>6. CASE prefix'[p] = None /\ status'[p] = "ERROR" /\ UNCHANGED <<markers, dirs>>
  BY <1>1, <1>2, <1>3, <1>6 DEF FailuresMarked
<1> QED
  BY <1>4, <1>5, <1>6

LEMMA MarksNext ==
  ASSUME StoreInv, "collision" \notin Faults, "marker" \notin Faults, FailuresMarked,
         [Next]_vars
  PROVE  FailuresMarked'
<1>1. ASSUME NEW p \in Backups, Launch(p)
      PROVE  FailuresMarked'
  <2>1. /\ \A q \in Backups \ {p} : status'[q] = status[q] /\ prefix'[q] = prefix[q]
        /\ status[p] = "not started" /\ UNCHANGED <<markers, dirs>>
        /\ prefix[p] = None
        /\ \/ status'[p] = "running"
           \/ status'[p] = "ERROR" /\ prefix'[p] = prefix[p]
    <3>1. Loops(p) /\ status[p] = "not started"
      BY <1>1 DEF StoreInv, Launch
    <3>2. prefix[p] = None
      BY <3>1 DEF Loops
    <3>3. CASE End(p, "ERROR") /\ UNCHANGED prefix
      BY <1>1, <3>1, <3>2, <3>3 DEF StoreInv, StagingInv, TypeOK, Launch
    <3>4. ASSUME NEW name, prefix' = [prefix EXCEPT ![p] = name],
                 status' = [status EXCEPT ![p] = "running"]
          PROVE  /\ \A q \in Backups \ {p} : status'[q] = status[q] /\ prefix'[q] = prefix[q]
                 /\ status'[p] = "running"
      BY <3>4 DEF StoreInv, StagingInv, TypeOK
    <3> QED
      BY <1>1, <3>1, <3>2, <3>3, <3>4 DEF Launch
  <2> QED
    BY <2>1, MarksKept
<1>2. ASSUME NEW p \in Backups, status[p] = "running", UNCHANGED <<dirs, prefix>>, Raise(p)
      PROVE  FailuresMarked'
  BY <1>2, RaiseTyped, MarksKept DEF StoreInv, StagingInv
<1>3. ASSUME NEW p \in Backups, status[p] = "running", UNCHANGED prefix,
             \A q \in Backups \ {p} : status'[q] = status[q], status'[p] # "ERROR",
             dirs' \subseteq dirs \cup {p},
             markers' = markers \/ markers' = markers \ {p}
      PROVE  FailuresMarked'
  BY <1>3, MarksKept
<1>4. ASSUME NEW p \in Backups, PipelineStep(p) \/ Interrupt(p) \/ Kill(p)
      PROVE  FailuresMarked'
  <2>1. status[p] = "running" /\ prefix[p] = p /\ UNCHANGED prefix
    <3>1. status[p] = "running" /\ UNCHANGED prefix
      BY <1>4 DEF PipelineStep, Preflight, PrepareWorkDirectory, ExportSettings,
         CreateRepositoryBackup, CreateManifest, Produce, Upload, Verify, CleanUp, IoFails,
         Interrupt, Kill, Abort
    <3> QED
      BY <3>1, NoneAssumption DEF StoreInv, StagingInv, Control
  <2>2. \/ Raise(p) /\ UNCHANGED dirs
        \/ /\ \A q \in Backups \ {p} : status'[q] = status[q]
           /\ status'[p] # "ERROR"
           /\ dirs' \subseteq dirs \cup {p}
           /\ markers' = markers \/ markers' = markers \ {p}
    <3>1. CASE Preflight(p) \/ ExportSettings(p) \/ CreateRepositoryBackup(p) \/ CreateManifest(p)
      BY <2>1, <3>1
        DEF Preflight, ExportSettings, CreateRepositoryBackup, CreateManifest, Produce
    <3>2. CASE PrepareWorkDirectory(p)
      BY <2>1, <3>2 DEF PrepareWorkDirectory
    <3>3. CASE Upload(p)
      BY <2>1, <3>3 DEF Upload
    <3>4. CASE Verify(p)
      BY <2>1, <3>4 DEF Verify
    <3>5. CASE CleanUp(p)
      BY <2>1, <3>5 DEF CleanUp, StoreInv, StagingInv, TypeOK
    <3>6. CASE IoFails(p)
      BY <3>6 DEF IoFails
    <3>7. CASE Interrupt(p) \/ Kill(p)
      BY <2>1, <3>7 DEF Interrupt, Kill, Abort, StoreInv, StagingInv, TypeOK
    <3> QED
      BY <1>4, <3>1, <3>2, <3>3, <3>4, <3>5, <3>6, <3>7 DEF PipelineStep
  <2> QED
    BY <1>2, <1>3, <2>1, <2>2
<1>5. CASE UNCHANGED vars
  BY <1>5 DEF FailuresMarked, vars
<1> QED
  BY <1>1, <1>4, <1>5 DEF Next

(* Unless writing one fails, a directory carries the marker exactly if it is
   the one of a pipeline that failed. *)
THEOREM FailuresLeaveMarkers ==
  ASSUME "collision" \notin Faults, "marker" \notin Faults
  PROVE  Spec => []FailuresMarked
<1>1. Init => StoreInv /\ FailuresMarked
  BY InitStores DEF Init, FailuresMarked
<1>2. StoreInv /\ FailuresMarked /\ [Next]_vars => (StoreInv /\ FailuresMarked)'
  BY NextStores, MarksNext
<1> QED
  BY <1>1, <1>2, PTL DEF Spec

-----------------------------------------------------------------------------
(* Until it comes to its manifest, a pipeline has neither staged nor uploaded
   one. *)
Unfound(p) ==
  status[p] \in {"not started", "running"} =>
    /\ step[p] \notin {"upload", "verify", "cleanup"} => files[p]["manifest.json"] = None
    /\ step[p] \notin {"verify", "cleanup"} => blobs[p]["manifest.json"].content = None

PromiseInv == StoreInv /\ \A p \in Backups : Unfound(p)

(* What a step of pipeline p does as seen from outside. *)
Seen(p) ==
  /\ status[p] \in {"not started", "running"}
  /\ \A q \in Backups \ {p} : /\ status'[q] = status[q] /\ step'[q] = step[q]
                              /\ files'[q] = files[q] /\ blobs'[q] = blobs[q]
  /\ VerifyContent => Intact(p)' \/ ~Intact(p) \/ InStore(p)
  /\ \/ blobs'[p]["manifest.json"] = blobs[p]["manifest.json"]
        /\ (blobs'[p] = blobs[p] \/ blobs[p]["manifest.json"].content = None)
     \/ /\ blobs[p]["manifest.json"].content = None /\ Intact(p)
        /\ blobs'[p]["manifest.json"].content # None
  /\ status'[p] \in Statuses
  /\ VerifyContent /\ status'[p] = "SUCCESS" => InStore(p)
  /\ Unfound(p)'

LEMMA SeenKeeps ==
  ASSUME PromiseInv, NEW p \in Backups, StoreInv', Seen(p)
  PROVE  PromiseInv'
<1>1. ASSUME NEW q \in Backups \ {p} PROVE Unfound(q)'
  BY <1>1 DEF PromiseInv, Unfound, Seen
<1> QED
  BY <1>1 DEF PromiseInv, Seen

(* A copy in the container includes the manifest. *)
LEMMA InStoreListed ==
  ASSUME NEW p \in Backups, InStore(p)
  PROVE  blobs[p]["manifest.json"].content # None
<1>1. "manifest.json" \in BlobParts
  BY DEF BlobParts
<1>2. Pristine(p, "manifest.json") # None
  BY <1>1, PayloadsTyped DEF Damage
<1>3. blobs[p]["manifest.json"]
        = UploadFile(Pristine(p, "manifest.json"), Pristine(p, "manifest.json"))
  BY <1>1 DEF InStore
<1> QED
  BY <1>2, <1>3 DEF UploadFile

LEMMA SeenPromised ==
  ASSUME VerifyContent, NEW p \in Backups, Seen(p)
  PROVE  Promise!Next
<1>1. /\ reportOf[p] = "open" /\ reportOf'[p] = ReportFor(status'[p])
      /\ localOf[p] = Intact(p) /\ localOf'[p] = Intact(p)'
      /\ listedOf[p] = (blobs[p]["manifest.json"].content # None)
      /\ listedOf'[p] = (blobs'[p]["manifest.json"].content # None)
      /\ remoteOf[p] = InStore(p) /\ remoteOf'[p] = InStore(p)'
  BY DEF Seen, reportOf, ReportFor, localOf, listedOf, remoteOf
<1>2. Promise!Stage(p)
  BY <1>1 DEF Seen, Promise!Stage
<1>3. Promise!Publish(p)
  <2>1. CASE /\ blobs'[p]["manifest.json"] = blobs[p]["manifest.json"]
             /\ blobs'[p] = blobs[p]
    <3>1. InStore(p)' = InStore(p)
      BY <2>1 DEF InStore
    <3> QED
      BY <1>1, <2>1, <3>1 DEF Promise!Publish
  <2>2. CASE /\ blobs'[p]["manifest.json"] = blobs[p]["manifest.json"]
             /\ blobs[p]["manifest.json"].content = None
    <3>1. ~InStore(p)
      BY <2>2, InStoreListed
    <3>2. ~InStore(p)'
      <4>1. "manifest.json" \in BlobParts
        BY DEF BlobParts
      <4>2. Pristine(p, "manifest.json") # None
        BY <4>1, PayloadsTyped DEF Damage
      <4>3. InStore(p)' => blobs'[p]["manifest.json"]
              = UploadFile(Pristine(p, "manifest.json"), Pristine(p, "manifest.json"))
        BY <4>1 DEF InStore
      <4> QED
        BY <2>2, <4>2, <4>3 DEF UploadFile
    <3>3. InStore(p)' = InStore(p)
      BY <3>1, <3>2 DEF InStore
    <3> QED
      BY <1>1, <2>2, <3>3 DEF Promise!Publish
  <2>3. CASE /\ blobs[p]["manifest.json"].content = None /\ Intact(p)
             /\ blobs'[p]["manifest.json"].content # None
    <3>1. InStore(p)' \in BOOLEAN
      BY DEF InStore
    <3> QED
      BY <1>1, <2>3, <3>1 DEF Promise!Publish
  <2> QED
    BY <2>1, <2>2, <2>3 DEF Seen
<1>4. Promise!Conclude(p)
  <2>1. ReportFor(status'[p]) \in Promise!Reports
    BY DEF Seen, ReportFor, Statuses, Promise!Reports
  <2>2. ReportFor(status'[p]) = "SUCCESS" => status'[p] = "SUCCESS"
    BY DEF Seen, ReportFor, Statuses
  <2> QED
    BY <1>1, <2>1, <2>2 DEF Seen, Promise!Conclude
<1>5. Promise!Others(p)
  <2>1. ASSUME NEW q \in Backups \ {p}
        PROVE  /\ reportOf'[q] = reportOf[q] /\ localOf'[q] = localOf[q]
               /\ listedOf'[q] = listedOf[q] /\ remoteOf'[q] = remoteOf[q]
    <3>1. (Intact(q)' = Intact(q)) /\ (InStore(q)' = InStore(q))
      BY DEF Seen, Intact, InStore
    <3> QED
      BY <3>1 DEF Seen, reportOf, localOf, listedOf, remoteOf
  <2> QED
    BY <2>1 DEF Promise!Others
<1> QED
  BY <1>1, <1>2, <1>3, <1>4, <1>5 DEF Promise!Next

-----------------------------------------------------------------------------
(* Every step of a pipeline is seen as one of the promise's. *)
LEMMA PartsThere == {"backup.tsbak", "settings.json", "manifest.json"} = BlobParts
BY DEF BlobParts, Artifacts

LEMMA StoreSeen ==
  ASSUME PromiseInv, NEW p \in Backups, Active(p, "upload"), Store(p)
  PROVE  /\ \A q \in Backups \ {p} : blobs'[q] = blobs[q]
         /\ blobs[p]["manifest.json"].content = None /\ Intact(p)
         /\ part[p] # "manifest.json" => blobs'[p]["manifest.json"] = blobs[p]["manifest.json"]
         /\ \/ blobs'[p]["manifest.json"] = blobs[p]["manifest.json"]
            \/ blobs'[p]["manifest.json"].content # None
<1>1. prefix[p] = p /\ part[p] \in BlobParts
  BY StoreKeeps DEF PromiseInv, StoreInv, StagingInv, TypeOK
<1>2. PICK blob \in Uploads(p) : blobs' = [blobs EXCEPT ![p][part[p]] = blob]
  BY <1>1 DEF Store
<1>3. blob.content # None
  BY <1>2, UploadsTyped, NoneAssumption DEF PromiseInv, StoreInv
<1>4. /\ \A q \in Backups \ {p} : blobs'[q] = blobs[q]
      /\ \A x \in BlobParts \ {part[p]} : blobs'[p][x] = blobs[p][x]
      /\ blobs'[p][part[p]] = blob
  BY <1>1, <1>2 DEF PromiseInv, StoreInv, StagingInv, TypeOK
<1>5. Intact(p)
  BY <1>1 DEF PromiseInv, StoreInv, StagingInv, Control, StagedBefore, Intact
<1>6. blobs[p]["manifest.json"].content = None
  BY DEF PromiseInv, Unfound
<1> QED
  BY <1>3, <1>4, <1>5, <1>6, PartsThere

LEMMA LaunchSeen ==
  ASSUME PromiseInv, "collision" \notin Faults, NEW p \in Backups, Launch(p)
  PROVE  Seen(p)
<1>1. /\ status[p] = "not started" /\ UNCHANGED <<files, blobs>>
      /\ \/ End(p, "ERROR")
         \/ status' = [status EXCEPT ![p] = "running"] /\ step' = [step EXCEPT ![p] = "preflight"]
  BY DEF Launch
<1>2. /\ \A q \in Backups \ {p} : status'[q] = status[q] /\ step'[q] = step[q]
      /\ status'[p] \in {"ERROR", "running"} /\ step'[p] \in {"none", "preflight"}
  BY <1>1 DEF PromiseInv, StoreInv, StagingInv, TypeOK
<1>3. step[p] = "none"
  BY <1>1 DEF PromiseInv, StoreInv, StagingInv, TypeOK, Control
<1>4. Unfound(p)'
  BY <1>1, <1>2, <1>3 DEF PromiseInv, Unfound
<1>5. Intact(p)' = Intact(p)
  BY <1>1 DEF Intact
<1> QED
  BY <1>1, <1>2, <1>4, <1>5 DEF Seen, Statuses

LEMMA EarlySeen ==
  ASSUME PromiseInv, NEW p \in Backups, Preflight(p) \/ PrepareWorkDirectory(p) \/ Verify(p)
  PROVE  Seen(p)
<1>1. /\ status[p] = "running" /\ UNCHANGED <<files, blobs>>
      /\ \A q \in Backups \ {p} : status'[q] = status[q] /\ step'[q] = step[q]
      /\ \/ status'[p] = "ERROR"
         \/ /\ status'[p] = "running"
            /\ \/ step[p] \in {"preflight", "workdir"} /\ step'[p] \in {"workdir", "export"}
               \/ step[p] = "verify" /\ step'[p] \in {"verify", "cleanup"}
  BY RaiseTyped
    DEF PromiseInv, StoreInv, StagingInv, TypeOK, Preflight, PrepareWorkDirectory, Verify
<1>2. Unfound(p)'
  BY <1>1 DEF PromiseInv, Unfound
<1>3. Intact(p)' = Intact(p)
  BY <1>1 DEF Intact
<1> QED
  BY <1>1, <1>2, <1>3 DEF Seen, Statuses

LEMMA ProduceSeen ==
  ASSUME PromiseInv, NEW p \in Backups,
         ExportSettings(p) \/ CreateRepositoryBackup(p) \/ CreateManifest(p)
  PROVE  Seen(p)
<1>1. status[p] = "running" /\ prefix[p] = p
  BY NoneAssumption DEF PromiseInv, StoreInv, StagingInv, Control, ExportSettings,
                        CreateRepositoryBackup, CreateManifest, Produce
<1>2. PICK x \in BlobParts :
        /\ files[p][x] = None /\ files' = [files EXCEPT ![p][x] = Pristine(p, x)]
        /\ UNCHANGED <<status, blobs>>
        /\ \/ /\ x # "manifest.json"
              /\ step[p] \in {"export", "backup"}
              /\ \E s \in {"backup", "manifest"} : step' = [step EXCEPT ![p] = s]
           \/ step[p] = "manifest" /\ step' = [step EXCEPT ![p] = "upload"]
  BY <1>1, PartsThere
    DEF ExportSettings, CreateRepositoryBackup, CreateManifest, Produce
<1>3. /\ \A q \in Backups \ {p} : files'[q] = files[q] /\ step'[q] = step[q]
      /\ x # "manifest.json" => files'[p]["manifest.json"] = files[p]["manifest.json"]
      /\ \/ x # "manifest.json" /\ step[p] \in {"export", "backup"}
            /\ step'[p] \in {"backup", "manifest"}
         \/ step[p] = "manifest" /\ step'[p] = "upload"
  BY <1>2, PartsThere DEF PromiseInv, StoreInv, StagingInv, TypeOK
<1>4. ~Intact(p)
  <2>1. Pristine(p, x) # None
    BY PayloadsTyped DEF Damage
  <2> QED
    BY <1>2, <2>1 DEF Intact
<1>5. Unfound(p)'
  BY <1>1, <1>2, <1>3 DEF PromiseInv, Unfound
<1> QED
  BY <1>1, <1>2, <1>3, <1>4, <1>5 DEF Seen, Statuses

LEMMA UploadSeen ==
  ASSUME PromiseInv, NEW p \in Backups, Upload(p)
  PROVE  Seen(p)
<1>1. /\ status[p] = "running" /\ step[p] = "upload" /\ Store(p) /\ UNCHANGED <<status, files>>
      /\ \A q \in Backups \ {p} : step'[q] = step[q]
      /\ \/ part[p] # "manifest.json" /\ step'[p] = "upload"
         \/ part[p] = "manifest.json" /\ step'[p] = "verify"
  BY DEF Upload, PromiseInv, StoreInv, StagingInv, TypeOK
<1>2. Unfound(p)'
  BY <1>1, StoreSeen DEF PromiseInv, Unfound
<1>3. Intact(p)' = Intact(p)
  BY <1>1 DEF Intact
<1> QED
  BY <1>1, <1>2, <1>3, StoreSeen DEF Seen, Statuses

(* What was verified with the content check is in the container. *)
LEMMA VerifiedInStore ==
  ASSUME PromiseInv, VerifyContent, NEW p \in Backups, step[p] = "cleanup"
  PROVE  InStore(p)
BY DEF PromiseInv, StoreInv, Loops, Good, InStore

LEMMA CleanUpSeen ==
  ASSUME PromiseInv, NEW p \in Backups, CleanUp(p)
  PROVE  Seen(p)
<1>1. /\ status[p] = "running" /\ prefix[p] = p /\ UNCHANGED blobs
      /\ status'[p] = "SUCCESS"
      /\ \A q \in Backups \ {p} : status'[q] = status[q] /\ step'[q] = step[q]
  BY NoneAssumption DEF CleanUp, PromiseInv, StoreInv, StagingInv, TypeOK, Control
<1>2. \A q \in Backups \ {p} : files'[q] = files[q]
  BY <1>1, RemovedSomeTyped DEF PromiseInv, StoreInv, StagingInv, TypeOK, CleanUp
<1>3. VerifyContent => InStore(p)
  BY VerifiedInStore DEF CleanUp
<1>4. Unfound(p)'
  BY <1>1 DEF Unfound
<1> QED
  BY <1>1, <1>2, <1>3, <1>4 DEF Seen, Statuses

LEMMA StoppedSeen ==
  ASSUME PromiseInv, NEW p \in Backups, IoFails(p) \/ Interrupt(p) \/ Kill(p)
  PROVE  Seen(p)
<1>1. /\ status[p] = "running" /\ Unfinished(p) /\ UNCHANGED prefix
      /\ status'[p] \in {"ERROR", "interrupted", "killed"}
      /\ \A q \in Backups \ {p} : status'[q] = status[q] /\ step'[q] = step[q]
  BY RaiseTyped DEF PromiseInv, StoreInv, StagingInv, TypeOK, IoFails, Interrupt, Kill, Abort
<1>2. prefix[p] = p
  BY <1>1, NoneAssumption DEF PromiseInv, StoreInv, StagingInv, Control
<1>3. \A q \in Backups \ {p} : files'[q] = files[q]
  BY <1>1, <1>2, UnfinishedTyped DEF PromiseInv, StoreInv
<1>4. VerifyContent => Intact(p)' \/ ~Intact(p) \/ InStore(p)
  <2>1. CASE UNCHANGED files
    BY <2>1 DEF Intact
  <2>2. CASE step[p] \in DOMAIN FileOf
    <3>1. step[p] \in {"export", "backup", "manifest"}
      BY <2>2 DEF FileOf
    <3>2. files[p]["manifest.json"] = None
      BY <1>1, <3>1 DEF PromiseInv, Unfound
    <3>3. Pristine(p, "manifest.json") # None
      BY PartsThere, PayloadsTyped DEF Damage
    <3> QED
      BY <3>2, <3>3, PartsThere DEF Intact
  <2>3. CASE step[p] = "cleanup"
    BY <2>3, VerifiedInStore
  <2> QED
    BY <1>1, <2>1, <2>2, <2>3 DEF Unfinished
<1>5. UNCHANGED blobs \/ (Active(p, "upload") /\ Store(p))
  BY <1>1 DEF Unfinished
<1>6. Unfound(p)'
  BY <1>1 DEF Unfound
<1> QED
  BY <1>1, <1>3, <1>4, <1>5, <1>6, StoreSeen DEF Seen, Statuses

LEMMA NextSeen ==
  ASSUME PromiseInv, "collision" \notin Faults, Next
  PROVE  \E p \in Backups : Seen(p)
BY LaunchSeen, EarlySeen, ProduceSeen, UploadSeen, CleanUpSeen, StoppedSeen
  DEF Next, PipelineStep

LEMMA PromiseNext ==
  ASSUME PromiseInv, "collision" \notin Faults, [Next]_vars
  PROVE  /\ PromiseInv'
         /\ Next => \E p \in Backups : Seen(p)
<1>1. StoreInv'
  BY NextStores DEF PromiseInv
<1>2. CASE Next
  BY <1>1, <1>2, NextSeen, SeenKeeps
<1>3. CASE UNCHANGED vars
  <2>1. UNCHANGED <<status, step, files, blobs>>
    BY <1>3 DEF vars
  <2>2. \A p \in Backups : Unfound(p)'
    BY <2>1 DEF PromiseInv, Unfound
  <2>3. PromiseInv'
    BY <1>1, <2>2 DEF PromiseInv
  <2> QED
    BY <2>3, NextSeen
<1> QED
  BY <1>2, <1>3

LEMMA PromiseKept ==
  ASSUME PromiseInv, "collision" \notin Faults, VerifyContent, [Next]_vars
  PROVE  Promise!Next \/ UNCHANGED <<reportOf, localOf, listedOf, remoteOf>>
<1>1. CASE Next
  BY <1>1, NextSeen, SeenPromised
<1>2. CASE UNCHANGED vars
  BY <1>2 DEF vars, reportOf, localOf, listedOf, remoteOf, Intact, InStore
<1> QED
  BY <1>1, <1>2

LEMMA PromiseStarts ==
  ASSUME Init
  PROVE  PromiseInv /\ Promise!Init
<1>1. \A p \in Backups : /\ files[p]["manifest.json"] = None
                         /\ blobs[p]["manifest.json"].content = None
  BY PartsThere DEF Init, EmptyDir, NoBlob
<1>2. PromiseInv
  BY <1>1, InitStores DEF PromiseInv, Unfound
<1>3. ASSUME NEW p \in Backups
      PROVE  /\ ReportFor(status[p]) = "open" /\ Intact(p) = FALSE /\ InStore(p) = FALSE
             /\ (blobs[p]["manifest.json"].content # None) = FALSE
  <2>1. ReportFor(status[p]) = "open"
    BY DEF Init, ReportFor
  <2>2. Pristine(p, "manifest.json") # None
    BY PartsThere, PayloadsTyped DEF Damage
  <2>3. ~Intact(p)
    BY <1>1, <2>2, PartsThere DEF Intact
  <2>4. ~InStore(p)
    BY <1>1, InStoreListed
  <2> QED
    BY <1>1, <2>1, <2>3, <2>4 DEF Intact, InStore
<1>4. Promise!Init
  BY <1>3 DEF Promise!Init, reportOf, localOf, listedOf, remoteOf
<1> QED
  BY <1>2, <1>4

(* With names of their own and the content check, whatever fails, is
   interrupted or killed, the pipelines keep BackupPromise: no good copy is
   given up before there is another one, a backup that can be found never
   changes, and SUCCESS comes only with a good copy in the container. *)
THEOREM PipelinesKeepPromise ==
  ASSUME "collision" \notin Faults, VerifyContent
  PROVE  Spec => KeepsBackupPromise
<1>1. PromiseInv /\ [Next]_vars
        => PromiseInv' /\ [Promise!Next]_<<reportOf, localOf, listedOf, remoteOf>>
  BY PromiseNext, PromiseKept
<1> QED
  BY <1>1, PromiseStarts, PTL DEF Spec, KeepsBackupPromise, Promise!Spec
=============================================================================

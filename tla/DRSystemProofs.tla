--------------------------- MODULE DRSystemProofs ---------------------------
(***************************************************************************)
(* What a failover makes of the backups it meets in the container, for any *)
(* number of pipelines and failovers: what is known of the failovers from  *)
(* RecoveryStageProofs, and of the pipelines from an invariant of their    *)
(* own, put together.                                                      *)
(***************************************************************************)
EXTENDS DRSystem, RecoveryStageProofs

(* What a pipeline has staged before a step, and uploaded before a part. *)
StagedBefore(s) ==
  CASE s = "backup" -> {"settings.json"}
    [] s = "manifest" -> Artifacts
    [] s \in {"upload", "verify", "cleanup"} -> BlobParts
    [] OTHER -> {}

UploadedBefore(x) ==
  CASE x = "backup.tsbak" -> {}
    [] x = "settings.json" -> {"backup.tsbak"}
    [] x = "manifest.json" -> Artifacts

(* A blob that says whose it is, whatever became of its bytes. *)
InPlace(s, x) == blobs[s][x].content \in Payload /\ blobs[s][x].content.backup = s

Early == {"preflight", "workdir", "export", "backup", "manifest"}
Beginning(p) ==
  \/ status[p] = "not started"
  \/ status[p] = "running" /\ pipeline_step[p] \in Early
Finished(p) ==
  \/ status[p] = "running" /\ pipeline_step[p] \in {"verify", "cleanup"}
  \/ status[p] = "SUCCESS"

(* With a name of its own, a pipeline alone works in its directory and below
   its prefix: what it needs for its next step it has made itself, and the
   manifest comes last. *)
Alone(p) ==
  /\ status[p] \in {"running", "SUCCESS"} => prefix[p] = p
  /\ status[p] = "running" => pipeline_step[p] \in Early \cup {"upload", "verify", "cleanup"}
  /\ status[p] = "running" =>
       \A x \in StagedBefore(pipeline_step[p]) : staging_files[p][x] = Pristine(p, x)
  /\ Beginning(p) => part[p] = "backup.tsbak" /\ blobs[p]["manifest.json"].content = None
  /\ status[p] = "running" /\ pipeline_step[p] = "upload" =>
       /\ \A x \in UploadedBefore(part[p]) : InPlace(p, x)
       /\ blobs[p]["manifest.json"].content = None
  /\ Finished(p) => \A x \in BlobParts : InPlace(p, x)
  /\ blobs[p]["manifest.json"].content # None => \A x \in BlobParts : InPlace(p, x)

PipelinesOK ==
  /\ status \in [Backups -> Pipeline!Statuses]
  /\ pipeline_step \in [Backups -> Pipeline!Steps]
  /\ part \in [Backups -> BlobParts]
  /\ prefix \in [Backups -> Backups \cup {None}]
  /\ staging_files \in [Backups -> [BlobParts -> Payload \cup {None}]]
  /\ StoreOK

PipelinesInv == PipelinesOK /\ \A p \in Backups : Alone(p)

-----------------------------------------------------------------------------
(* A step of pipeline p keeps to what belongs to p. *)
Apart(p) ==
  \A q \in Backups \ {p} :
    /\ status'[q] = status[q] /\ pipeline_step'[q] = pipeline_step[q]
    /\ part'[q] = part[q] /\ prefix'[q] = prefix[q]
    /\ staging_files'[q] = staging_files[q] /\ blobs'[q] = blobs[q]

LEMMA ApartKeeps ==
  ASSUME PipelinesInv, NEW p \in Backups, PipelinesOK', Apart(p), Alone(p)'
  PROVE  PipelinesInv'
<1>1. ASSUME NEW q \in Backups \ {p} PROVE Alone(q)'
  <2>1. /\ status'[q] = status[q] /\ pipeline_step'[q] = pipeline_step[q]
        /\ part'[q] = part[q] /\ prefix'[q] = prefix[q]
        /\ staging_files'[q] = staging_files[q] /\ blobs'[q] = blobs[q]
    BY DEF Apart
  <2>2. /\ \A x \in BlobParts : InPlace(q, x) => InPlace(q, x)'
        /\ \A x \in UploadedBefore(part[q]) : InPlace(q, x) => InPlace(q, x)'
    BY <2>1 DEF InPlace
  <2>3. Alone(q) /\ Finished(q)' = Finished(q) /\ Beginning(q)' = Beginning(q)
    BY <2>1 DEF PipelinesInv, Finished, Beginning
  <2> QED
    BY <2>1, <2>2, <2>3 DEF Alone
<1> QED
  BY <1>1 DEF PipelinesInv

(* How the pipelines move on, and the names the two sides share. *)
USE DEF Pipeline!Active, Pipeline!Goto, Pipeline!End, Pipeline!staging, Pipeline!verdicts

LEMMA SameNames ==
  /\ Pipeline!BlobParts = BlobParts /\ Pipeline!Artifacts = Artifacts
  /\ Pipeline!NoBlob = NoBlob
  /\ \A p, x : Pipeline!Pristine(p, x) = Pristine(p, x)
  /\ \A p, x, how : Pipeline!Damaged(p, x, how) = Damaged(p, x, how)
  /\ {"backup.tsbak", "settings.json", "manifest.json"} = BlobParts
BY DEF Pipeline!BlobParts, BlobParts, Pipeline!Artifacts, Artifacts, Pipeline!NoBlob, NoBlob,
       Pipeline!Pristine, Pristine, Pipeline!Damaged, Damaged

LEMMA PayloadsTyped ==
  ASSUME NEW p \in Backups, NEW x \in BlobParts, NEW how \in Damage
  PROVE  /\ Pristine(p, x) \in Payload /\ Damaged(p, x, how) \in Payload
         /\ Pristine(p, x) # None
BY NoneAssumption DEF Pristine, Damaged, Payload, Damage

LEMMA RaiseMovesOn ==
  ASSUME PipelinesOK, NEW p \in Backups, Pipeline!Raise(p)
  PROVE  /\ status' \in [Backups -> Pipeline!Statuses]
         /\ pipeline_step' \in [Backups -> Pipeline!Steps]
         /\ status'[p] = "ERROR" /\ pipeline_step'[p] = "none"
         /\ \A q \in Backups \ {p} :
              status'[q] = status[q] /\ pipeline_step'[q] = pipeline_step[q]
BY DEF PipelinesOK, Pipeline!Raise, Pipeline!Statuses, Pipeline!Steps

(* Only a pipeline that is started, or works with its files, has more to keep
   than what it keeps when it ends. *)
LEMMA EndedAlone ==
  ASSUME PipelinesInv, NEW p \in Backups,
         status'[p] \in {"ERROR", "interrupted", "killed"}, UNCHANGED blobs
  PROVE  Alone(p)'
BY DEF PipelinesInv, Alone, Beginning, Finished, InPlace

LEMMA LaunchAlone ==
  ASSUME PipelinesInv, "collision" \notin PipelineFaults, NEW p \in Backups,
         Pipeline!Launch(p), blobFaults' = blobFaults
  PROVE  PipelinesInv'
<1>1. /\ status[p] = "not started" /\ UNCHANGED <<part, staging_files, blobs>>
      /\ \/ Pipeline!End(p, "ERROR") /\ UNCHANGED prefix
         \/ /\ prefix' = [prefix EXCEPT ![p] = p]
            /\ status' = [status EXCEPT ![p] = "running"]
            /\ pipeline_step' = [pipeline_step EXCEPT ![p] = "preflight"]
  BY DEF Pipeline!Launch
<1>2. PipelinesOK'
  <2>1. /\ "ERROR" \in Pipeline!Statuses /\ "running" \in Pipeline!Statuses
        /\ "none" \in Pipeline!Steps /\ "preflight" \in Pipeline!Steps
        /\ status \in [Backups -> Pipeline!Statuses]
        /\ pipeline_step \in [Backups -> Pipeline!Steps]
    BY DEF PipelinesInv, PipelinesOK, Pipeline!Statuses, Pipeline!Steps
  <2>2. /\ status' \in [Backups -> Pipeline!Statuses]
        /\ pipeline_step' \in [Backups -> Pipeline!Steps]
    BY <1>1, <2>1
  <2>3. prefix' \in [Backups -> Backups \cup {None}]
    BY <1>1 DEF PipelinesInv, PipelinesOK
  <2> QED
    BY <1>1, <2>2, <2>3 DEF PipelinesInv, PipelinesOK, StoreOK
<1>3. Apart(p)
  BY <1>1 DEF PipelinesInv, PipelinesOK, Apart
<1>4. part[p] = "backup.tsbak" /\ blobs[p]["manifest.json"].content = None
  BY <1>1 DEF PipelinesInv, Alone, Beginning
<1>5. CASE Pipeline!End(p, "ERROR") /\ UNCHANGED prefix
  BY <1>1, <1>5, EndedAlone, ApartKeeps, <1>2, <1>3 DEF PipelinesInv, PipelinesOK
<1>6. CASE /\ prefix' = [prefix EXCEPT ![p] = p]
           /\ status' = [status EXCEPT ![p] = "running"]
           /\ pipeline_step' = [pipeline_step EXCEPT ![p] = "preflight"]
  <2>1. /\ status'[p] = "running" /\ pipeline_step'[p] = "preflight" /\ prefix'[p] = p
        /\ UNCHANGED <<part, blobs>>
    BY <1>1, <1>6 DEF PipelinesInv, PipelinesOK
  <2>2. Alone(p)'
    BY <1>4, <2>1 DEF Alone, Beginning, Finished, StagedBefore, Early
  <2> QED
    BY <1>2, <1>3, <2>2, ApartKeeps
<1> QED
  BY <1>1, <1>5, <1>6

LEMMA EarlyAlone ==
  ASSUME PipelinesInv, NEW p \in Backups,
         Pipeline!Preflight(p) \/ Pipeline!PrepareWorkDirectory(p), blobFaults' = blobFaults
  PROVE  PipelinesInv'
<1>1. /\ status[p] = "running" /\ UNCHANGED <<part, prefix, staging_files, blobs>>
      /\ pipeline_step[p] \in Early
      /\ \/ Pipeline!Raise(p)
         \/ UNCHANGED status /\ \E s \in {"workdir", "export"} :
              pipeline_step' = [pipeline_step EXCEPT ![p] = s]
  BY DEF Pipeline!Preflight, Pipeline!PrepareWorkDirectory, Early
<1>2. PipelinesOK'
  BY <1>1, RaiseMovesOn DEF PipelinesInv, PipelinesOK, StoreOK, Pipeline!Steps
<1>3. Apart(p)
  BY <1>1, RaiseMovesOn DEF PipelinesInv, PipelinesOK, Apart
<1>4. Alone(p)'
  <2>1. CASE Pipeline!Raise(p)
    BY <1>1, <2>1, RaiseMovesOn, EndedAlone DEF PipelinesInv
  <2>2. ASSUME UNCHANGED status, NEW s \in {"workdir", "export"},
               pipeline_step' = [pipeline_step EXCEPT ![p] = s]
        PROVE  Alone(p)'
    BY <1>1, <2>2 DEF PipelinesInv, PipelinesOK, Alone, Beginning, Finished, InPlace, StagedBefore, Early
  <2> QED
    BY <1>1, <2>1, <2>2
<1> QED
  BY <1>2, <1>3, <1>4, ApartKeeps

LEMMA ProduceAlone ==
  ASSUME PipelinesInv, NEW p \in Backups, blobFaults' = blobFaults,
         NEW s, NEW x, NEW next,
         <<s, x, next>> \in {<<"export", "settings.json", "backup">>,
                            <<"backup", "backup.tsbak", "manifest">>,
                            <<"manifest", "manifest.json", "upload">>},
         Pipeline!Produce(p, s, x, next)
  PROVE  PipelinesInv'
<1> x \in BlobParts /\ next \in Pipeline!Steps /\ s \in Early
  BY DEF BlobParts, Artifacts, Pipeline!Steps, Early
<1>1. /\ status[p] = "running" /\ pipeline_step[p] = s /\ prefix[p] = p
      /\ staging_files' = [staging_files EXCEPT ![p][x] = Pristine(p, x)]
      /\ pipeline_step' = [pipeline_step EXCEPT ![p] = next]
      /\ UNCHANGED <<status, part, prefix, blobs>>
  <2>1. prefix[p] = p
    BY DEF PipelinesInv, Alone, Pipeline!Produce
  <2> QED
    BY <2>1, SameNames DEF Pipeline!Produce
<1>2. Pristine(p, x) \in Payload
  BY PayloadsTyped DEF Damage
<1>3. PipelinesOK'
  BY <1>1, <1>2 DEF PipelinesInv, PipelinesOK, StoreOK
<1>4. Apart(p)
  BY <1>1 DEF PipelinesInv, PipelinesOK, Apart
<1>5. StagedBefore(next) = StagedBefore(s) \cup {x}
  BY DEF StagedBefore, BlobParts, Artifacts
<1>6. \A y \in StagedBefore(next) : staging_files'[p][y] = Pristine(p, y)
  <2>1. \A y \in StagedBefore(s) : y \in BlobParts /\ staging_files[p][y] = Pristine(p, y)
    <3>1. StagedBefore(s) \subseteq BlobParts
      BY DEF StagedBefore, BlobParts, Artifacts
    <3> QED
      BY <1>1, <3>1 DEF PipelinesInv, Alone
  <2> QED
    BY <1>1, <1>5, <2>1 DEF PipelinesInv, PipelinesOK
<1>7. part[p] = "backup.tsbak" /\ blobs[p]["manifest.json"].content = None
  BY <1>1 DEF PipelinesInv, Alone, Beginning
<1>8. /\ status'[p] = "running" /\ pipeline_step'[p] = next /\ prefix'[p] = p
      /\ next \in {"backup", "manifest", "upload"}
  BY <1>1 DEF PipelinesInv, PipelinesOK
<1>9. Alone(p)'
  BY <1>1, <1>6, <1>7, <1>8 DEF Alone, Beginning, Finished, UploadedBefore, Early
<1> QED
  BY <1>3, <1>4, <1>9, ApartKeeps

(* What one upload can put into the store. *)
LEMMA UploadsInPlace ==
  ASSUME PipelinesInv, NEW p \in Backups,
         status[p] = "running", pipeline_step[p] = "upload", Pipeline!Store(p)
  PROVE  \E blob \in Blob : /\ blob.content \in Payload /\ blob.content.backup = p
                            /\ blobs' = [blobs EXCEPT ![p][part[p]] = blob]
<1> DEFINE file == Pristine(p, part[p])
<1>1. prefix[p] = p /\ part[p] \in BlobParts
  BY DEF PipelinesInv, PipelinesOK, Alone
<1>2. staging_files[p][part[p]] = file
  BY <1>1 DEF PipelinesInv, Alone, StagedBefore
<1>3. /\ Pipeline!Pristine(p, part[p]) = file
      /\ \A sent, checksum : Pipeline!UploadFile(sent, checksum) = UploadFile(sent, checksum)
  BY SameNames DEF Pipeline!UploadFile, UploadFile, Pipeline!SizeOf, SizeOf
<1> DEFINE altered == Damaged(p, part[p], "altered")
           resized == Damaged(p, part[p], "resized")
<1>4. /\ [file EXCEPT !.damage = "altered"] = altered
      /\ [file EXCEPT !.damage = "resized"] = resized
  BY DEF Pristine, Damaged
<1>5. \A sent \in {file, altered, resized} : sent \in Payload /\ sent.backup = p
  <2>1. file \in Payload /\ altered \in Payload /\ resized \in Payload
    BY <1>1, PayloadsTyped DEF Damage
  <2>2. file.backup = p /\ altered.backup = p /\ resized.backup = p
    BY DEF Pristine, Damaged
  <2> QED
    BY <2>1, <2>2
<1> HIDE DEF file, altered, resized
<1>6. PICK sent \in {file, altered, resized} :
        blobs' = [blobs EXCEPT ![p][part[p]] = UploadFile(sent, file)]
  <2>1. Pipeline!Uploads(p)
          = {UploadFile(sent, file) :
               sent \in {file} \cup (IF "upload" \in PipelineFaults
                                     THEN {altered, resized} ELSE {})}
    BY <1>1, <1>2, <1>3, <1>4 DEF Pipeline!Uploads
  <2>2. \E blob \in Pipeline!Uploads(p) : blobs' = [blobs EXCEPT ![p][part[p]] = blob]
    BY <1>1 DEF Pipeline!Store
  <2> QED
    BY <2>1, <2>2
<1>7. UploadFile(sent, file) \in Blob /\ UploadFile(sent, file).content = sent
  BY <1>5, <1>6 DEF UploadFile, Blob, SizeOf
<1> QED
  BY <1>5, <1>6, <1>7

(* One more blob of p; the manifest only after the artifacts. *)
LEMMA StoreKeeps ==
  ASSUME PipelinesInv, NEW p \in Backups,
         status[p] = "running", pipeline_step[p] = "upload", Pipeline!Store(p)
  PROVE  /\ blobs' \in [Backups -> [BlobParts -> Blob]]
         /\ \A q \in Backups \ {p} : blobs'[q] = blobs[q]
         /\ blobs[p]["manifest.json"].content = None
         /\ \A x \in UploadedBefore(part[p]) \cup {part[p]} : InPlace(p, x)'
         /\ part[p] # "manifest.json" => blobs'[p]["manifest.json"].content = None
         /\ blobs'[p]["manifest.json"].content # None => \A x \in BlobParts : InPlace(p, x)'
<1>1. PICK blob \in Blob : /\ blob.content \in Payload /\ blob.content.backup = p
                           /\ blobs' = [blobs EXCEPT ![p][part[p]] = blob]
  BY UploadsInPlace
<1>2. part[p] \in BlobParts /\ blobs \in [Backups -> [BlobParts -> Blob]]
  BY DEF PipelinesInv, PipelinesOK, StoreOK
<1>3. /\ blobs' \in [Backups -> [BlobParts -> Blob]]
      /\ \A q \in Backups \ {p} : blobs'[q] = blobs[q]
      /\ blobs'[p][part[p]] = blob
      /\ \A x \in BlobParts \ {part[p]} : blobs'[p][x] = blobs[p][x]
  BY <1>1, <1>2
<1>4. /\ blobs[p]["manifest.json"].content = None
      /\ \A x \in UploadedBefore(part[p]) : InPlace(p, x)
  BY DEF PipelinesInv, Alone
<1>5. \A x : x = part[p] => InPlace(p, x)'
  BY <1>1, <1>3 DEF InPlace
<1>6. \A x \in UploadedBefore(part[p]) : InPlace(p, x)'
  <2>1. UploadedBefore(part[p]) \subseteq BlobParts \ {part[p]}
    BY <1>2 DEF UploadedBefore, BlobParts, Artifacts
  <2> QED
    BY <1>3, <1>4, <2>1 DEF InPlace
<1>7. part[p] # "manifest.json" => blobs'[p]["manifest.json"].content = None
  BY <1>3, <1>4, SameNames
<1>8. part[p] = "manifest.json" => \A x \in BlobParts : x \in UploadedBefore(part[p]) \cup {part[p]}
  BY DEF UploadedBefore, BlobParts
<1> QED
  BY <1>3, <1>4, <1>5, <1>6, <1>7, <1>8

LEMMA UploadAlone ==
  ASSUME PipelinesInv, NEW p \in Backups, Pipeline!Upload(p), blobFaults' = blobFaults
  PROVE  PipelinesInv'
<1>1. /\ status[p] = "running" /\ pipeline_step[p] = "upload" /\ Pipeline!Store(p)
      /\ UNCHANGED <<status, prefix, staging_files>> /\ prefix[p] = p
      /\ part[p] \in BlobParts
  BY DEF Pipeline!Upload, PipelinesInv, PipelinesOK, Alone
<1>2. \/ /\ part[p] = "manifest.json" /\ pipeline_step' = [pipeline_step EXCEPT ![p] = "verify"]
         /\ part' = [part EXCEPT ![p] = "backup.tsbak"]
      \/ /\ part[p] # "manifest.json" /\ UNCHANGED pipeline_step
         /\ part' = [part EXCEPT ![p] = Pipeline!NextPart(part[p])]
  BY DEF Pipeline!Upload
<1>3. PipelinesOK'
  <2>1. "verify" \in Pipeline!Steps /\ "backup.tsbak" \in BlobParts
        /\ Pipeline!NextPart(part[p]) \in BlobParts
    BY DEF Pipeline!Steps, BlobParts, Artifacts, Pipeline!NextPart
  <2>2. part' \in [Backups -> BlobParts] /\ pipeline_step' \in [Backups -> Pipeline!Steps]
    BY <1>2, <2>1 DEF PipelinesInv, PipelinesOK
  <2> QED
    BY <1>1, <2>2, StoreKeeps DEF PipelinesInv, PipelinesOK, StoreOK
<1>4. Apart(p)
  BY <1>1, <1>2, StoreKeeps DEF PipelinesInv, PipelinesOK, Apart
<1>5. \A x \in BlobParts : staging_files'[p][x] = Pristine(p, x)
  BY <1>1 DEF PipelinesInv, Alone, StagedBefore
<1>6. CASE part[p] = "manifest.json"
  <2>1. pipeline_step'[p] = "verify" /\ status'[p] = "running" /\ prefix'[p] = p
    BY <1>1, <1>2, <1>6 DEF PipelinesInv, PipelinesOK
  <2>2. StagedBefore(pipeline_step'[p]) = BlobParts
    BY <2>1 DEF StagedBefore
  <2>3. \A x \in BlobParts : InPlace(p, x)'
    <3>1. BlobParts \subseteq UploadedBefore(part[p]) \cup {part[p]}
      BY <1>6 DEF UploadedBefore, BlobParts
    <3> QED
      BY <1>1, <3>1, StoreKeeps
  <2>4. Alone(p)'
    BY <1>5, <2>1, <2>2, <2>3 DEF Alone, Beginning, Finished, Early
  <2> QED
    BY <1>3, <1>4, <2>4, ApartKeeps
<1>7. CASE part[p] # "manifest.json"
  <2>1. /\ pipeline_step'[p] = "upload" /\ status'[p] = "running" /\ prefix'[p] = p
        /\ part'[p] = Pipeline!NextPart(part[p])
    BY <1>1, <1>2, <1>7 DEF PipelinesInv, PipelinesOK
  <2>2. UploadedBefore(part'[p]) = UploadedBefore(part[p]) \cup {part[p]}
    BY <1>1, <1>7, <2>1 DEF UploadedBefore, Pipeline!NextPart, BlobParts, Artifacts
  <2>3. StagedBefore(pipeline_step'[p]) = BlobParts
    BY <2>1 DEF StagedBefore
  <2>4. /\ blobs'[p]["manifest.json"].content = None
        /\ \A x \in UploadedBefore(part'[p]) : InPlace(p, x)'
    BY <1>1, <1>7, <2>2, StoreKeeps
  <2>5. Alone(p)'
    BY <1>5, <2>1, <2>3, <2>4 DEF Alone, Beginning, Finished, Early
  <2> QED
    BY <1>3, <1>4, <2>5, ApartKeeps
<1> QED
  BY <1>6, <1>7

(* Verification and cleanup leave the store alone. *)
LEMMA VerifyAlone ==
  ASSUME PipelinesInv, NEW p \in Backups, Pipeline!Verify(p) \/ Pipeline!CleanUp(p),
         blobFaults' = blobFaults
  PROVE  PipelinesInv'
<1>1. /\ status[p] = "running" /\ UNCHANGED <<prefix, blobs>> /\ prefix[p] = p
      /\ pipeline_step[p] \in {"verify", "cleanup"}
  BY DEF Pipeline!Verify, Pipeline!CleanUp, PipelinesInv, Alone
<1>2. \A x \in BlobParts : InPlace(p, x) /\ InPlace(p, x)'
  BY <1>1 DEF PipelinesInv, Alone, Finished, InPlace
<1>3. CASE Pipeline!Verify(p)
  <2>1. /\ UNCHANGED staging_files
        /\ \/ Pipeline!Raise(p) /\ UNCHANGED part
           \/ /\ UNCHANGED status
              /\ \/ pipeline_step' = [pipeline_step EXCEPT ![p] = "cleanup"] /\ UNCHANGED part
                 \/ /\ UNCHANGED pipeline_step
                    /\ part' = [part EXCEPT ![p] = Pipeline!NextPart(part[p])]
    BY <1>3 DEF Pipeline!Verify
  <2>2. PipelinesOK'
    <3>1. Pipeline!NextPart(part[p]) \in BlobParts /\ "cleanup" \in Pipeline!Steps
      BY DEF Pipeline!NextPart, BlobParts, Artifacts, Pipeline!Steps
    <3>2. /\ part' \in [Backups -> BlobParts]
          /\ pipeline_step' \in [Backups -> Pipeline!Steps]
          /\ status' \in [Backups -> Pipeline!Statuses]
      BY <2>1, <3>1, RaiseMovesOn DEF PipelinesInv, PipelinesOK
    <3> QED
      BY <1>1, <2>1, <3>2 DEF PipelinesInv, PipelinesOK, StoreOK
  <2>3. Apart(p)
    BY <1>1, <2>1, RaiseMovesOn DEF PipelinesInv, PipelinesOK, Apart
  <2>4. CASE Pipeline!Raise(p)
    BY <1>1, <2>2, <2>3, <2>4, RaiseMovesOn, EndedAlone, ApartKeeps DEF PipelinesInv
  <2>5. CASE UNCHANGED status /\ pipeline_step'[p] \in {"verify", "cleanup"}
    <3>1. StagedBefore(pipeline_step[p]) = BlobParts /\ StagedBefore(pipeline_step'[p]) = BlobParts
      BY <1>1, <2>5 DEF StagedBefore
    <3>2. \A x \in BlobParts : staging_files'[p][x] = Pristine(p, x)
      BY <1>1, <2>1, <3>1 DEF PipelinesInv, Alone
    <3>3. Alone(p)'
      BY <1>1, <1>2, <2>5, <3>1, <3>2 DEF Alone, Beginning, Finished, Early
    <3> QED
      BY <2>2, <2>3, <3>3, ApartKeeps
  <2> QED
    BY <1>1, <2>1, <2>4, <2>5 DEF PipelinesInv, PipelinesOK
<1>4. CASE Pipeline!CleanUp(p)
  <2>1. /\ status' = [status EXCEPT ![p] = "SUCCESS"]
        /\ pipeline_step' = [pipeline_step EXCEPT ![p] = "none"] /\ UNCHANGED part
    BY <1>4 DEF Pipeline!CleanUp
  <2>2. \E kept \in SUBSET BlobParts :
           staging_files' = [staging_files EXCEPT ![p] =
                               [x \in BlobParts |-> IF x \in kept THEN @[x] ELSE None]]
    <3>1. CASE staging_files' = [staging_files EXCEPT ![p] = Pipeline!EmptyDir]
      <4>1. Pipeline!EmptyDir
              = [x \in BlobParts |-> IF x \in {} THEN staging_files[p][x] ELSE None]
        BY SameNames DEF Pipeline!EmptyDir
      <4>2. staging_files' = [staging_files EXCEPT ![p] =
                                [x \in BlobParts |-> IF x \in {} THEN @[x] ELSE None]]
        BY <3>1, <4>1, Zenon
      <4> WITNESS {} \in SUBSET BlobParts
      <4> QED
        BY <4>2
    <3>2. CASE Pipeline!RemovedSome(p)
      <4>1. PICK kept \in SUBSET Pipeline!BlobParts :
               staging_files' = [staging_files EXCEPT ![prefix[p]] =
                 [x \in Pipeline!BlobParts |-> IF x \in kept THEN @[x] ELSE None]]
        BY <3>2 DEF Pipeline!RemovedSome
      <4>2. prefix[p] = p /\ Pipeline!BlobParts = BlobParts
        BY <1>1, SameNames
      <4>3. kept \in SUBSET BlobParts
        BY <4>1, <4>2
      <4>4. staging_files' = [staging_files EXCEPT ![p] =
                                [x \in BlobParts |-> IF x \in kept THEN @[x] ELSE None]]
        BY <4>1, <4>2, Zenon
      <4> WITNESS kept \in SUBSET BlobParts
      <4> QED
        BY <4>4
    <3> QED
      BY <1>1, <1>4, <3>1, <3>2 DEF Pipeline!CleanUp
  <2>3. /\ staging_files' \in [Backups -> [BlobParts -> Payload \cup {None}]]
        /\ \A q \in Backups \ {p} : staging_files'[q] = staging_files[q]
    BY <2>2 DEF PipelinesInv, PipelinesOK
  <2>4. PipelinesOK'
    <3>1. status' \in [Backups -> Pipeline!Statuses] /\ pipeline_step' \in [Backups -> Pipeline!Steps]
      BY <2>1 DEF PipelinesInv, PipelinesOK, Pipeline!Statuses, Pipeline!Steps
    <3> QED
      BY <1>1, <2>1, <2>3, <3>1 DEF PipelinesInv, PipelinesOK, StoreOK
  <2>5. Apart(p)
    BY <1>1, <2>1, <2>3 DEF PipelinesInv, PipelinesOK, Apart
  <2>6. status'[p] = "SUCCESS" /\ prefix'[p] = p
    BY <1>1, <2>1 DEF PipelinesInv, PipelinesOK
  <2>7. Alone(p)'
    BY <1>2, <2>6 DEF Alone, Beginning, Finished
  <2> QED
    BY <2>4, <2>5, <2>7, ApartKeeps
<1> QED
  BY <1>3, <1>4

(* What a step that is cut short leaves. *)
LEMMA UnfinishedKeeps ==
  ASSUME PipelinesInv, NEW p \in Backups, status[p] = "running", Pipeline!Unfinished(p)
  PROVE  /\ staging_files' \in [Backups -> [BlobParts -> Payload \cup {None}]]
         /\ \A q \in Backups \ {p} : staging_files'[q] = staging_files[q]
         /\ UNCHANGED blobs \/ (pipeline_step[p] = "upload" /\ Pipeline!Store(p))
<1>1. /\ staging_files \in [Backups -> [BlobParts -> Payload \cup {None}]]
      /\ prefix[p] = p
  BY DEF PipelinesInv, PipelinesOK, Alone
<1>2. CASE UNCHANGED staging_files
  BY <1>1, <1>2 DEF Pipeline!Unfinished
<1>3. CASE /\ pipeline_step[p] \in DOMAIN Pipeline!FileOf
           /\ \E how \in {"torn", "none"} :
                staging_files' = [staging_files EXCEPT ![prefix[p]][Pipeline!FileOf[pipeline_step[p]]] =
                   Pipeline!Damaged(p, Pipeline!FileOf[pipeline_step[p]], how)]
           /\ UNCHANGED blobs
  <2> DEFINE x == Pipeline!FileOf[pipeline_step[p]]
  <2>1. x \in BlobParts
    BY <1>3 DEF Pipeline!FileOf, BlobParts, Artifacts
  <2> HIDE DEF x
  <2>2. PICK how \in {"torn", "none"} :
          staging_files' = [staging_files EXCEPT ![p][x] = Damaged(p, x, how)]
    BY <1>1, <1>3, SameNames DEF x
  <2>3. Damaged(p, x, how) \in Payload
    BY <2>1, PayloadsTyped DEF Damage
  <2> QED
    BY <1>1, <1>3, <2>1, <2>2, <2>3
<1>4. CASE Pipeline!RemovedSome(p) /\ UNCHANGED blobs
  <2>1. Pipeline!BlobParts = BlobParts
    BY SameNames
  <2>2. PICK kept \in SUBSET BlobParts :
          staging_files' = [staging_files EXCEPT ![p] =
                              [x \in BlobParts |-> IF x \in kept THEN @[x] ELSE None]]
    BY <1>1, <1>4, <2>1 DEF Pipeline!RemovedSome
  <2> QED
    BY <1>1, <1>4, <2>2
<1> QED
  BY <1>2, <1>3, <1>4 DEF Pipeline!Unfinished

LEMMA StoppedAlone ==
  ASSUME PipelinesInv, NEW p \in Backups, blobFaults' = blobFaults,
         Pipeline!IoFails(p) \/ Pipeline!Interrupt(p) \/ Pipeline!Kill(p)
  PROVE  PipelinesInv'
<1>1. /\ status[p] = "running" /\ Pipeline!Unfinished(p) /\ UNCHANGED <<part, prefix>>
      /\ \/ Pipeline!Raise(p)
         \/ \E how \in {"interrupted", "killed"} : Pipeline!End(p, how)
  BY DEF Pipeline!IoFails, Pipeline!Interrupt, Pipeline!Kill, Pipeline!Abort
<1>2. /\ status' \in [Backups -> Pipeline!Statuses]
      /\ pipeline_step' \in [Backups -> Pipeline!Steps]
      /\ status'[p] \in {"ERROR", "interrupted", "killed"}
      /\ \A q \in Backups \ {p} :
           status'[q] = status[q] /\ pipeline_step'[q] = pipeline_step[q]
  <2>1. CASE Pipeline!Raise(p)
    BY <2>1, RaiseMovesOn DEF PipelinesInv
  <2>2. ASSUME NEW how \in {"interrupted", "killed"}, Pipeline!End(p, how)
        PROVE  /\ status' \in [Backups -> Pipeline!Statuses]
               /\ pipeline_step' \in [Backups -> Pipeline!Steps]
               /\ status'[p] = how
               /\ \A q \in Backups \ {p} :
                    status'[q] = status[q] /\ pipeline_step'[q] = pipeline_step[q]
    <3>1. how \in Pipeline!Statuses /\ "none" \in Pipeline!Steps
      BY DEF Pipeline!Statuses, Pipeline!Steps
    <3> QED
      BY <2>2, <3>1 DEF PipelinesInv, PipelinesOK
  <2> QED
    BY <1>1, <2>1, <2>2
<1>3. /\ staging_files' \in [Backups -> [BlobParts -> Payload \cup {None}]]
      /\ \A q \in Backups \ {p} : staging_files'[q] = staging_files[q]
      /\ UNCHANGED blobs \/ (pipeline_step[p] = "upload" /\ Pipeline!Store(p))
  BY <1>1, UnfinishedKeeps
<1>4. PipelinesOK'
  BY <1>1, <1>2, <1>3, StoreKeeps DEF PipelinesInv, PipelinesOK, StoreOK
<1>5. Apart(p)
  BY <1>1, <1>2, <1>3, StoreKeeps DEF Apart
<1>6. Alone(p)'
  <2>1. blobs'[p]["manifest.json"].content # None => \A x \in BlobParts : InPlace(p, x)'
    BY <1>1, <1>3, StoreKeeps DEF PipelinesInv, Alone, InPlace
  <2> QED
    BY <1>2, <2>1 DEF Alone, Beginning, Finished
<1> QED
  BY <1>4, <1>5, <1>6, ApartKeeps

LEMMA PipelinesNext ==
  ASSUME PipelinesInv, "collision" \notin PipelineFaults, Pipeline!Next, blobFaults' = blobFaults
  PROVE  PipelinesInv'
BY LaunchAlone, EarlyAlone, ProduceAlone, UploadAlone, VerifyAlone, StoppedAlone
  DEF Pipeline!Next, Pipeline!PipelineStep, Pipeline!ExportSettings,
      Pipeline!CreateRepositoryBackup, Pipeline!CreateManifest

(* No step changes a backup that can be found. *)
LEMMA ListedFinal ==
  ASSUME PipelinesInv, Pipeline!Next, NEW s \in Backups,
         blobs[s]["manifest.json"].content # None
  PROVE  blobs'[s] = blobs[s]
<1>1. PICK p \in Backups : \/ Pipeline!Launch(p) \/ Pipeline!PipelineStep(p)
                           \/ Pipeline!Interrupt(p) \/ Pipeline!Kill(p)
  BY DEF Pipeline!Next
<1>2. CASE UNCHANGED blobs
  BY <1>2
<1>3. CASE status[p] = "running" /\ pipeline_step[p] = "upload" /\ Pipeline!Store(p)
  BY <1>3, StoreKeeps
<1>4. CASE status[p] = "running" /\ Pipeline!Unfinished(p)
  BY <1>2, <1>3, <1>4, UnfinishedKeeps
<1> QED
  BY <1>1, <1>2, <1>3, <1>4
    DEF Pipeline!Launch, Pipeline!PipelineStep, Pipeline!Preflight,
        Pipeline!PrepareWorkDirectory, Pipeline!ExportSettings, Pipeline!CreateRepositoryBackup,
        Pipeline!CreateManifest, Pipeline!Produce, Pipeline!Upload, Pipeline!Verify,
        Pipeline!CleanUp, Pipeline!IoFails, Pipeline!Interrupt, Pipeline!Kill, Pipeline!Abort

LEMMA PipelinesInit ==
  ASSUME Init, Pipeline!Init
  PROVE  PipelinesInv
<1>1. StoreOK
  BY InitTyped DEF TypeInv, TypeOK
<1>2. \A p \in Backups : blobs[p]["manifest.json"].content = None
  BY SameNames DEF Pipeline!Init, NoBlob
<1>3. PipelinesOK
  <2>1. "not started" \in Pipeline!Statuses /\ "none" \in Pipeline!Steps
        /\ "backup.tsbak" \in BlobParts
    BY DEF Pipeline!Statuses, Pipeline!Steps, BlobParts, Artifacts
  <2>2. Pipeline!EmptyDir = [x \in BlobParts |-> None]
    BY SameNames DEF Pipeline!EmptyDir
  <2> QED
    BY <1>1, <2>1, <2>2 DEF Pipeline!Init, PipelinesOK
<1>4. ASSUME NEW p \in Backups PROVE Alone(p)
  BY <1>2 DEF Pipeline!Init, Alone, Beginning, Finished
<1> QED
  BY <1>3, <1>4 DEF PipelinesInv

-----------------------------------------------------------------------------
(* What a failover without --manifest-blob knows of the backup it reads: it
   can be found, so it is all there and final; its manifest says whose it
   is; and what is not downloaded yet is not in the work directory. *)
Searching == {"fence", "confirm", "preflight", "resolve"}
Reading(r) ==
  /\ selected[r] # None => blobs[selected[r]]["manifest.json"].content # None
  /\ outcome[r] = "not started" => selected[r] = None
  /\ outcome[r] = "running" /\ step[r] \in Searching => selected[r] = None
  /\ outcome[r] = "running" /\ step[r] \in ReadsManifest =>
       /\ selected[r] # None /\ manifest[r].backup = selected[r]
       /\ step[r] # "verify" => files[work_dir[r]][artifact[r]] = None
       /\ artifact[r] = "backup.tsbak" => files[work_dir[r]]["settings.json"] = None

SystemInv == GatedInv /\ PipelinesInv /\ \A r \in Runs : Reading(r)

(* A step of production. *)
LEMMA BackUpKeeps ==
  ASSUME SystemInv, "collision" \notin PipelineFaults, BackUp
  PROVE  SystemInv'
<1>1. UNCHANGED <<control, memory, host, tsm, blobFaults>> /\ Pipeline!Next
  BY DEF BackUp
<1>2. PipelinesInv'
  BY <1>1, PipelinesNext DEF SystemInv
<1>3. GatedInv'
  <2>1. TypeInv'
    BY <1>1, <1>2
      DEF SystemInv, GatedInv, StageInv, VerifiedInv, TypeInv, TypeOK, ControlOK, MemoryOK,
          HostOK, TsmOK, Equipped, PipelinesInv, PipelinesOK, control, memory, host, tsm
  <2>2. VerifiedInv'
    BY <1>1, <2>1
      DEF SystemInv, GatedInv, StageInv, VerifiedInv, OwnDirectories, LateCommands, CleanFiles,
          MayRead, IntactOf, RestoredContentVerified, HoldsVerified, control, memory, host, tsm
  <2>3. StageInv'
    BY <1>1, <2>2, OthersReport DEF SystemInv, GatedInv, StageInv, host
  <2>4. \A r \in Runs : Validated(r)'
    BY <1>1, RestValidated DEF SystemInv, host, tsm
  <2> QED
    BY <2>3, <2>4 DEF GatedInv
<1>4. ASSUME NEW r \in Runs PROVE Reading(r)'
  <2>1. selected[r] \in Backups \cup {None} /\ Reading(r)
    BY DEF SystemInv, GatedInv, StageInv, VerifiedInv, TypeInv, TypeOK, MemoryOK
  <2>2. selected[r] # None => blobs'[selected[r]] = blobs[selected[r]]
    BY <1>1, <2>1, ListedFinal DEF SystemInv, Reading
  <2> QED
    BY <1>1, <2>1, <2>2 DEF Reading, control, memory, host
<1> QED
  BY <1>2, <1>3, <1>4 DEF SystemInv

(* A failover writes nothing to the container. *)
LEMMA FailOverReads ==
  ASSUME FailOver
  PROVE  UNCHANGED <<blobs, blobFaults, production>> /\ Next
<1>1. PICK r \in Runs : Launch(r) \/ RunStep(r) \/ Interrupt(r) \/ Kill(r) \/ JobEnds(r)
  BY DEF FailOver
<1>2. Next
  BY <1>1 DEF Next
<1>3. UNCHANGED store
  <2>1. Launch(r) \/ Interrupt(r) \/ Kill(r) \/ JobEnds(r) => UNCHANGED store
    BY DEF Launch, Interrupt, Kill, JobEnds
  <2>2. /\ Fence(r) \/ ConfirmFencing(r) \/ Preflight(r) => UNCHANGED store
        /\ ResolveManifest(r) \/ AcquireManifest(r) => UNCHANGED store
        /\ CheckProperties(r) \/ DownloadArtifact(r) => UNCHANGED store
        /\ DownloadBreaks(r) \/ VerifyArtifact(r) => UNCHANGED store
    BY DEF Fence, ConfirmFencing, Preflight, ResolveManifest, AcquireManifest,
           CheckProperties, DownloadArtifact, DownloadBreaks, VerifyArtifact
  <2>3. /\ StopDR(r) \/ RestoreRepository(r) \/ ImportSettings(r) => UNCHANGED store
        /\ ArtifactMissing(r) \/ ReadSecrets(r) => UNCHANGED store
        /\ WriteCertificate(r) \/ WriteKey(r) => UNCHANGED store
        /\ EnableExternalSsl(r) \/ ApplyPendingChanges(r) => UNCHANGED store
        /\ CleanUpSecrets(r) \/ StartDR(r) \/ ValidateHealth(r) => UNCHANGED store
        /\ IoFails(r) \/ TsmFails(r) => UNCHANGED store
    BY DEF StopDR, RestoreRepository, ImportSettings, ArtifactMissing, ReadSecrets, WriteSecret,
           WriteCertificate, WriteKey, EnableExternalSsl, ApplyPendingChanges, CleanUpSecrets,
           StartDR, ValidateHealth, IoFails, TsmFails
  <2> QED
    BY <1>1, <2>1, <2>2, <2>3 DEF RunStep
<1> QED
  BY <1>2, <1>3 DEF FailOver, store

LEMMA RestPipelines ==
  ASSUME PipelinesInv, UNCHANGED <<blobs, blobFaults, production>>
  PROVE  PipelinesInv'
<1>1. PipelinesOK'
  BY DEF PipelinesInv, PipelinesOK, StoreOK, production
<1>2. ASSUME NEW p \in Backups PROVE Alone(p)'
  <2>1. /\ \A x \in BlobParts : InPlace(p, x) => InPlace(p, x)'
        /\ \A x \in UploadedBefore(part[p]) : InPlace(p, x) => InPlace(p, x)'
    BY DEF InPlace
  <2>2. Alone(p) /\ Finished(p)' = Finished(p) /\ Beginning(p)' = Beginning(p)
    BY DEF PipelinesInv, Finished, Beginning, production
  <2> QED
    BY <2>1, <2>2 DEF Alone, production
<1> QED
  BY <1>1, <1>2 DEF PipelinesInv

(* The failover's own step: what it does to the attributes the others and
   itself are judged by. *)
LEMMA OthersRead ==
  ASSUME SystemInv, NEW r \in Runs, RunStep(r) \/ Interrupt(r) \/ Kill(r), UNCHANGED blobs,
         NEW q \in Runs \ {r}
  PROVE  Reading(q)'
<1>1. Frame(r) /\ outcome[r] = "running"
  BY StepFrames, StepMoves, EndsMove DEF SystemInv, GatedInv, ControlMoves
<1>2. selected'[q] = selected[q]
  <2>1. UNCHANGED selected \/ \E b : selected' = [selected EXCEPT ![r] = b]
    BY DEF RunStep, Fence, ConfirmFencing, Preflight, ResolveManifest, AcquireManifest,
         CheckProperties, DownloadArtifact, DownloadBreaks, VerifyArtifact, StopDR,
         RestoreRepository, ImportSettings, ArtifactMissing, ReadSecrets, WriteSecret,
         WriteCertificate, WriteKey, EnableExternalSsl, ApplyPendingChanges,
         CleanUpSecrets, StartDR, ValidateHealth, IoFails, TsmFails, Interrupt, Kill, memory
  <2> QED
    BY <2>1 DEF SystemInv, GatedInv, StageInv, VerifiedInv, TypeInv, TypeOK, MemoryOK
<1>3. artifact'[q] = artifact[q]
  <2>1. UNCHANGED artifact \/ \E x : artifact' = [artifact EXCEPT ![r] = x]
    BY DEF RunStep, Fence, ConfirmFencing, Preflight, ResolveManifest, AcquireManifest,
         CheckProperties, DownloadArtifact, DownloadBreaks, VerifyArtifact, StopDR,
         RestoreRepository, ImportSettings, ArtifactMissing, ReadSecrets, WriteSecret,
         WriteCertificate, WriteKey, EnableExternalSsl, ApplyPendingChanges,
         CleanUpSecrets, StartDR, ValidateHealth, IoFails, TsmFails, Interrupt, Kill, memory
  <2> QED
    BY <2>1 DEF SystemInv, GatedInv, StageInv, VerifiedInv, TypeInv, TypeOK, MemoryOK
<1>4. outcome[q] = "running" => files'[work_dir[q]] = files[work_dir[q]]
  <2>1. outcome[q] = "running" => work_dir[q] \in WorkDirs /\ work_dir[q] # work_dir[r]
    BY <1>1, RecoveryAssumption
      DEF SystemInv, GatedInv, StageInv, VerifiedInv, TypeInv, TypeOK, HostOK, Equipped,
          OwnDirectories
  <2> QED
    BY <1>1, <2>1 DEF Frame
<1> QED
  BY <1>1, <1>2, <1>3, <1>4 DEF SystemInv, Reading, Frame

(* Steps of r that choose nothing and download nothing. *)
LEMMA AwayReads ==
  ASSUME SystemInv, NEW r \in Runs, UNCHANGED blobs,
         \/ Fence(r) \/ ConfirmFencing(r) \/ Preflight(r) \/ DownloadBreaks(r)
         \/ StopDR(r) \/ RestoreRepository(r) \/ ImportSettings(r) \/ ArtifactMissing(r)
         \/ ReadSecrets(r) \/ WriteCertificate(r) \/ WriteKey(r)
         \/ EnableExternalSsl(r) \/ ApplyPendingChanges(r) \/ CleanUpSecrets(r)
         \/ StartDR(r) \/ ValidateHealth(r) \/ IoFails(r) \/ TsmFails(r)
         \/ Interrupt(r) \/ Kill(r)
  PROVE  Reading(r)'
<1> DEFINE Later == {"stop", "restore", "import", "cleanup", "start", "health"} \cup RebindSteps
<1>1. outcome[r] = "running" /\ UNCHANGED selected
  BY DEF Fence, ConfirmFencing, Preflight, DownloadBreaks, StopDR, RestoreRepository,
         ImportSettings, ArtifactMissing, ReadSecrets, WriteCertificate, WriteKey, WriteSecret,
         EnableExternalSsl, ApplyPendingChanges, CleanUpSecrets, StartDR, ValidateHealth,
         IoFails, TsmFails, Interrupt, Kill, TsmSucceeds, Active, memory
<1>2. ControlOK /\ Reading(r)
  BY DEF SystemInv, GatedInv, StageInv, VerifiedInv, TypeInv, TypeOK
<1>3. ASSUME outcome'[r] \in {"FAILED", "interrupted", "killed", "SUCCESS"}
      PROVE  Reading(r)'
  BY <1>1, <1>2, <1>3 DEF Reading
<1>4. ASSUME NEW s \in Searching \cup Later, step'[r] = s, UNCHANGED outcome,
             s \in Searching => step[r] \in Searching
      PROVE  Reading(r)'
  BY <1>1, <1>2, <1>4 DEF Reading, Searching, ReadsManifest, RebindSteps
<1>5. /\ Fail(r) => outcome'[r] = "FAILED"
      /\ \A how \in {"interrupted", "killed"} : Gone(r, how) => outcome'[r] = how
      /\ \A s : Goto(r, s) => step'[r] = s /\ UNCHANGED outcome
      /\ \A next, s : Advance(r, next, s) => step'[r] = s /\ UNCHANGED outcome
  BY <1>2 DEF Fail, Gone, Goto, Advance, ControlOK
<1>6. Raise(r) => Reading(r)'
  BY <1>3, <1>4, <1>5 DEF Raise, Searching
<1>7. CASE Fence(r) \/ ConfirmFencing(r) \/ Preflight(r)
  <2>1. \/ Fail(r)
        \/ /\ step[r] \in Searching
           /\ \E next, s : Advance(r, next, s) /\ s \in Searching
    BY <1>7 DEF Fence, ConfirmFencing, Preflight, Active, Searching
  <2> QED
    BY <1>3, <1>4, <1>5, <2>1
<1>8. CASE DownloadBreaks(r) \/ ArtifactMissing(r)
  BY <1>3, <1>5, <1>8 DEF DownloadBreaks, ArtifactMissing
<1>9. CASE \/ StopDR(r) \/ RestoreRepository(r) \/ ImportSettings(r) \/ ReadSecrets(r)
           \/ WriteCertificate(r) \/ WriteKey(r) \/ EnableExternalSsl(r)
           \/ ApplyPendingChanges(r) \/ StartDR(r)
  <2>1. ASSUME NEW s \in Later, step'[r] = s, UNCHANGED outcome
        PROVE  Reading(r)'
    BY <1>4, <2>1 DEF Searching, RebindSteps
  <2>2. /\ StopDR(r) => Advance(r, "REPOSITORY_RESTORED", "restore")
        /\ RestoreRepository(r) => Advance(r, "SETTINGS_IMPORTED", "import")
        /\ ImportSettings(r) => Advance(r, "SECURITY_REBOUND", "secrets")
        /\ StartDR(r) => Advance(r, "HEALTH_VALIDATED", "health")
        /\ ReadSecrets(r) => Goto(r, "cert")
        /\ WriteCertificate(r) => Goto(r, "key")
        /\ WriteKey(r) => Goto(r, "external-ssl")
        /\ EnableExternalSsl(r) => Goto(r, "apply")
        /\ ApplyPendingChanges(r) => Goto(r, "cleanup")
    BY DEF StopDR, RestoreRepository, ImportSettings, StartDR, ReadSecrets,
           WriteCertificate, WriteKey, WriteSecret, EnableExternalSsl, ApplyPendingChanges
  <2>3. /\ \A next : Advance(r, next, "restore") => Reading(r)'
        /\ \A next : Advance(r, next, "import") => Reading(r)'
        /\ \A next : Advance(r, next, "secrets") => Reading(r)'
        /\ \A next : Advance(r, next, "health") => Reading(r)'
    BY <1>5, <2>1 DEF RebindSteps
  <2>4. \A s \in RebindSteps \cup {"cleanup"} : Goto(r, s) => Reading(r)'
    BY <1>5, <2>1
  <2> QED
    BY <1>9, <2>2, <2>3, <2>4 DEF RebindSteps
<1>10. CASE CleanUpSecrets(r)
  <2>1. Advance(r, "DR_STARTED", "start") \/ Fail(r) \/ Gone(r, "interrupted")
    BY <1>10 DEF CleanUpSecrets
  <2> QED
    BY <1>3, <1>4, <1>5, <2>1 DEF Searching
<1>11. CASE ValidateHealth(r)
  <2>1. Fail(r) \/ outcome' = [outcome EXCEPT ![r] = "SUCCESS"]
    BY <1>11 DEF ValidateHealth
  <2> QED
    BY <1>2, <1>3, <1>5, <2>1 DEF ControlOK
<1>12. CASE IoFails(r) \/ TsmFails(r)
  BY <1>6, <1>12 DEF IoFails, TsmFails
<1>13. CASE Interrupt(r) \/ Kill(r)
  <2>1. Goto(r, "cleanup") \/ Gone(r, "interrupted") \/ Gone(r, "killed")
    BY <1>13 DEF Interrupt, Kill
  <2> QED
    BY <1>3, <1>4, <1>5, <2>1 DEF Searching
<1> QED
  BY <1>7, <1>8, <1>9, <1>10, <1>11, <1>12, <1>13

(* The listing: what is chosen can be found. *)
LEMMA ResolveReads ==
  ASSUME SystemInv, ManifestArgs \subseteq {None}, NEW r \in Runs, ResolveManifest(r),
         UNCHANGED blobs
  PROVE  /\ Reading(r)'
         /\ \A q \in Runs : selected'[q] # selected[q] =>
              /\ q = r /\ selected'[q] \in Backups
              /\ \A c \in Listed : c <= selected'[q]
<1>1. ControlOK /\ MemoryOK /\ Reading(r) /\ outcome[r] = "running"
  BY DEF SystemInv, GatedInv, StageInv, VerifiedInv, TypeInv, TypeOK, ResolveManifest, Active
<1>2. CASE Fail(r) /\ UNCHANGED selected
  <2>1. outcome'[r] = "FAILED"
    BY <1>1, <1>2 DEF Fail, ControlOK
  <2> QED
    BY <1>1, <1>2, <2>1 DEF Reading
<1>3. ASSUME NEW b \in Listed, \A c \in Listed : c <= b,
             selected' = [selected EXCEPT ![r] = b], Goto(r, "manifest")
      PROVE  /\ Reading(r)'
             /\ \A q \in Runs : selected'[q] # selected[q] =>
                  /\ q = r /\ selected'[q] \in Backups
                  /\ \A c \in Listed : c <= selected'[q]
  <2>1. /\ b \in Backups /\ blobs[b]["manifest.json"].content # None
        /\ selected'[r] = b /\ outcome'[r] = "running" /\ step'[r] = "manifest"
        /\ \A q \in Runs \ {r} : selected'[q] = selected[q]
    BY <1>1, <1>3 DEF Listed, MemoryOK, ControlOK, Goto
  <2>2. Reading(r)'
    BY <2>1 DEF Reading, Searching, ReadsManifest
  <2> QED
    BY <1>3, <2>1, <2>2
<1> QED
  BY <1>2, <1>3 DEF ResolveManifest

(* A manifest that can be found says whose it is. *)
LEMMA SelectedInPlace ==
  ASSUME SystemInv, NEW r \in Runs, selected[r] # None
  PROVE  selected[r] \in Backups /\ \A x \in BlobParts : InPlace(selected[r], x)
<1>1. selected[r] \in Backups /\ blobs[selected[r]]["manifest.json"].content # None
  BY DEF SystemInv, Reading, GatedInv, StageInv, VerifiedInv, TypeInv, TypeOK, MemoryOK
<1> QED
  BY <1>1 DEF SystemInv, PipelinesInv, Alone

LEMMA DownloadReads ==
  ASSUME SystemInv, NEW r \in Runs, UNCHANGED blobs,
         \/ AcquireManifest(r) \/ CheckProperties(r) \/ DownloadArtifact(r) \/ VerifyArtifact(r)
  PROVE  Reading(r)'
<1>1. /\ ControlOK /\ MemoryOK /\ HostOK /\ Reading(r) /\ outcome[r] = "running"
      /\ UNCHANGED <<selected, work_dir>> /\ work_dir[r] \in WorkDirs
  BY DEF SystemInv, GatedInv, StageInv, VerifiedInv, TypeInv, TypeOK, HostOK, Equipped,
         AcquireManifest, CheckProperties, DownloadArtifact, VerifyArtifact, Active, memory
<1>2. CASE Fail(r)
  <2>1. outcome'[r] = "FAILED"
    BY <1>1, <1>2 DEF Fail, ControlOK
  <2> QED
    BY <1>1, <2>1 DEF Reading
<1>3. CASE AcquireManifest(r) /\ ~Fail(r)
  <2> DEFINE payload == blobs[selected[r]]["manifest.json"].content
  <2>1. /\ manifest' = [manifest EXCEPT ![r] = payload]
        /\ artifact' = [artifact EXCEPT ![r] = "backup.tsbak"]
        /\ step'[r] = "properties" /\ UNCHANGED <<outcome, files>>
    BY <1>1, <1>3 DEF AcquireManifest, Advance, ControlOK
  <2>2. selected[r] \in Backups
    BY <1>1, <1>3
      DEF SystemInv, GatedInv, StageInv, VerifiedInv, TypeInv, Equipped, AcquireManifest, Active
  <2>3. selected[r] # None
    BY <2>2, NoneAssumption
  <2>4. payload.backup = selected[r]
    BY <2>3, SelectedInPlace, SameNames DEF InPlace
  <2>5. \A x \in Artifacts : files[work_dir[r]][x] = None
    <3>1. ~(StageOf(step[r]) >= 5)
      BY <1>3, StageOfCalls DEF AcquireManifest, Active
    <3>2. manifest[r] = None
      BY <1>1, <3>1 DEF SystemInv, GatedInv, Validated
    <3> QED
      BY <1>1, <3>2, NoFiles DEF SystemInv
  <2> HIDE DEF payload
  <2>6. manifest'[r] = payload /\ artifact'[r] = "backup.tsbak"
    BY <1>1, <2>1 DEF MemoryOK
  <2> QED
    BY <1>1, <2>1, <2>3, <2>4, <2>5, <2>6 DEF Reading, Searching, Artifacts
<1>4. CASE CheckProperties(r) /\ ~Fail(r)
  <2>1. /\ step[r] = "properties" /\ step'[r] = "download"
        /\ UNCHANGED <<outcome, manifest, artifact, files>>
    BY <1>1, <1>4 DEF CheckProperties, Active, Goto, ControlOK, memory
  <2> QED
    BY <1>1, <2>1 DEF Reading, Searching, ReadsManifest
<1>5. CASE DownloadArtifact(r) /\ ~Fail(r)
  <2>1. /\ step[r] = "download" /\ step'[r] = "verify"
        /\ UNCHANGED <<outcome, manifest, artifact>> /\ \E payload : SaveFile(r, payload)
    BY <1>1, <1>5 DEF DownloadArtifact, Active, Goto, ControlOK, memory
  <2>2. artifact[r] = "backup.tsbak" =>
          files'[work_dir[r]]["settings.json"] = files[work_dir[r]]["settings.json"]
    BY <1>1, <2>1 DEF SaveFile, HostOK
  <2> QED
    BY <1>1, <2>1, <2>2 DEF Reading, Searching, ReadsManifest
<1>6. CASE VerifyArtifact(r) /\ ~Fail(r)
  <2>1. /\ step[r] = "verify" /\ UNCHANGED <<outcome, manifest, files>>
        /\ \/ /\ artifact[r] = "backup.tsbak" /\ step'[r] = "properties"
              /\ artifact'[r] = "settings.json"
           \/ step'[r] = "stop"
    BY <1>1, <1>6 DEF VerifyArtifact, Active, Goto, Advance, ControlOK, MemoryOK
  <2> QED
    BY <1>1, <2>1 DEF Reading, Searching, ReadsManifest
<1> QED
  BY <1>2, <1>3, <1>4, <1>5, <1>6

LEMMA LaunchReads ==
  ASSUME SystemInv, NEW r \in Runs, Launch(r), UNCHANGED blobs, NEW q \in Runs
  PROVE  Reading(q)'
<1>1. /\ ControlOK /\ HostOK /\ Reading(q) /\ Reading(r) /\ outcome[r] = "not started"
      /\ UNCHANGED <<artifact, selected, manifest, files>>
  BY DEF Launch, SystemInv, GatedInv, StageInv, VerifiedInv, TypeInv, TypeOK, memory
<1>2. CASE q # r
  <2>1. outcome'[q] = outcome[q] /\ step'[q] = step[q] /\ work_dir'[q] = work_dir[q]
    BY <1>1, <1>2 DEF Launch, Fail, ControlOK, HostOK
  <2> QED
    BY <1>1, <2>1 DEF Reading
<1>3. CASE q = r
  <2>1. \/ outcome'[r] = "FAILED"
        \/ outcome'[r] = "running" /\ step'[r] = "fence"
    BY <1>1 DEF Launch, Fail, ControlOK
  <2> QED
    BY <1>1, <1>3, <2>1 DEF Reading, Searching, ReadsManifest
<1> QED
  BY <1>2, <1>3

(* A step of a failover. *)
LEMMA FailOverKeeps ==
  ASSUME SystemInv, ManifestArgs \subseteq {None}, FailOver
  PROVE  SystemInv'
<1>1. UNCHANGED <<blobs, blobFaults, production>> /\ Next
  BY FailOverReads
<1>2. GatedInv' /\ PipelinesInv'
  BY <1>1, GatedNext, RestPipelines DEF SystemInv
<1>3. PICK r \in Runs : Launch(r) \/ RunStep(r) \/ Interrupt(r) \/ Kill(r) \/ JobEnds(r)
  BY DEF FailOver
<1> SUFFICES ASSUME NEW q \in Runs PROVE Reading(q)'
  BY <1>2 DEF SystemInv
<1>4. CASE Launch(r)
  BY <1>1, <1>4, LaunchReads
<1>5. CASE JobEnds(r)
  BY <1>1, <1>5 DEF JobEnds, SystemInv, Reading, control, memory, host
<1>6. CASE (RunStep(r) \/ Interrupt(r) \/ Kill(r)) /\ q # r
  BY <1>1, <1>6, OthersRead
<1>7. CASE (RunStep(r) \/ Interrupt(r) \/ Kill(r)) /\ q = r
  BY <1>1, <1>7, AwayReads, ResolveReads, DownloadReads DEF RunStep
<1> QED
  BY <1>3, <1>4, <1>5, <1>6, <1>7

LEMMA SystemStarts ==
  SystemInit => SystemInv
<1> SUFFICES ASSUME Init, Pipeline!Init PROVE SystemInv
  BY DEF SystemInit
<1>1. \A r \in Runs : Reading(r)
  BY DEF Init, Reading
<1> QED
  BY <1>1, GatedInit, PipelinesInit DEF SystemInv

LEMMA SystemKeeps ==
  ASSUME SystemInv, "collision" \notin PipelineFaults, ManifestArgs \subseteq {None},
         [SystemNext]_<<vars, production>>
  PROVE  SystemInv'
<1>1. CASE UNCHANGED <<vars, production>>
  <2>1. UNCHANGED <<blobs, blobFaults, production>> /\ [Next]_vars
    BY <1>1 DEF vars, store
  <2>2. GatedInv' /\ PipelinesInv'
    BY <2>1, GatedNext, RestPipelines DEF SystemInv
  <2>3. \A r \in Runs : Reading(r)'
    BY <1>1 DEF SystemInv, Reading, vars, control, memory, host, store
  <2> QED
    BY <2>2, <2>3 DEF SystemInv
<1> QED
  BY <1>1, BackUpKeeps, FailOverKeeps DEF SystemNext

-----------------------------------------------------------------------------
(* The listing is taken once, and only then is a backup chosen. *)
LEMMA OnlyTheListing ==
  ASSUME SystemInv, SystemNext, NEW q \in Runs, selected'[q] # selected[q]
  PROVE  /\ FailOver /\ UNCHANGED <<blobs, status, prefix>>
         /\ \E r \in Runs : ResolveManifest(r)
<1>1. FailOver
  BY DEF SystemNext, BackUp, memory
<1>2. UNCHANGED <<blobs, status, prefix>>
  BY <1>1, FailOverReads DEF production
<1>3. \E r \in Runs : ResolveManifest(r)
  <2>1. PICK r \in Runs : Launch(r) \/ RunStep(r) \/ Interrupt(r) \/ Kill(r) \/ JobEnds(r)
    BY <1>1 DEF FailOver
  <2>2. ~UNCHANGED selected
    OBVIOUS
  <2>3. ~Launch(r) /\ ~Interrupt(r) /\ ~Kill(r) /\ ~JobEnds(r)
    BY <2>2 DEF Launch, Interrupt, Kill, JobEnds, memory
  <2>4. /\ ~Fence(r) /\ ~ConfirmFencing(r) /\ ~Preflight(r) /\ ~AcquireManifest(r)
        /\ ~CheckProperties(r) /\ ~DownloadArtifact(r) /\ ~DownloadBreaks(r)
        /\ ~VerifyArtifact(r)
    BY <2>2 DEF Fence, ConfirmFencing, Preflight, AcquireManifest, CheckProperties,
                DownloadArtifact, DownloadBreaks, VerifyArtifact, memory
  <2>5. /\ ~StopDR(r) /\ ~RestoreRepository(r) /\ ~ImportSettings(r) /\ ~ArtifactMissing(r)
        /\ ~EnableExternalSsl(r) /\ ~ApplyPendingChanges(r) /\ ~StartDR(r) /\ ~TsmFails(r)
    BY <2>2 DEF StopDR, RestoreRepository, ImportSettings, ArtifactMissing, EnableExternalSsl,
                ApplyPendingChanges, StartDR, TsmFails, memory
  <2>6. /\ ~ReadSecrets(r) /\ ~WriteCertificate(r) /\ ~WriteKey(r) /\ ~CleanUpSecrets(r)
        /\ ~ValidateHealth(r) /\ ~IoFails(r)
    BY <2>2 DEF ReadSecrets, WriteCertificate, WriteKey, WriteSecret, CleanUpSecrets,
                ValidateHealth, IoFails, memory
  <2> QED
    BY <2>1, <2>3, <2>4, <2>5, <2>6 DEF RunStep
<1> QED
  BY <1>1, <1>2, <1>3

(* With pipelines that have names of their own, a failover without
   --manifest-blob never settles on a backup older than one a pipeline has
   reported SUCCESS for: what reported SUCCESS is listed. *)
THEOREM FreshestIsListed ==
  ASSUME "collision" \notin PipelineFaults, ManifestArgs \subseteq {None}
  PROVE  SystemSpec => FreshestListed
<1>1. ASSUME SystemInv, SystemNext, NEW q \in Runs, selected'[q] # selected[q],
             NEW p \in Backups, status[p] = "SUCCESS"
      PROVE  selected'[q] >= prefix[p]
  <2>1. PICK r \in Runs : ResolveManifest(r) /\ UNCHANGED blobs
    BY <1>1, OnlyTheListing
  <2>2. selected'[q] \in Backups /\ \A c \in Listed : c <= selected'[q]
    BY <1>1, <2>1, ResolveReads
  <2>3. prefix[p] = p /\ InPlace(p, "manifest.json")
    BY <1>1 DEF SystemInv, PipelinesInv, Alone, Finished, BlobParts
  <2>4. p \in Listed
    BY <2>3, NoneAssumption DEF Listed, InPlace
  <2> QED
    BY <2>2, <2>3, <2>4, BackupsAssumption
<1>2. SystemInv /\ [SystemNext]_<<vars, production>>
        => [\A r \in Runs :
              selected'[r] # selected[r]
                => \A p \in Backups : status[p] = "SUCCESS" => selected'[r] >= prefix[p]
           ]_<<vars, production>>
  BY <1>1
<1>3. SystemInv /\ [SystemNext]_<<vars, production>> => SystemInv'
  BY SystemKeeps
<1> QED
  BY <1>2, <1>3, SystemStarts, PTL DEF SystemSpec, FreshestListed

-----------------------------------------------------------------------------
(* The calls during which a run names one of the two validation stages. *)
LEMMA ValidationCalls ==
  ASSUME SystemInv, NEW r \in Runs, outcome[r] = "running",
         failed_step[r] \in {"MANIFEST_VALIDATED", "BACKUP_ARTIFACTS_VALIDATED"}
  PROVE  step[r] \in {"resolve", "manifest"} \cup ReadsManifest
<1> DEFINE k == StageOf(step[r])
<1>1. k \in 1 .. 11 /\ failed_step[r] = StageOrder[k]
  BY StageOfRange DEF SystemInv, GatedInv, StageInv, Progress, AtStage, InStage
<1> HIDE DEF k
<1>2. k = 4 \/ k = 5
  BY <1>1, StageAt
<1> QED
  BY <1>2 DEF k, StageOf, ReadsManifest

(* Whoever else moves, a run fails only in a step of its own. *)
LEMMA OwnFailure ==
  ASSUME SystemInv, FailOver, NEW r \in Runs,
         outcome'[r] = "FAILED", outcome[r] # "FAILED", failed_step[r] # None
  PROVE  RunStep(r) /\ outcome[r] = "running"
<1>1. PICK q \in Runs : Launch(q) \/ RunStep(q) \/ Interrupt(q) \/ Kill(q) \/ JobEnds(q)
  BY DEF FailOver
<1>2. ControlOK /\ Progress(r)
  BY DEF SystemInv, GatedInv, StageInv, VerifiedInv, TypeInv, TypeOK
<1>3. CASE Launch(q)
  <2>1. q # r
    BY <1>2, <1>3 DEF Launch, Progress
  <2>2. outcome'[r] = outcome[r]
    BY <1>2, <1>3, <2>1 DEF Launch, Fail, ControlOK
  <2> QED
    BY <2>2
<1>4. ~JobEnds(q)
  BY DEF JobEnds, control
<1>5. CASE RunStep(q) \/ Interrupt(q) \/ Kill(q)
  <2>1. Frame(q) /\ outcome[q] = "running"
    BY <1>5, StepFrames, StepMoves, EndsMove DEF SystemInv, GatedInv, ControlMoves
  <2>2. q = r
    BY <2>1 DEF Frame
  <2>3. ~Interrupt(r) /\ ~Kill(r)
    BY <1>2 DEF Interrupt, Kill, Goto, Gone, ControlOK
  <2> QED
    BY <1>5, <2>1, <2>2, <2>3
<1> QED
  BY <1>1, <1>3, <1>4, <1>5

(* A failover that is in one of these calls, fails, and has met no error of
   its own: which check failed. *)
LEMMA CheckFailed ==
  ASSUME SystemInv, "io" \notin Faults, NEW r \in Runs, RunStep(r),
         outcome[r] = "running", outcome'[r] = "FAILED",
         step[r] \in {"resolve", "manifest"} \cup ReadsManifest
  PROVE  \/ step[r] = "resolve" /\ Listed = {}
         \/ step[r] = "manifest" /\ Rejectable(blobs[selected[r]]["manifest.json"].content)
         \/ /\ step[r] \in ReadsManifest
            /\ \/ files[work_dir[r]][artifact[r]] # None /\ step[r] # "verify"
               \/ RemoteBlob(r).content = None
               \/ SizeOf(RemoteBlob(r).content) # SizeOf(Expected(r))
               \/ RemoteBlob(r).content # Expected(r)
               \/ ~VerifyRemoteBlob(RemoteBlob(r), Expected(r), VerifyContent)
<1>1. ControlOK
  BY DEF SystemInv, GatedInv, StageInv, VerifiedInv, TypeInv, TypeOK
<1>2. \/ ResolveManifest(r) \/ AcquireManifest(r)
      \/ CheckProperties(r) \/ DownloadArtifact(r) \/ VerifyArtifact(r)
  BY DEF RunStep, Fence, ConfirmFencing, Preflight, DownloadBreaks, StopDR,
       RestoreRepository, ImportSettings, ArtifactMissing, ReadSecrets, WriteSecret,
       WriteCertificate, WriteKey, EnableExternalSsl, ApplyPendingChanges, CleanUpSecrets,
       StartDR, ValidateHealth, IoFails, TsmFails, TsmSucceeds, Active, NeedsFile, TsmCommands,
       ReadsManifest
<1>3. /\ \A s : ~Goto(r, s)
      /\ \A next, s : ~Advance(r, next, s)
  BY <1>1 DEF Goto, Advance
<1>4. CASE ResolveManifest(r)
  BY <1>3, <1>4 DEF ResolveManifest, Active
<1>5. CASE AcquireManifest(r)
  BY <1>3, <1>5 DEF AcquireManifest, Active
<1>6. CASE CheckProperties(r)
  BY <1>3, <1>6 DEF CheckProperties, Active, ReadsManifest
<1>7. CASE DownloadArtifact(r)
  BY <1>3, <1>7 DEF DownloadArtifact, Active, DownloadValid, ReadsManifest
<1>8. CASE VerifyArtifact(r)
  BY <1>3, <1>8 DEF VerifyArtifact, Active, ReadsManifest
<1> QED
  BY <1>2, <1>4, <1>5, <1>6, <1>7, <1>8

(* A run that refuses a backup it has found, and that its host agrees with. *)
LEMMA RefusedMangled ==
  ASSUME SystemInv, "io" \notin Faults, NEW r \in Runs, RunStep(r),
         outcome[r] = "running", outcome'[r] = "FAILED",
         step[r] \in {"manifest"} \cup ReadsManifest,
         ~(step[r] = "manifest" /\ selected[r] \in Disputed)
  PROVE  selected[r] # None /\ Mangled(selected[r])
<1>1. Reading(r) /\ MemoryOK /\ Equipped(r)
  BY DEF SystemInv, GatedInv, StageInv, VerifiedInv, TypeInv, TypeOK
<1>2. selected[r] # None
  BY <1>1, NoneAssumption DEF Reading, Equipped
<1>3. selected[r] \in Backups /\ \A x \in BlobParts : InPlace(selected[r], x)
  BY <1>2, SelectedInPlace
<1> SUFFICES ASSUME ~Mangled(selected[r]) PROVE FALSE
  BY <1>2
<1>4. ASSUME NEW x \in BlobParts
      PROVE  blobs[selected[r]][x] = UploadFile(Pristine(selected[r], x), Pristine(selected[r], x))
  BY <1>3, NoneAssumption DEF Mangled, InPlace, NoBlob
<1>5. CASE step[r] = "manifest"
  <2>1. Rejectable(blobs[selected[r]]["manifest.json"].content)
    BY <1>5, CheckFailed DEF ReadsManifest
  <2>2. blobs[selected[r]]["manifest.json"].content = Pristine(selected[r], "manifest.json")
    <3>1. "manifest.json" \in BlobParts
      BY DEF BlobParts
    <3>2. blobs[selected[r]]["manifest.json"]
            = UploadFile(Pristine(selected[r], "manifest.json"), Pristine(selected[r], "manifest.json"))
      BY <1>4, <3>1
    <3> QED
      BY <3>2 DEF UploadFile
  <2>3. Pristine(selected[r], "manifest.json") # None
    BY <1>3, PayloadsTyped DEF BlobParts, Damage
  <2> QED
    BY <1>5, <2>1, <2>2, <2>3 DEF Rejectable, Pristine
<1>6. CASE step[r] \in ReadsManifest
  <2>1. /\ artifact[r] \in Artifacts /\ manifest[r].backup = selected[r]
        /\ step[r] # "verify" => files[work_dir[r]][artifact[r]] = None
    BY <1>1, <1>6 DEF Reading, MemoryOK
  <2> DEFINE expected == Pristine(selected[r], artifact[r])
  <2>2. Expected(r) = expected /\ RemoteBlob(r) = UploadFile(expected, expected)
    BY <1>4, <2>1 DEF Expected, RemoteBlob, BlobParts
  <2>3. expected # None
    BY <1>3, <2>1, PayloadsTyped DEF BlobParts, Damage
  <2> HIDE DEF expected
  <2>4. /\ RemoteBlob(r).content = expected
        /\ VerifyRemoteBlob(RemoteBlob(r), expected, VerifyContent)
    BY <2>2, <2>3 DEF UploadFile, VerifyRemoteBlob
  <2> QED
    BY <1>6, <2>1, <2>2, <2>3, <2>4, CheckFailed DEF ReadsManifest
<1> QED
  BY <1>5, <1>6

(* With pipelines that have names of their own, and while no request and no
   file operation of the DR host fails, a failover without --manifest-blob
   finds no manifest only if no pipeline has reported SUCCESS, and refuses
   the backup it found only if its host disputes the manifest or bytes were
   changed on their way into the container: never because the pipeline had
   not come to its end. *)
THEOREM RefusalsAreJustified ==
  ASSUME "collision" \notin PipelineFaults, ManifestArgs \subseteq {None}, "io" \notin Faults
  PROVE  SystemSpec => RefusalsJustified
<1>1. ASSUME SystemInv, SystemNext, NEW r \in Runs, outcome'[r] = "FAILED", outcome[r] # "FAILED",
             failed_step[r] \in {"MANIFEST_VALIDATED", "BACKUP_ARTIFACTS_VALIDATED"}
      PROVE  IF selected[r] = None
             THEN \A p \in Backups : status[p] # "SUCCESS"
             ELSE \/ Mangled(selected[r])
                  \/ step[r] = "manifest" /\ selected[r] \in Disputed
  <2>1. FailOver
    BY <1>1 DEF SystemNext, BackUp, control
  <2>2. failed_step[r] # None
    BY <1>1, NoneAssumption, StagesAssumption, StageNames
  <2>3. RunStep(r) /\ outcome[r] = "running"
    BY <1>1, <2>1, <2>2, OwnFailure
  <2>4. step[r] \in {"resolve", "manifest"} \cup ReadsManifest
    BY <1>1, <2>3, ValidationCalls
  <2>5. CASE step[r] = "resolve"
    <3>1. selected[r] = None
      BY <1>1, <2>3, <2>5 DEF SystemInv, Reading, Searching
    <3>2. Listed = {}
      BY <1>1, <2>3, <2>4, <2>5, CheckFailed DEF ReadsManifest
    <3>3. ASSUME NEW p \in Backups, status[p] = "SUCCESS" PROVE FALSE
      <4>1. InPlace(p, "manifest.json")
        BY <1>1, <3>3 DEF SystemInv, PipelinesInv, Alone, Finished, BlobParts
      <4>2. p \in Listed
        BY <4>1, NoneAssumption DEF Listed, InPlace
      <4> QED
        BY <3>2, <4>2
    <3> QED
      BY <3>1, <3>3
  <2>6. CASE step[r] \in {"manifest"} \cup ReadsManifest
    <3>1. selected[r] # None
      <4>1. Reading(r) /\ MemoryOK /\ Equipped(r)
        BY <1>1 DEF SystemInv, GatedInv, StageInv, VerifiedInv, TypeInv, TypeOK
      <4>2. outcome[r] = "running"
        BY <2>3
      <4> QED
        BY <2>6, <4>1, <4>2, NoneAssumption DEF Reading, Equipped
    <3>2. CASE step[r] = "manifest" /\ selected[r] \in Disputed
      BY <3>1, <3>2
    <3>3. CASE ~(step[r] = "manifest" /\ selected[r] \in Disputed)
      BY <1>1, <2>3, <2>6, <3>3, RefusedMangled
    <3> QED
      BY <3>2, <3>3
  <2> QED
    BY <2>4, <2>5, <2>6
<1>2. SystemInv /\ [SystemNext]_<<vars, production>>
        => [\A r \in Runs :
              outcome'[r] = "FAILED" /\ outcome[r] # "FAILED"
                /\ failed_step[r] \in {"MANIFEST_VALIDATED", "BACKUP_ARTIFACTS_VALIDATED"}
                => IF selected[r] = None
                   THEN \A p \in Backups : status[p] # "SUCCESS"
                   ELSE \/ Mangled(selected[r])
                        \/ step[r] = "manifest" /\ selected[r] \in Disputed]_<<vars, production>>
  BY <1>1
<1>3. SystemInv /\ [SystemNext]_<<vars, production>> => SystemInv'
  BY SystemKeeps
<1> QED
  BY <1>2, <1>3, SystemStarts, PTL DEF SystemSpec, RefusalsJustified
=============================================================================

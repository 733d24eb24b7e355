---------------------------- MODULE BlobStorage ----------------------------
(***************************************************************************)
(* The blobs of one storage container and what azure_manager.py does with  *)
(* them: upload_file stores a payload with its digest and its size as      *)
(* metadata, verify_remote_blob compares a blob with what is expected.     *)
(*                                                                         *)
(* A payload is a record, not bytes.  Two payloads are equal exactly when  *)
(* their SHA-256 digests are (no collisions), so a payload stands for its  *)
(* own digest; "altered" keeps the length, "resized" does not.             *)
(***************************************************************************)
EXTENDS Naturals, FiniteSets

CONSTANTS
  Backups,  \* start times of backup pipelines: the prefixes backups/<time>_<id>
  None      \* "no value": an absent blob, an unset attribute

Artifacts == {"backup.tsbak", "settings.json"}
BlobParts == Artifacts \cup {"manifest.json"}
Damage == {"none", "altered", "resized", "torn"}

Payload == [backup : Backups, part : BlobParts, damage : Damage]
Pristine(b, p) == [backup |-> b, part |-> p, damage |-> "none"]
Damaged(b, p, how) == [backup |-> b, part |-> p, damage |-> how]

(* Prefixes are compared as times; None is no payload. *)
ASSUME BackupsAssumption == Backups \subseteq Nat
ASSUME NoneAssumption == /\ None \notin Payload
                         /\ None \notin Backups
                         /\ None \notin STRING

(* Only equality of sizes matters: every length-changing damage differs
   from the size recorded for the pristine payload. *)
SizeOf(payload) == IF payload.damage \in {"resized", "torn"} THEN 1 ELSE 2

-----------------------------------------------------------------------------
(* A stored blob: its bytes, and the sha256 and size_bytes metadata. *)
Blob == [content : Payload \cup {None},
         sha256 : Payload \cup {None},
         size : {None} \cup {1, 2}]

NoBlob == [content |-> None, sha256 |-> None, size |-> None]

(* upload_file: the bytes now in the file, the digest the caller computed
   earlier, and the size the file has at the time of the upload. *)
UploadFile(payload, checksum) ==
  [content |-> payload, sha256 |-> checksum, size |-> SizeOf(payload)]

(* Trusting the metadata whatever is configured: a plausible mistake in the
   definition that follows, no part of it. *)
VerifyRemoteBlob_Slip(blob, expected, verifyContentStream) ==
  /\ blob.content # None
  /\ SizeOf(blob.content) = SizeOf(expected)
  /\ blob.sha256 = expected
  /\ blob.size = SizeOf(expected)

(* verify_remote_blob returns exactly when all of this holds and raises
   otherwise; the bytes are only read when the stream check is configured. *)
VerifyRemoteBlob(blob, expected, verifyContentStream) ==
  /\ blob.content # None
  /\ SizeOf(blob.content) = SizeOf(expected)
  /\ blob.sha256 = expected
  /\ blob.size = SizeOf(expected)
  /\ verifyContentStream => blob.content = expected

(* The faults of the store: rotten or truncated bytes, lost metadata, a
   deleted blob. *)
FaultyBlobs(blob) ==
  IF blob.content = None
  THEN {}
  ELSE { [blob EXCEPT !.content.damage = how] : how \in {"altered", "resized"} }
         \cup { [blob EXCEPT !.sha256 = None, !.size = None], NoBlob }
=============================================================================

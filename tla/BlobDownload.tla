---------------------------- MODULE BlobDownload ----------------------------
(***************************************************************************)
(* recovery_manager.py, _download_blob_to_file: one blob is streamed into  *)
(* one file of the work directory.  The limit comes from the code, the     *)
(* expected size from the manifest, the remote size from the properties of *)
(* the blob, and what the stream then delivers, chunk by chunk, from a     *)
(* later request: none of them can be trusted to agree with another.       *)
(*                                                                         *)
(* Sizes count in any unit.  A definition that ends in _Slip is a          *)
(* plausible mistake in the one that follows it and no part of Spec.       *)
(***************************************************************************)
EXTENDS Naturals

CONSTANTS
  Maximum,       \* maximum_size
  Asked,         \* the values expected_size may have, None among them or not
  RemoteSizes,   \* the sizes the store may report; None if it reports none
  Chunks,        \* the lengths one chunk of a stream may have
  Faults,        \* "io", "unlink", "interrupt", "foreign"
  None

ASSUME DownloadAssumption ==
  /\ Maximum \in Nat \ {0}
  /\ Asked \subseteq Nat \cup {None}
  /\ RemoteSizes \subseteq Nat \cup {None}
  /\ Chunks \subseteq Nat
  /\ None \notin Nat

VARIABLES
  phase,     \* where the call stands, or how it ended
  expected,  \* expected_size
  remote,    \* remote_size, None before the properties are known
  total,     \* total_bytes
  file,      \* the length of the destination file, None if there is none
  mine       \* did this call create the file?

vars == <<phase, expected, remote, total, file, mine>>

Phases == {"called", "checked", "streaming", "returned", "refused", "interrupted"}

(* The work directory may hold a file of that name already. *)
Init ==
  /\ phase = "called"
  /\ expected \in Asked
  /\ remote = None
  /\ total = 0
  /\ file \in {None, 1}
  /\ mine = FALSE

-----------------------------------------------------------------------------
(* From the request for the stream on every refusal deletes what is at the
   destination, best effort and whoever put it there. *)
Refuse_Slip == phase' = "refused" /\ UNCHANGED file
Refuse ==
  /\ phase' = "refused"
  /\ file' \in {None} \cup (IF "unlink" \in Faults THEN {file} ELSE {})

(* Up to there a refusal leaves the destination alone. *)
RefuseEarly == phase' = "refused" /\ UNCHANGED file

(* The checks of expected_size and of the size the properties report. *)
ValidRequest == expected # None => expected \in 1 .. Maximum
Promising(size) ==
  /\ size # None
  /\ size <= Maximum
  /\ expected # None => size = expected

CheckProperties ==
  /\ phase = "called"
  /\ \E size \in RemoteSizes :
       IF ValidRequest /\ file = None /\ Promising(size)
       THEN phase' = "checked" /\ remote' = size /\ UNCHANGED file
       ELSE RefuseEarly /\ UNCHANGED remote
  /\ UNCHANGED <<expected, total, mine>>

(* Between the look at the destination and its creation another program puts
   a file there. *)
FileAppears ==
  /\ "foreign" \in Faults
  /\ phase \in {"called", "checked"} /\ file = None
  /\ file' = 1
  /\ UNCHANGED <<phase, expected, remote, total, mine>>

(* Mode "wb": whatever is there would be truncated. *)
OpenStream_Slip ==
  /\ phase = "checked"
  /\ phase' = "streaming" /\ file' = 0 /\ mine' = TRUE
  /\ UNCHANGED <<expected, remote, total>>

(* The stream is requested and the file created: mode "xb" fails on one that
   has appeared since the look, and the handler deletes it. *)
OpenStream ==
  /\ phase = "checked"
  /\ \/ /\ file = None
        /\ phase' = "streaming" /\ file' = 0 /\ mine' = TRUE
     \/ file # None /\ Refuse /\ UNCHANGED mine
  /\ UNCHANGED <<expected, remote, total>>

(* Only the limit would be looked at. *)
Fits_Slip(size) == size <= Maximum
Fits(size) == size <= Maximum /\ (expected # None => size <= expected)

(* A chunk is counted and checked before it is written; empty ones are
   skipped by the same arithmetic. *)
ReceiveChunk ==
  /\ phase = "streaming"
  /\ \E chunk \in Chunks :
       /\ total' = total + chunk
       /\ IF Fits(total')
          THEN file' = file + chunk /\ UNCHANGED phase
          ELSE Refuse
  /\ UNCHANGED <<expected, remote, mine>>

(* The stream ends where it likes; returned only if it was the whole blob. *)
Whole_Slip == expected # None => total <= expected
Whole == total = remote /\ (expected # None => total = expected)

EndOfStream ==
  /\ phase = "streaming"
  /\ IF Whole THEN phase' = "returned" /\ UNCHANGED file ELSE Refuse
  /\ UNCHANGED <<expected, remote, total, mine>>

(* A request or a write fails; of a chunk that was accepted, any part may
   have been written. *)
IoFails ==
  /\ "io" \in Faults
  /\ \/ phase = "called" /\ RefuseEarly
     \/ phase = "checked" /\ Refuse
     \/ /\ phase = "streaming"
        /\ \/ Refuse
           \/ /\ "unlink" \in Faults
              /\ phase' = "refused"
              /\ \E chunk \in {c \in Chunks : Fits(total + c)} :
                   file' \in file .. file + chunk
  /\ UNCHANGED <<expected, remote, total, mine>>

(* KeyboardInterrupt is caught by neither except clause. *)
Interrupt ==
  /\ "interrupt" \in Faults
  /\ phase \in {"called", "checked", "streaming"}
  /\ phase' = "interrupted"
  /\ UNCHANGED <<expected, remote, total, file, mine>>

Next ==
  \/ CheckProperties \/ OpenStream \/ ReceiveChunk \/ EndOfStream \/ IoFails \/ Interrupt
  \/ FileAppears

Spec == Init /\ [][Next]_vars

-----------------------------------------------------------------------------
(* Every variable stays in its range. *)
TypeOK ==
  /\ phase \in Phases
  /\ expected \in Nat \cup {None}
  /\ remote \in Nat \cup {None}
  /\ total \in Nat
  /\ file \in Nat \cup {None}
  /\ mine \in BOOLEAN

(* Whatever the store sends and however the call ends, the file never holds
   a byte more than the limit and the manifest allow. *)
WithinLimits ==
  mine /\ file # None => file <= Maximum /\ (expected # None => file <= expected)

(* A path is returned only for a file that has every byte of the blob the
   properties described, and of the one the manifest lists. *)
ReturnedIsWhole ==
  phase = "returned" =>
    /\ mine /\ file = remote
    /\ expected # None => file = expected

(* A refused download leaves no file of its own that a later stage, or a
   later attempt, could take for a downloaded one (unless deleting fails). *)
RefusedLeavesNothing ==
  phase = "refused" /\ mine /\ "unlink" \notin Faults => file = None

(* A file of another program is never written to, at whatever moment it
   appears, and survives the call unless it appeared in the gap between the
   look at the destination and its creation: then a refusal may delete it. *)
NeverOverwrites ==
  [][~mine /\ file # None =>
       \/ file' = file
       \/ phase = "checked" /\ phase' = "refused" /\ file' = None]_vars
=============================================================================

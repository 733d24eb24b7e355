---------------------------- MODULE BackupPromise ----------------------------
(***************************************************************************)
(* What a backup pipeline promises to those who only look at its result,   *)
(* its staging directory and the container: until it is over, at least one *)
(* good copy of the backup stays where it is; what can be found in the     *)
(* container is final; and SUCCESS is never said without a good copy there.*)
(***************************************************************************)
CONSTANT Pipelines

VARIABLES
  report,   \* "open" until the pipeline ends
  local,    \* all files of the backup are in the staging directory, intact
  listed,   \* a recovery can find the backup
  remote    \* all files of the backup are in the container, intact

Reports == {"open", "SUCCESS", "ERROR", "aborted"}

Init ==
  /\ report = [p \in Pipelines |-> "open"]
  /\ local = [p \in Pipelines |-> FALSE]
  /\ listed = [p \in Pipelines |-> FALSE]
  /\ remote = [p \in Pipelines |-> FALSE]

(* The local copy is given up only for a good one in the container. *)
Stage(p) ==
  \/ local'[p]
  \/ ~local[p]
  \/ remote[p]

(* A backup appears in the container all at once and never changes there;
   it is a good copy only if there was a local one to make it from. *)
Publish(p) ==
  \/ listed'[p] = listed[p] /\ remote'[p] = remote[p]
  \/ /\ ~listed[p] /\ listed'[p] /\ local[p]
     /\ remote'[p] \in BOOLEAN

Conclude(p) ==
  /\ report'[p] \in Reports
  /\ report'[p] = "SUCCESS" => remote[p]

Others(p) ==
  \A q \in Pipelines \ {p} :
    /\ report'[q] = report[q] /\ local'[q] = local[q]
    /\ listed'[q] = listed[q] /\ remote'[q] = remote[q]

Next ==
  \E p \in Pipelines :
    /\ report[p] = "open"
    /\ Stage(p) /\ Publish(p) /\ Conclude(p)
    /\ Others(p)

Spec == Init /\ [][Next]_<<report, local, listed, remote>>
=============================================================================

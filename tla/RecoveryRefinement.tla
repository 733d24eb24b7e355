------------------------- MODULE RecoveryRefinement -------------------------
(***************************************************************************)
(* RecoveryManager keeps RecoveryPromise when runs do not overlap and no   *)
(* command finishes after its client has gone.                             *)
(***************************************************************************)
EXTENDS RecoverySafety

verdictOf ==
  [r \in Runs |-> CASE outcome[r] = "not started" -> "none"
                    [] outcome[r] = "running" -> "pending"
                    [] OTHER -> outcome[r]]

(* A backup counts as proved once its stage, the fifth after
   DISASTER_DECLARED, is recorded. *)
provedBy ==
  [r \in Runs |-> IF Len(completed_steps[r]) >= 6 THEN manifest[r].backup ELSE None]

wholeBackups == {b \in Backups : Recovered([server EXCEPT !.running = TRUE], b)}
wholeOf == Untouched \/ wholeBackups # {}
heldOf == IF wholeBackups # {} THEN server.repo.backup ELSE None

Promise == INSTANCE RecoveryPromise WITH
  verdict <- verdictOf, proved <- provedBy,
  held <- heldOf, whole <- wholeOf, serving <- server.running

(* Every step of every run is a step the promise allows, or none at all. *)
KeepsPromise == Promise!Spec
=============================================================================

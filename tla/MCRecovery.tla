----------------------------- MODULE MCRecovery -----------------------------
(* Values for the model checker; the .cfg files choose among them. *)
EXTENDS RecoveryRefinement, RecoveryClaims, TLC

CONSTANTS r1, r2, d1, d2

OneRun == {r1}
TwoRuns == {r1, r2}
OneDir == {d1}
TwoDirs == {d1, d2}

FlagsConfirmed == {[enabled |-> TRUE, confirmed |-> TRUE, code |-> "set"]}
AllConfigs == FencingConfigs

LatestOnly == {None}
AnyManifest == Backups \cup {None}

SomeAnswers == {"2xx", "5xx"}

RunSymmetry == Permutations(Runs) \cup Permutations(WorkDirs)
=============================================================================

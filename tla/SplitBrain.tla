----------------------------- MODULE SplitBrain -----------------------------
(***************************************************************************)
(* Recovery next to the production server it replaces.  Production may be  *)
(* isolated at any time, by means outside the code, and stays isolated.    *)
(***************************************************************************)
EXTENDS RecoverySafety

VARIABLE production

Isolate ==
  /\ production = "serving"
  /\ production' = "isolated"
  /\ UNCHANGED vars

SplitInit == Init /\ production = "serving"
SplitNext == (Next /\ UNCHANGED production) \/ Isolate
SplitSpec == SplitInit /\ [][SplitNext]_<<vars, production>>

(* README.md: the fencer "Prevents active-active/split-brain states by
   validating network and HTTP isolation before initiating DR restore".  So
   no restore begins while production still serves. *)
NoRestoreWhileProductionServes ==
  [][server'.repo # server.repo => production = "isolated"]_<<vars, production>>
=============================================================================

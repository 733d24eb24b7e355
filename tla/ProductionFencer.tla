-------------------------- MODULE ProductionFencer --------------------------
(***************************************************************************)
(* fencing.py: evaluate_fencing decides from configuration flags and from  *)
(* the operator's emergency code alone; it never contacts production.      *)
(***************************************************************************)

(* The security section: two flags, and what its emergency code is worth. *)
FencingConfigs == [enabled : BOOLEAN, confirmed : BOOLEAN,
                   code : {"unset", "placeholder", "bad length", "set"}]

(* What the operator passes.  "right" is the configured value; any other
   value, one of the wrong length included, is "wrong". *)
AuthCodes == {"none", "right", "wrong"}
Reasons == {"none", "blank", "given", "too long"}

FencingMethods == {"CONFIGURED_FENCING_CONFIRMATION", "EMERGENCY_AUTHORIZATION"}

(* _validate_emergency_override: every check of it must pass. *)
EmergencyOverrideValid(config, code, reason) ==
  /\ config.code = "set"
  /\ code = "right"
  /\ reason = "given"

(* The flags would still count when the code is no good: a plausible mistake
   in the definition that follows, no part of it. *)
EvaluateFencing_Slip(config, code, reason) ==
  IF EmergencyOverrideValid(config, code, reason)
  THEN "EMERGENCY_AUTHORIZATION"
  ELSE IF config.enabled /\ config.confirmed
       THEN "CONFIGURED_FENCING_CONFIRMATION"
       ELSE "refused"

(* evaluate_fencing: a supplied code decides by itself, whatever the flags
   say; without one both flags are needed.  "refused" stands for the
   FencingError or SecurityValidationError it raises otherwise. *)
EvaluateFencing(config, code, reason) ==
  IF code # "none"
  THEN IF EmergencyOverrideValid(config, code, reason)
       THEN "EMERGENCY_AUTHORIZATION"
       ELSE "refused"
  ELSE IF config.enabled /\ config.confirmed
       THEN "CONFIGURED_FENCING_CONFIRMATION"
       ELSE "refused"

(* _fence_production refuses a blank or oversized reason before it asks. *)
FenceProduction(config, code, reason) ==
  IF reason \in {"blank", "too long"}
  THEN "refused"
  ELSE EvaluateFencing(config, code, reason)
=============================================================================

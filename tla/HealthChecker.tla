--------------------------- MODULE HealthChecker ---------------------------
(***************************************************************************)
(* health_check.py: two checks, both of which must pass.                   *)
(***************************************************************************)

CONSTANTS
  OpenAcceptsContext  \* does OpenerDirector.open take a "context" keyword?

ASSUME OpenAssumption == OpenAcceptsContext \in BOOLEAN

(* What the HTTPS request meets: a status class, or no usable answer
   (refused, timed out, untrusted certificate). *)
GatewayAnswers == {"2xx", "3xx", "4xx", "5xx", "unreachable"}

(* run_all_checks looks at the exit code of "tsm status" alone. *)
CheckTsmStatus(returnCode) == returnCode = 0

(* _check_gateway: 200..499 is reachable, a redirect (raised, not followed)
   included.  The call passes context=; if the opener does not take it, the
   TypeError is caught by the last handler and the answer is False. *)
CheckGateway(answer) ==
  /\ OpenAcceptsContext
  /\ answer \in {"2xx", "3xx", "4xx"}

RunAllChecks(returnCode, answer) ==
  [answer |-> answer,
   tsm_healthy |-> CheckTsmStatus(returnCode),
   gateway_reachable |-> CheckGateway(answer)]

OverallHealthy(result) == result.tsm_healthy /\ result.gateway_reachable

HealthResults == [answer : GatewayAnswers,
                  tsm_healthy : BOOLEAN, gateway_reachable : BOOLEAN]
=============================================================================

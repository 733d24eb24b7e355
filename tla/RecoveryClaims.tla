--------------------------- MODULE RecoveryClaims ---------------------------
(***************************************************************************)
(* What the documentation, the comments and the tests say of a recovery    *)
(* and the code does not do.                                               *)
(***************************************************************************)
EXTENDS RecoverySafety

(* health_check.py, class HealthChecker: "HTTP 2xx-4xx responses are treated
   as gateway reachability". *)
AnswerMeansReachable ==
  \A r \in Runs :
    health_result[r] # None =>
      (health_result[r].answer \in {"2xx", "3xx", "4xx"}
         => health_result[r].gateway_reachable)
=============================================================================

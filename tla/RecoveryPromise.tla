-------------------------- MODULE RecoveryPromise --------------------------
(***************************************************************************)
(* What a failover promises its operator, without stages, files or TSM:    *)
(* the server is touched only by a run that proved a backup intact, it     *)
(* serves either what it always had or one backup as a whole, and SUCCESS  *)
(* means that it serves the backup the run proved.                         *)
(***************************************************************************)
CONSTANTS Runs, Backups, None

VARIABLES
  verdict,   \* what the operator was told of each run
  proved,    \* the backup a run has proved intact
  held,      \* the backup the server holds, None for its own content
  whole,     \* is its content of a piece, or half replaced?
  serving    \* does the server serve users?

promise == <<verdict, proved, held, whole, serving>>

Init ==
  /\ verdict = [r \in Runs |-> "none"]
  /\ proved = [r \in Runs |-> None]
  /\ held = None /\ whole = TRUE
  /\ serving \in BOOLEAN

Start(r) ==
  /\ verdict[r] = "none"
  /\ \A q \in Runs : verdict[q] # "pending"
  /\ verdict' = [verdict EXCEPT ![r] = "pending"]
  /\ UNCHANGED <<proved, held, whole, serving>>

Refuse(r) ==
  /\ verdict[r] = "none"
  /\ verdict' = [verdict EXCEPT ![r] = "FAILED"]
  /\ UNCHANGED <<proved, held, whole, serving>>

Prove(r) ==
  /\ verdict[r] = "pending" /\ proved[r] = None
  /\ \E b \in Backups : proved' = [proved EXCEPT ![r] = b]
  /\ UNCHANGED <<verdict, held, whole, serving>>

(* One change of the server by a run that has proved its backup. *)
Change(r) ==
  /\ verdict[r] = "pending" /\ proved[r] # None
  /\ \/ serving' = FALSE /\ UNCHANGED <<held, whole>>
     \/ /\ ~serving /\ UNCHANGED serving
        /\ \/ whole' = FALSE /\ held' = None
           \/ whole' = TRUE /\ held' = proved[r]
     \/ /\ whole /\ held = proved[r]
        /\ serving' = TRUE /\ UNCHANGED <<held, whole>>

Work(r) == Change(r) /\ UNCHANGED <<verdict, proved>>

Succeed(r) ==
  /\ verdict[r] = "pending" /\ proved[r] # None
  /\ serving /\ whole /\ held = proved[r]
  /\ verdict' = [verdict EXCEPT ![r] = "SUCCESS"]
  /\ UNCHANGED <<proved, held, whole, serving>>

(* A failing command may still have had its effect. *)
GiveUp(r) ==
  /\ verdict[r] = "pending"
  /\ \E v \in {"FAILED", "interrupted", "killed"} :
       verdict' = [verdict EXCEPT ![r] = v]
  /\ Change(r) \/ UNCHANGED <<held, whole, serving>>
  /\ UNCHANGED proved

Next ==
  \E r \in Runs : \/ Start(r) \/ Refuse(r) \/ Prove(r)
                  \/ Work(r) \/ Succeed(r) \/ GiveUp(r)

Spec == Init /\ [][Next]_promise
=============================================================================

--------------------------- MODULE MCEntrypoints ---------------------------
EXTENDS EntrypointsSafety

(* A configuration every check accepts, and all that differ from it in one
   value, or in the DR host's view of production. *)
Good == [shape |-> "whole", version |-> "2024.2", account |-> "lower",
         container |-> "valid", retries |-> 3, backoff |-> 1,
         production |-> "prod", dr |-> "dr",
         productionStore |-> "local", drStore |-> "local",
         directory |-> "directory", freeSpace |-> 50, executable |-> "unset",
         strictFlags |-> TRUE, enabled |-> TRUE, confirmed |-> TRUE, code |-> "set"]

OneDeviation ==
  {Good}
    \cup {[Good EXCEPT !.shape = "missing key"]}
    \cup {[Good EXCEPT !.version = v] : v \in Versions}
    \cup {[Good EXCEPT !.account = v] : v \in Accounts}
    \cup {[Good EXCEPT !.container = "double hyphen"]}
    \cup {[Good EXCEPT !.retries = v] : v \in {0, MAX_RETRIES_LIMIT + 1}}
    \cup {[Good EXCEPT !.backoff = v] : v \in {0, MAX_RETRY_BACKOFF_SECONDS + 1}}
    \cup {[Good EXCEPT !.production = v] : v \in {"PROD", "dr", "url"}}
    \cup {[Good EXCEPT !.dr = v] : v \in {"PROD", "port", "too long"}}
    \cup {[Good EXCEPT !.drStore = "activedirectory"]}
    \cup {[Good EXCEPT !.productionStore = v, !.drStore = v] : v \in Stores}
    \cup {[Good EXCEPT !.directory = "file"], [Good EXCEPT !.freeSpace = 0]}
    \cup {[Good EXCEPT !.executable = v] : v \in {"empty", "not found"}}
    \cup {[Good EXCEPT !.strictFlags = FALSE], [Good EXCEPT !.confirmed = FALSE]}
    \cup {[Good EXCEPT !.code = v] : v \in ConfiguredCodes}

SomeVariables == {"unset", "not found"}

AheadOrBehind == {-1, 0, 2}
=============================================================================

------------------------------ MODULE MCSystem ------------------------------
EXTENDS DRSystem

CONSTANTS r1, d1

OneRun == {r1}
OneDir == {d1}
FlagsConfirmed == {[enabled |-> TRUE, confirmed |-> TRUE, code |-> "set"]}
LatestOnly == {None}
SomeAnswers == {"2xx", "5xx"}
AnyKeyword == {"config", "executable", "yaml_executable", "logger_instance", "logger"}
=============================================================================

\* Two pipelines, possibly with one name; liveness.
SPECIFICATION Spec
CONSTANTS
  None = None
  Backups = {1, 2}
  Faults = {"io", "kill", "marker", "rmtree", "collision"}
  VerifyContent = TRUE
  ConnectorKeywords <- AnyKeyword
CHECK_DEADLOCK FALSE
INVARIANTS
  StagingNotShared
PROPERTIES
  PipelinesEnd

\* Two pipelines side by side, every failure, content check on.
SPECIFICATION Spec
CONSTANTS
  None = None
  Backups = {1, 2}
  Faults = {"io", "interrupt", "kill", "upload", "rmtree"}
  VerifyContent = TRUE
  ConnectorKeywords <- AnyKeyword
CHECK_DEADLOCK FALSE
INVARIANTS
  TypeOK
  ManifestNeverDangles
  SuccessIsComplete
  FailuresMarked
PROPERTIES
  StagingOutlivesUpload
  KeepsBackupPromise

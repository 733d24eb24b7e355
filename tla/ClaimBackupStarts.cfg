\* The real constructor of TSMConnector.
SPECIFICATION Spec
CONSTANTS
  None = None
  Backups = {1, 2}
  Faults = {}
  VerifyContent = TRUE
  ConnectorKeywords <- ConnectorParameters
CHECK_DEADLOCK FALSE
INVARIANT FaultFreeBackupSucceeds

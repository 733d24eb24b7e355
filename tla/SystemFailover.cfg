\* One failover at any time during two backup pipelines.
SPECIFICATION SystemSpec
CONSTANTS
  None = None
  r1 = r1
  d1 = d1
  Backups = {1, 2}
  Disputed = {1}
  Published = {}
  Runs <- OneRun
  WorkDirs <- OneDir
  Faults = {}
  Concurrent = FALSE
  VerifyContent = FALSE
  Configs <- FlagsConfirmed
  ManifestArgs <- LatestOnly
  Answers <- SomeAnswers
  MaxBlobFaults = 0
  OpenAcceptsContext = TRUE
  PipelineFaults = {"kill", "upload"}
  PipelineVerifyContent = TRUE
  ConnectorKeywords <- AnyKeyword
CHECK_DEADLOCK FALSE
PROPERTIES
  RefusalsJustified
  FreshestListed

\* Production is serving at first.
SPECIFICATION SplitSpec
CONSTANTS
  None = None
  r1 = r1
  r2 = r2
  d1 = d1
  d2 = d2
  Backups = {1, 2}
  Disputed = {}
  Published = {1}
  Runs <- OneRun
  WorkDirs <- OneDir
  Faults = {}
  Concurrent = FALSE
  VerifyContent = FALSE
  Configs <- FlagsConfirmed
  ManifestArgs <- LatestOnly
  Answers <- SomeAnswers
  MaxBlobFaults = 0
  OpenAcceptsContext = TRUE
CHECK_DEADLOCK FALSE
PROPERTY NoRestoreWhileProductionServes

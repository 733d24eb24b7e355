\* The opener of the standard library takes no "context" keyword.
SPECIFICATION Spec
CONSTANTS
  None = None
  r1 = r1
  r2 = r2
  d1 = d1
  d2 = d2
  Backups = {1, 2}
  Disputed = {}
  Published = {1}
  Runs <- OneRun
  WorkDirs <- OneDir
  Faults = {}
  Concurrent = FALSE
  VerifyContent = FALSE
  Configs <- FlagsConfirmed
  ManifestArgs <- LatestOnly
  Answers <- SomeAnswers
  MaxBlobFaults = 0
  OpenAcceptsContext = FALSE
CHECK_DEADLOCK FALSE
INVARIANT AnswerMeansReachable

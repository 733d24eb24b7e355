\* A run and, after it ended in any way, its retry; a second backup appears
\* at any time.  Liveness is checked, so there is no symmetry.  Runs end by
\* themselves: a state without successor is no error.
SPECIFICATION Spec
CONSTANTS
  None = None
  r1 = r1
  r2 = r2
  d1 = d1
  d2 = d2
  Backups = {1, 2}
  Disputed = {1, 2}
  Published = {1}
  Runs <- TwoRuns
  WorkDirs <- TwoDirs
  Faults = {"io", "tsm", "interrupt", "kill"}
  Concurrent = FALSE
  VerifyContent = FALSE
  Configs <- FlagsConfirmed
  ManifestArgs <- LatestOnly
  Answers <- SomeAnswers
  MaxBlobFaults = 0
  OpenAcceptsContext = TRUE
CHECK_DEADLOCK FALSE
INVARIANTS
  TypeOK
  ReportAccurate
  NeverServesMixture
  SecretsConfined
PROPERTIES
  SuccessDelivered
  KeepsPromise
  RunsEnd

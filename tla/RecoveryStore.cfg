\* One run against a store that damages two blobs while the run reads them,
\* and a work directory that loses files.
SPECIFICATION Spec
CONSTANTS
  None = None
  r1 = r1
  r2 = r2
  d1 = d1
  d2 = d2
  Backups = {1, 2}
  Disputed = {1}
  Published = {1}
  Runs <- OneRun
  WorkDirs <- OneDir
  Faults = {"io", "tsm", "late", "kill", "unlink", "workspace", "store"}
  Concurrent = FALSE
  VerifyContent = FALSE
  Configs <- AllConfigs
  ManifestArgs <- AnyManifest
  Answers <- SomeAnswers
  MaxBlobFaults = 2
  OpenAcceptsContext = TRUE
SYMMETRY RunSymmetry
CHECK_DEADLOCK FALSE
INVARIANTS
  RestoredContentVerified

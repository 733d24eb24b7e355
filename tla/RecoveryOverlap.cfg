\* Two runs at the same time, with commands that outlive their client.
SPECIFICATION Spec
CONSTANTS
  None = None
  r1 = r1
  r2 = r2
  d1 = d1
  d2 = d2
  Backups = {1, 2}
  Disputed = {1}
  Published = {1, 2}
  Runs <- TwoRuns
  WorkDirs <- TwoDirs
  Faults = {"tsm", "late", "interrupt", "kill"}
  Concurrent = TRUE
  VerifyContent = FALSE
  Configs <- FlagsConfirmed
  ManifestArgs <- AnyManifest
  Answers <- SomeAnswers
  MaxBlobFaults = 0
  OpenAcceptsContext = TRUE
SYMMETRY RunSymmetry
CHECK_DEADLOCK FALSE
INVARIANTS
  WorkspaceExclusive
PROPERTIES
  DestructionGated

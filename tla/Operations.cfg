\* Sessions one after another, every configuration that differs from a good
\* one in one value; the clock of production may be too far ahead.
SPECIFICATION Spec
CONSTANTS
  None = None
  Configurations <- OneDeviation
  Skews <- AheadOrBehind
  Tolerance = 1
  MaxTime = 2
  TsmVariables <- SomeVariables
  LoggerKeyword = TRUE
CHECK_DEADLOCK FALSE
INVARIANTS
  ExitHonest
  ConsentFirst
  OnlyValidConfigs
  OverrideDecides
  BackupsRestorable
  RpoHonest
  LateRefusalsKnown

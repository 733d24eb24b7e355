\* One download against any store and any stream, into a directory that
\* another program may write to.
SPECIFICATION Spec
CONSTANTS
  None = None
  Maximum = 6
  Asked <- AnySize
  RemoteSizes <- AnySize
  Chunks = {0, 1, 2, 5}
  Faults = {"io", "interrupt", "foreign"}
CHECK_DEADLOCK FALSE
INVARIANTS
  WithinLimits
  ReturnedIsWhole
  RefusedLeavesNothing
PROPERTIES
  NeverOverwrites

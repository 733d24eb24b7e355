---------------------------- MODULE MCSplitBrain ----------------------------
EXTENDS MCRecovery, SplitBrain
=============================================================================

SPECIFICATION Spec
CONSTANTS
  Sources <- ChainSources
CHECK_DEADLOCK FALSE
INVARIANTS
  NothingFreedTwice

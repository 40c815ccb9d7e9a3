SPECIFICATION Spec
CONSTANTS
  Sources <- TreeSources
CHECK_DEADLOCK FALSE
INVARIANTS
  TreeIsWhole
  TreeFitsTheWalkers
  OperatorsBind

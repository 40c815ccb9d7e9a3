SPECIFICATION Spec
CONSTANTS
  Statement <- MCStatement
  Bodies <- MCBodies
INVARIANT JumpsAreClosed
PROPERTY ImplementsStatements
CHECK_DEADLOCK FALSE

SPECIFICATION Spec
CONSTANTS
  Sources <- WrongSources
CHECK_DEADLOCK FALSE
INVARIANTS
  TypeOK
  SyntaxErrorsAreClean
PROPERTIES
  ParsingEnds

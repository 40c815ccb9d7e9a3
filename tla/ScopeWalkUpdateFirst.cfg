SPECIFICATION Spec
CONSTANTS
  Names = {x, y}
  Types <- TypesDef
  Size <- SizeDef
  Expressions <- PlainExpressions
  MaxNodes = 7
  MaxDepth = 4
SYMMETRY NameSymmetry
CHECK_DEADLOCK FALSE
INVARIANTS
  CheckerGuaranteesVariables

SPECIFICATION Spec
CONSTANTS
  Names = {x, y}
  Types <- TypesDef
  Size <- SizeDef
  Expressions <- PlainExpressions
  MaxNodes = 8
  MaxDepth = 4
SYMMETRY NameSymmetry
CHECK_DEADLOCK FALSE
INVARIANTS
  StoresFitTheirSlots
  LoadsMatchAnnotations
  CheckedVariablesAreFound
  StorageIsDisjoint
PROPERTIES
  BindingsAreStable

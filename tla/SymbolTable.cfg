SPECIFICATION FairSpec
CONSTANTS
  Keys = {x, y}
  Values = {u, w}
  MaxDepth = 3
  NoKey = NoKey
INVARIANTS
  TypeOK
PROPERTIES
  ImplementsBindings
  GetEnds

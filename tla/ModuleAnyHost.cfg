SPECIFICATION FairSpec
CONSTANTS
  Programs <- ProgramsDef
  GenericNew = FALSE
  Garbage = Garbage
  NoTable = NoTable
CHECK_DEADLOCK FALSE
INVARIANTS
  TypeOK
  SlotsMatchSymbols
  TableHasRoom
  FilledSlotsAreRight
  TableMeansComplete
  CallsReachTheirFunction
  TreeIsFreed
  NothingCrashes
PROPERTIES
  GeneratedOnlyOnce
  BuildingEnds

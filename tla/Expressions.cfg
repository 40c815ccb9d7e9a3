SPECIFICATION Spec
CONSTANTS
  Specs <- MCSpecs
  Functions <- MCFunctions
  Properties <- MCProperties
  Families <- MCFamilies
INVARIANTS
  CheckedProgramsAreGenerated
  OperandsFit
  PassesAgree
  CallsFitTheirFunctions
CHECK_DEADLOCK FALSE

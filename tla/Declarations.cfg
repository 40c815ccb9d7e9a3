SPECIFICATION Spec
CONSTANT Programs <- MCPrograms
INVARIANT VerdictFitsProgram
INVARIANT AcceptedUsesAreGenerated
INVARIANT ObjectsHoldTheirProperties
CHECK_DEADLOCK FALSE

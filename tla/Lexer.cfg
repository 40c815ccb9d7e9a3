SPECIFICATION Spec
CONSTANTS
  Alphabets = {{"letter", "digit", ".", "newline"}, {"<", "-", ">", "="},
               {"quote", "backslash", "letter", "newline"},
               {"apostrophe", "other", "space", "newline"},
               {"/", "*", "newline", "letter"}}
  MaxLength = 6
  Addresses = {a1, a2, a3}
  NoString = NoString
CHECK_DEADLOCK FALSE
INVARIANTS
  TypeOK
  StringsAreOwnedOnce
  LinesAreCounted
  TokensAreMaximal
  PositionsAdvance
PROPERTIES
  CommentsEndWhereTheyShould
  EveryCallEnds

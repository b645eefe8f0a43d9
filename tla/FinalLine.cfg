SPECIFICATION MCSpec
CONSTANTS
  Kinds <- AllKinds
  Alphabet <- Alphabets
  MaxText <- TextBounds
  MaxTokens = 1
  MaxMail = 4
INVARIANT
  FinalLineRemoved
CHECK_DEADLOCK FALSE

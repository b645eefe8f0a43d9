SPECIFICATION BytesSpec
CONSTANTS
  Kinds <- AllKinds
  Alphabet <- Alphabets
  MaxText <- TextBounds
  MaxTokens = 6
  MaxMail = 9
  Octets = {b1, b2}
  Size = 4
INVARIANTS
  PointersOrdered
  CommandVerdict
  StatusLineVerdict
  MultilineVerdict
  TokensAgree
  StuffingRoundTrip
PROPERTIES
  IsQueue
CHECK_DEADLOCK FALSE

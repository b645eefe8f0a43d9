SPECIFICATION FairSpec
CONSTANTS
  Admins = {"operator", "colleague"}
  Words <- AllWords
  Lines <- TypedBy
  MaxRequests = 1
INVARIANTS
  UnderstoodButLocalStatus
PROPERTIES
  BansAreExact
  RequestsAnswered
CHECK_DEADLOCK FALSE

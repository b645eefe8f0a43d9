SPECIFICATION FairSpec
CONSTANTS
  Objects = {o1, o2, o3}
  Services = {"client", "admin"}
  max_pool = 2
INVARIANTS
  ReleasedOnce
  ResolverSessionHeld
  NothingLost
PROPERTIES
  SignalClosesUnlessBlocked
  ResolutionCompletes
CHECK_DEADLOCK FALSE

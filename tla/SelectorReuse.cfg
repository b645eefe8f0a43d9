SPECIFICATION Spec
CONSTANTS
  Sessions = {s1, s2, s3}
  ITEMS_MAX_SIZE = 5
  InitialElements = 5
SYMMETRY SessionSymmetry
INVARIANTS
  PolledIsInterest
  NoStaleEvent
  NotificationReachesSession
  NotificationKept

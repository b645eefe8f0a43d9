SPECIFICATION Spec
CONSTANTS
  Threads = {t1, t2}
  Commands <- Listings
  Bodies <- NoLineOrOne
  MaxCmds = 2
  MaxShared = 1
  MaxOdd = 1
  MaxCuts = 1
  Faults = {"exit","noserver","negative","segments","pipelining","origineof","clienteof"}
SYMMETRY ThreadSymmetry
INVARIANTS
  OwnBytes
  NullOnlyTogether
  OverrunOnlyTogether
  LoopsInStep
CHECK_DEADLOCK FALSE

SPECIFICATION FairSpec
CONSTANTS
  Commands <- Listing
  Bodies <- OneLine
  BufSize = 6
  MaxCmds = 2
  Pipelining = FALSE
  AddrTypes = {"ip"}
  Faults = {"negative"}
PROPERTIES
  EveryCommandAnswered
CHECK_DEADLOCK FALSE

SPECIFICATION Spec
CONSTANTS
  Commands <- Unfiltered
  Bodies <- WithBlank
  BufSize = 4
  MaxCmds = 3
  Pipelining = FALSE
  AddrTypes = {"ip"}
  Faults = {"negative", "segments", "origineof", "clienteof"}
INVARIANTS
  CommandsConserved
  RepliesConserved
PROPERTY
  IsRelay
CHECK_DEADLOCK FALSE

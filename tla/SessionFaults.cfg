SPECIFICATION Spec
CONSTANTS
  Commands <- AllKinds
  Bodies <- OneLine
  BufSize = 4
  MaxCmds = 3
  Pipelining = TRUE
  AddrTypes = {"ip", "domain"}
  Faults = {"nosocket", "nonio", "unreachable", "instant", "noregister", "nothread", "noresolve", "refused", "badgreeting", "negative", "segments", "origineof", "clienteof", "race", "bans"}
INVARIANTS
  HalfDuplex
  RefsMatchRegistrations
  NoAbortAfterGreeting
  OnlyMailBlocks
  StrandedOnlyUnconnected
CHECK_DEADLOCK FALSE

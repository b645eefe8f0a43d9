SPECIFICATION FairSpec
CONSTANTS
  Commands <- EveryType
  Bodies <- OneLine
  BufSize = 6
  MaxCmds = 3
  Pipelining = FALSE
  AddrTypes = {"ip", "domain"}
  Faults = {"clienteof"}
INVARIANTS
  Lockstep
PROPERTIES
  AnsweredUnlessAfterMail
  AbandonedSessionCloses
CHECK_DEADLOCK FALSE

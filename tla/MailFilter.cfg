SPECIFICATION FairSpec
CONSTANTS
  Sources = {"file", "pipe"}
  MediaLists <- Lists
  MaxLines <- LineBound
  MaxHeads = 2
  MaxOddLines <- OddLineBound
  MaxOdd = 1
  Failures = {"pipe", "fork", "exec", "log"}
INVARIANTS
  PartsReplaced
  NoSilentRemoval
  CrashOnlyOutsideMultipart
  TextReachesSession

  
CHECK_DEADLOCK FALSE

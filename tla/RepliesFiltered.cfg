SPECIFICATION Spec
CONSTANTS
  Sources = {"pipe"}
  MediaLists <- Lists
  MaxLines <- LineBound
  MaxHeads = 2
  MaxOddLines <- OddLineBound
  MaxOdd = 0
  Failures = {}
INVARIANTS
  RepliesFiltered
CHECK_DEADLOCK FALSE

\* A canceled Discussion's Run is shown as canceled and executes.
CONSTANTS
  MaxEpoch = 2
  MaxDown = 2
  MaxReplies = 0
  MaxUp = 1
  Discussion = TRUE
SPECIFICATION Spec
INVARIANTS
  CanceledNeverRuns
CHECK_DEADLOCK FALSE

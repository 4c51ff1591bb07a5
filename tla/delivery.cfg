\* An ordinary Run over two connections, one content event.
CONSTANTS
  MaxEpoch = 2
  MaxDown = 2
  MaxReplies = 1
  MaxUp = 1
  Discussion = FALSE
SPECIFICATION Spec
INVARIANTS
  AtMostOneStart
  CanceledNeverRuns
  HistoryAgrees
  NoSequenceGap
  FenceReleased
PROPERTIES
  FirstOutcomeStands
  SettledRunIsFinal
  ImplementsLifecycle
CHECK_DEADLOCK FALSE

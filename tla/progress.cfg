\* Liveness over two connections, the second of which stays up.
CONSTANTS
  MaxEpoch = 2
  MaxDown = 2
  MaxReplies = 0
  MaxUp = 0
  Discussion = TRUE
SPECIFICATION FairSpec
PROPERTIES
  AdmittedRunSettles
  CancellationResolves
CHECK_DEADLOCK FALSE

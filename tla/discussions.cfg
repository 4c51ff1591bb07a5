\* Two participants, the first of whom keeps its output to its owner; the other policies
\* differ from this one as MCDiscussions says.
CONSTANTS
  a1 = a1
  a2 = a2
  a3 = a3
  Nothing = Nothing
  Roster <- TwoAgents
  ReviewMode = FALSE
  RequireReviewer = FALSE
  Primary = Nothing
  Focused = FALSE
  FocusLimit = 2
  AllowAutomaticFinish = TRUE
  InitialLease = 1
  AutomaticMax = 1
  HardMax = 2
  Reserve = 1
  PlateauWindow = 1
  Private = {a1}
  QuorumMin = 0
  Endings = {"completed"}
  MaxControls = 1
  MaxCrashes = 1
  MaxLosses = 0
  MaxAsks = 1
  Lasting = TRUE
SPECIFICATION PartSpec
INVARIANTS
  DiscussionKept
  PoliciesKept
PROPERTIES
  SettledStays
CHECK_DEADLOCK FALSE

SPECIFICATION PartSpec
CONSTANTS
  n1 = n1
  o1 = o1
  o2 = o2
  t1 = t1
  base = base
  x = x
  p1 = p1
  p2 = p2
  c1 = c1
  c2 = c2
  k1 = k1
  k2 = k2
  d1 = d1
  d2 = d2
  None = None
  Nothing = Nothing
  Nodes <- OneNode
  Ops <- TwoOps
  Targets = {t1}
  TargetOf <- OneTarget
  Expected <- ExpectedCommit
  Candidate <- SealedCandidate
  FastForward <- OneNode
  Foreign = {x}
  Revocable = TRUE
  MaxMoves = 2
  MaxFaults = 2
  Profiles <- TwoProfiles
  Browsers <- Second
  Calls = 2
  MaxLosses = 1
  MaxChanges = 1
  Missing = Missing
  Clients <- Two
  Keys = {k1}
  Contents = {d1}
  KeyOf <- OneKey
  ContentOf <- OneContent
  Size <- SizeOne
  ChunkBytes = 1
  CaptureKeys = {}
  MaxUploads = 2
  MaxBytes = 4
  MaxMishaps = 1
  MaxStarts = 1
  Late = TRUE
  Expires = TRUE
INVARIANTS
  IntegrationTrue
  EvidenceWhole
PROPERTIES
  BranchMovesExactly
  EvidenceStepsKept
CHECK_DEADLOCK FALSE

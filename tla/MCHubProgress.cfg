SPECIFICATION FairSpec
CONSTANTS
  v1 = v1
  v2 = v2
  Viewers = {v1, v2}
  None = None
  MaxCandidates = 1
  Unreliable = {v1}
  Deletes = FALSE
PROPERTIES RunReturnsToSelect ViewerJoins
CHECK_DEADLOCK FALSE

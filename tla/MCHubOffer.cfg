SPECIFICATION Spec
CONSTANTS
  v1 = v1
  v2 = v2
  Viewers = {v1, v2}
  None = None
  MaxCandidates = 0
  Unreliable = {}
  Deletes = FALSE
SYMMETRY ViewerSymmetry
INVARIANT OfferIsSent
CHECK_DEADLOCK FALSE

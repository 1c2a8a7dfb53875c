SPECIFICATION FairSpec
CONSTANTS
  v1 = v1
  v2 = v2
  Viewers = {v1, v2}
  None = None
  MaxCandidates = 0
  Unreliable = {v1}
  Deletes = TRUE
PROPERTIES LeaversReturn InfosAreSent ImplementsRoster
CHECK_DEADLOCK FALSE

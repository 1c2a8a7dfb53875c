SPECIFICATION Spec
CONSTANTS
  v1 = v1
  v2 = v2
  Viewers = {v1, v2}
  None = None
  MaxCandidates = 1
  Unreliable = {v1}
  Deletes = TRUE
INVARIANTS TypeOK NoSendOnClosed NoDoubleClose UnregisterFindsClient ShutdownReachesClients
CHECK_DEADLOCK FALSE

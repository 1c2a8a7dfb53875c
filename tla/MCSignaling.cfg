SPECIFICATION FairSpec
CONSTANTS
  MaxSockets = 3
  FirstDelay = 250
  MaxDelay = 800
  MaxCandidates = 1
INVARIANTS TypeOK OneSocketAtATime DelaysBackOff RefusedIsStale MissedWasEarly
PROPERTIES ClosedIsRenewed OfferIsAnswered
CHECK_DEADLOCK FALSE

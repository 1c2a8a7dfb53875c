SPECIFICATION FairSpec
CONSTANTS
  p1 = p1
  Posts = {}
  Deletes = {}
  Main = Main
  Ports = {p1}
  RTPPort = p1
  None = None
PROPERTY StartLaunchesServer
CHECK_DEADLOCK FALSE

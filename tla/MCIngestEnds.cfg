SPECIFICATION FairSpec
CONSTANTS
  s1 = s1
  s2 = s2
  p1 = p1
  k1 = k1
  Sessions = {s1, s2}
  Ports = {p1}
  Keys = {k1}
  None = None
  Commands = {"HMAC", "Attribute", "Ping", "badAttribute", "Connect", "Dot", "Disconnect", "unsupported"}
  Losses = {"closed"}
  Faults = {"webrtc"}
  MaxRestarts = 0
  MaxExits = 0
PROPERTY SessionEnds
CHECK_DEADLOCK FALSE

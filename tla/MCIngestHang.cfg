SPECIFICATION FairSpec
CONSTANTS
  s1 = s1
  p1 = p1
  k1 = k1
  Sessions = {s1}
  Ports = {p1}
  Keys = {k1}
  None = None
  Commands = {"Attribute", "badAttribute"}
  Losses = {"closed"}
  Faults = {}
  MaxRestarts = 0
  MaxExits = 0
PROPERTY CommandIsAnswered
CHECK_DEADLOCK FALSE

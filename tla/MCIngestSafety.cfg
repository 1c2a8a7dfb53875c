SPECIFICATION Spec
CONSTANTS
  s1 = s1
  s2 = s2
  p1 = p1
  p2 = p2
  k1 = k1
  Sessions = {s1, s2}
  Ports = {p1, p2}
  Keys = {k1}
  None = None
  Commands = {"Connect", "badAttribute", "Dot", "Disconnect", "unsupported"}
  Losses = {"closed"}
  Faults = {"webrtc", "auth"}
  MaxRestarts = 1
  MaxExits = 1
SYMMETRY Symmetry
INVARIANTS TypeOK ReplyIsAwaited PortHostsOwnStream NoOrphanStream LastKeyIsStopped
PROPERTY ImplementsPortLease
CHECK_DEADLOCK FALSE

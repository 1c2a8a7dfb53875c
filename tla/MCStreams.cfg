SPECIFICATION LastingSpec
CONSTANTS
  post1 = post1
  post2 = post2
  delete1 = delete1
  delete2 = delete2
  p1 = p1
  p2 = p2
  Posts = {post1, post2}
  Deletes = {delete1, delete2}
  Main = Main
  Ports = {p1, p2}
  RTPPort = p1
  None = None
INVARIANTS TypeOK MapMatchesSockets HubClosedOnce NoLostHub
PROPERTIES DeletedStreamEnds ImplementsPortLease
CHECK_DEADLOCK FALSE

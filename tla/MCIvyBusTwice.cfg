SPECIFICATION Spec
CONSTANTS
  app1 = app1
  app2 = app2
  r1 = r1
  r2 = r2
  m1 = m1
  m2 = m2
  NoMessage = NoMessage
  App <- MCApp
  Port <- MCPort
  Re <- MCRe
  Message <- MCMessage
  Match <- MCMatch
  Filtered <- NoFilter
  Bad = {}
  Ready <- BReady
  SeenPorts = {8, 9}
  Copies <- Crossed
  MaxConn = 2
  MaxBinds <- None
  MaxSends <- None
  MaxChanges = 0
  Ops = {}
INVARIANT OneConnection
CHECK_DEADLOCK FALSE

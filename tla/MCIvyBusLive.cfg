SPECIFICATION Spec
CONSTANTS
  app1 = app1
  app2 = app2
  r1 = r1
  r2 = r2
  m1 = m1
  m2 = m2
  NoMessage = NoMessage
  App <- MCApp
  Port <- MCPort
  Re <- MCRe
  Message <- MCMessage
  Match <- MCMatch
  Filtered <- NoFilter
  Bad = {r1}
  Ready <- BReady
  SeenPorts = {9}
  Copies <- Echoed
  MaxConn = 1
  MaxBinds <- One
  MaxSends <- OneB
  MaxChanges = 0
  Ops = {"exit", "die", "stop"}
PROPERTY Introduced
PROPERTY Forgotten
CHECK_DEADLOCK FALSE

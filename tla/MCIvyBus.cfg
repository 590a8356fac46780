SPECIFICATION Spec
CONSTANTS
  app1 = app1
  app2 = app2
  r1 = r1
  r2 = r2
  m1 = m1
  m2 = m2
  NoMessage = NoMessage
  App <- MCApp
  Port <- MCPort
  Re <- MCRe
  Message <- MCMessage
  Match <- MCMatch
  Filtered <- AFilters
  Bad = {}
  Ready <- BothReady
  SeenPorts = {9}
  Copies <- AToB
  MaxConn = 1
  MaxBinds <- TwoOne
  MaxSends <- OneB
  MaxChanges = 0
  Ops = {"unbind"}
INVARIANT ListsAgree
INVARIANT MsgAfterConnected
INVARIANT Mirrored
INVARIANT CallbackMatches
PROPERTY ReadyComplete
CHECK_DEADLOCK FALSE

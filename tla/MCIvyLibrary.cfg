SPECIFICATION LibrarySpec
CONSTANTS
  p1 = p1
  p2 = p2
  p3 = p3
  p4 = p4
  r1 = r1
  r2 = r2
  Peers <- TwoPeers
  Texts <- TwoTexts
  Ids = {1, 2}
  Slack = 2
  MaxRegs = 2
  Nodes <- FourNodes
  NodeIds = {1, 2, 3, 4}
  PerSec = 2
  MaxSecs = 2
  MaxTime = 8
  MaxPings = 3
  Letters = {1, 2}
  MaxWord = 2
  MaxClasses = 3
  MaxAnnounced = 2
  Lines <- SomeLines
  Modulus = 64
  VersionMax = 31
  PortMax = 15
  IdSize = 3
  NameSize = 4
INVARIANTS NoWrap ParsedRight ExactWhenSettled WalkLive NothingMissed
PROPERTIES ImplementsList PositiveExact
CHECK_DEADLOCK FALSE

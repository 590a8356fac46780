SPECIFICATION ProgramSpec
CONSTANTS
  Names = {n1, n2}
  Clients = {c1, c2, c3}
  MaxFilters = 2
  Apps = {c1, c2}
  WaitCount = 1
  Kinds = {"msg", "dieall", "quit"}
  EarlyEnds = FALSE
  MaxTyped = 3
  MaxStdins = 2
  Timers = {t1, t2}
  Counts <- OneTwoOrLoop
  Delays = {1, 2}
  CbOps <- NoModify
  Threaded = FALSE
  MaxTime = 3
INVARIANTS CursorLive NotTooOften LookupLive BlockedIfTwice
PROPERTIES NeverLost DueCalled EndQuits
CHECK_DEADLOCK FALSE

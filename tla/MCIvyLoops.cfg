SPECIFICATION LoopsSpec
CONSTANTS
  Conns = {c1, c2}
  MaxLines = 1
  Chans = {c1, c2}
  Excpt = TRUE
  Threaded = TRUE
  Stops = TRUE
INVARIANTS CursorLive HandlerOwns DeletedOnce RemovedSilent
PROPERTIES ReapedAlone WritableAskedAlone Drained
CHECK_DEADLOCK FALSE

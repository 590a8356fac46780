SPECIFICATION Spec
CONSTANTS
  ALLOC = 2
  MAX = 4
  Uninit = Uninit
  Byte <- MCByte
  SockBuf = 2
  BufferSize = 1
  NFrames = 3
  IdLens <- MCIdLens
  BodyLens <- MCBodyLens
INVARIANT TypeOK
INVARIANT StreamIntact
INVARIANT WritableIffFifo
INVARIANT CongestionTold
INVARIANT FramesInOrder
PROPERTY Delivered
PROPERTY Reaped

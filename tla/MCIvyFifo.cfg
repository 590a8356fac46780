SPECIFICATION Spec
CONSTANTS
  ALLOC = 2
  MAX = 6
  b1 = b1
  b2 = b2
  Uninit = Uninit
  Byte <- MCByte
  Writes <- MCWrites
INVARIANT TypeOK
PROPERTY ImplementsQueue

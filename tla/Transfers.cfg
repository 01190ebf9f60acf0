SPECIFICATION Spec
CONSTANTS
  Word = 16
  IndexSize = 9
  TpmNvBufferMax = 9
  MAX_NV_BUFFER_SIZE = 8
  BackLevelBufferMax = 2
  Uninitialized <- MCUninitialized
  Offsets <- MCOffsets
  Lengths <- MCLengths
  RandomMax = 5
INVARIANTS TypeOK ReadBufferIsAPrefix IndexHoldsAPrefix RandomBufferIsNotOverrun FailureStopsTheTransfer
PROPERTY TransfersEnd
CHECK_DEADLOCK FALSE

SPECIFICATION Spec
CONSTANTS
  NoPrec = NoPrec
  Pending = Pending
  Calls <- CallsMade
  Items <- ItemsUsed
  MemSize = 24
  TmpLen = 16
  RevLen = 10
  AddrBits = 8
  AddrLen = 40
  VaListIsArray = TRUE
  Garbage = {0, 123}
INVARIANT BufferHoldsText
INVARIANT FormatNoFault
INVARIANT NumberRight
INVARIANT RowsTrue
PROPERTY DumpsAdvance

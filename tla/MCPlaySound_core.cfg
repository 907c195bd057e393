SPECIFICATION Spec
CONSTANTS
  WavFiles <- PlainFiles
  Client = {}
  MaxPlays = 4
INVARIANT NoFault
INVARIANT PlayingExact
INVARIANT VerdictTrue
PROPERTY PlayingEnds
CHECK_DEADLOCK FALSE

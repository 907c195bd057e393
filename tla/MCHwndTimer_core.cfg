SPECIFICATION Spec
CONSTANTS
  Wnd = {w1, w2}
  NoWnd = NoWnd
  ClockBits = 3
  Counts <- SomeCounts
  Spans = {1}
  Client = {}
  MaxLag = 1
  MaxDone = 3
  MaxStarts = 2
  MaxDepth = 3
INVARIANT ArmedWhileTicking
INVARIANT NoFault
INVARIANT CountExact
INVARIANT OneLateCallback
PROPERTY SpanExact
PROPERTY RunEnds
CHECK_DEADLOCK FALSE

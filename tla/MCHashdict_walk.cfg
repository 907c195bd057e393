SPECIFICATION Spec
CONSTANTS
  k1 = k1
  k2 = k2
  k3 = k3
  k4 = k4
  NoKey = NoKey
  Key = {k1, k2}
  Value = {v1}
  Enumor = {e1, e2}
  FromKeys = {NoKey, k1}
  HashOf <- HashesOfTwo
  InitialDictWidth = 2
  PerturbShift = 2
  GiveUp = 2
  TroveInitSize = 2
  TroveExtendOnceMax = 3
  PctFullToResize = 66
  PctDummyToCompact = 50
  ShrinkLowMark = 1
  ShrinkHighMark = 2
  MaxWidth = 4
  MaxRenames = 1
  HungrySlots <- NoneGiven
  Calls <- WalkCalls
INVARIANT SessionsExact
PROPERTY ImplementsOrderedDict
VIEW DictView

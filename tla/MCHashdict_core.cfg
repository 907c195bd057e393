SPECIFICATION Spec
CONSTANTS
  k1 = k1
  k2 = k2
  k3 = k3
  k4 = k4
  NoKey = NoKey
  Key = {k1, k2, k4}
  Value = {v1, v2}
  Enumor = {}
  FromKeys = {NoKey}
  HashOf <- HashesOfThree
  InitialDictWidth = 2
  PerturbShift = 2
  GiveUp = 2
  TroveInitSize = 2
  TroveExtendOnceMax = 3
  PctFullToResize = 66
  PctDummyToCompact = 50
  ShrinkLowMark = 1
  ShrinkHighMark = 3
  MaxWidth = 3
  MaxRenames = 0
  HungrySlots <- OneEmpty
  Calls <- CoreCalls
INVARIANT SlotsMirrorTrove
INVARIANT FindsEveryKey
INVARIANT Terminates
PROPERTY ImplementsOrderedDict
VIEW DictView

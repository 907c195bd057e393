SPECIFICATION Spec
CONSTANTS
  Value = {v1, v2}
  Default = Default
  Zero = Zero
  DefTrait <- DefaultOf4
  Traits <- TestTraits
  NoMemory = TRUE
  MaxGiven = 2
  Calls <- AllCalls
INVARIANT NoFault
INVARIANT AliveExact
PROPERTY SpareAfterShrink
PROPERTY ImplementsGrowingArray
VIEW ArrayView
CHECK_DEADLOCK FALSE

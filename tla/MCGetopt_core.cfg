SPECIFICATION Spec
CONSTANTS
  c1 = c1
  c2 = c2
  Ctx = {c1, c2}
  Jobs <- TheJobs
  Calls <- None
INVARIANT StableSplit
INVARIANT ErrorNamed
PROPERTY ScanAdvances
PROPERTY ImplementsOptionStream

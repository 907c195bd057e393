SPECIFICATION FairSpec
CONSTANTS
  o1 = o1
  o2 = o2
  s1 = s1
  s2 = s2
  n1 = n1
  n2 = n2
  NoHwnd = NoHwnd
  NoObj = NoObj
  NoSig = NoSig
  NoName = NoName
  Hwnd = {h1}
  Obj = {o1, o2}
  Sig = {s1}
  Name <- Names
  NameOf <- SigName
  CutName <- SigName
  Failures = {"SetWindowSubclass"}
  MaxDepth = 2
  Calls <- GoodCalls
PROPERTY DoomedAreDeleted
CHECK_DEADLOCK FALSE

SPECIFICATION Spec
CONSTANTS
  o1 = o1
  o2 = o2
  s1 = s1
  s2 = s2
  n1 = n1
  n2 = n2
  NoHwnd = NoHwnd
  NoObj = NoObj
  NoSig = NoSig
  NoName = NoName
  Hwnd = {h1, h2}
  Obj = {o1, o2}
  Sig = {s1, s2}
  Name <- Names
  NameOf <- SigNames
  CutName <- CutNames
  Failures = {"SetWindowSubclass"}
  MaxDepth = 2
  Calls <- GoodCalls
INVARIANT NoFault
INVARIANT AttachmentsAgree
CHECK_DEADLOCK FALSE

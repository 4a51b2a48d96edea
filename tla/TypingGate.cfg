SPECIFICATION FairSpec
CONSTANTS
  Hooks = {h1}
  Writers = {w1, w2}
  FreshWindow = 2
  WaitLimit = 1
  MinPassAge = 1
  HardLimit = 2
  AfterEnter = 1
  KeyGap = 1
  MarkerTTL = 7
  HookCap = 2
  WriteTime = 1
  DialogLatency = 1
  ReadLatency = 1
INVARIANTS
  TypeOK
  KeySafe
  MarkerHeld
  MarkerUp
PROPERTIES
  HooksGoOn
  SendsEnd

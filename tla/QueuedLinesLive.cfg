SPECIFICATION FairSpec
CONSTANTS
  Msgs = {m1, m2}
  Taps = {t1}
  Teardowns = {}
  MaxRestarts = 0
  MaxTurns = 1
  Faults = {}
PROPERTIES
  LineEnds
  KeepsLinePromise
CHECK_DEADLOCK FALSE

SPECIFICATION LiveSpec
CONSTANTS
  MaxTunnels = 2
  MaxStarts = 3
  Faults = {"exit", "unproven", "record", "guard", "crash"}
INVARIANTS TypeOK Accounted ButtonTells
PROPERTIES KeptEnds
\* After the last daemon nothing need happen.
CHECK_DEADLOCK FALSE

SPECIFICATION Spec
CONSTANTS
  Prompts = {p1, p2}
  Chords = {c1}
  Clears = {d1}
  Stops = {s1}
  Pieces = 2
  MinPresses = 1
  MaxPresses = 4
  Batch = 1
  Faults = {"fail"}
  Kills = {"dies", "survives"}
SYMMETRY Symmetry
INVARIANTS
  TypeOK
  NoStash
  NoGlue
  BoxAccounted
  ReportedTruly
CHECK_DEADLOCK FALSE

SPECIFICATION FairSpec
CONSTANTS
  Prompts = {p1}
  Chords = {c1}
  Clears = {}
  Stops = {s1}
  Pieces = 2
  MinPresses = 1
  MaxPresses = 3
  Batch = 1
  Faults = {"fail", "timeout"}
  Kills = {"dies", "survives"}
PROPERTIES
  WritersReturn
CHECK_DEADLOCK FALSE

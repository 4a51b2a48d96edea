SPECIFICATION LiveSpec
CONSTANTS
  Turns <- MCTurns
  Sessions = {"a"}
  Owner <- OneSession
  FileTurns = {2, 3}
  Merged = {2}
  Cap = 2
  MaxAttempts = 2
  Faults = {"rich", "plain", "age"}
  MaxMutes = 2
  MaxRestarts = 0
PROPERTIES EverythingSettles
\* The last turn may end with nothing left to do.
CHECK_DEADLOCK FALSE

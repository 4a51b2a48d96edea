SPECIFICATION Spec
CONSTANTS
  Prompts = {p1, p2}
  NoPrompt = NoPrompt
  MayDeny = {}
  Faults = {}
  MaxByHand = 0
INVARIANT WaitsUntilAnswered
CHECK_DEADLOCK FALSE

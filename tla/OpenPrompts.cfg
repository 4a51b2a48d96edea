SPECIFICATION Spec
CONSTANTS
  Prompts = {p1, p2, p3}
  NoPrompt = NoPrompt
  MayDeny = {p1, p2, p3}
  Faults = {"no_channel", "terminal"}
  MaxByHand = 2
SYMMETRY PromptSymmetry
INVARIANTS
  TypeOK
  KeysMeetTheirDialog
  DialogOnRecord
  RefusalWoken
CHECK_DEADLOCK FALSE

SPECIFICATION Spec
CONSTANTS
  Msgs = {m1, m2}
  Taps = {t1}
  Teardowns = {"stop", "clear", "end"}
  MaxRestarts = 1
  MaxTurns = 0
  Faults = {"mute", "restart_unsaved", "lost_reply", "delete_error", "api_error", "escape"}
SYMMETRY Symmetry
INVARIANTS
  TypeOK
  AnsweredQueueClear
  LinesOwed
  TrackedLineUp
CHECK_DEADLOCK FALSE

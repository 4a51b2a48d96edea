SPECIFICATION Spec
CONSTANTS
  Messages = 3
  MaxTools = 0
  MaxMishaps = 0
  Races = {"stop_while_typing"}
INVARIANTS EveryAnswerUnderOwn
\* Every message may be answered and nothing be left to do.
CHECK_DEADLOCK FALSE

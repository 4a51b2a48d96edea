SPECIFICATION LiveSpec
CONSTANTS
  Messages = 3
  MaxTools = 1
  MaxMishaps = 1
  Races = {}
INVARIANTS TypeOK OneLiveCard OwnRows AnswerUnderOwn
PROPERTIES TurnsSettle KeepsChatPromise
\* Every message may be answered and nothing be left to do.
CHECK_DEADLOCK FALSE

SPECIFICATION Spec
CONSTANTS
  Turns <- MCTurns
  Sessions = {"a", "b"}
  Owner <- MCOwner
  FileTurns = {1, 3}
  Merged = {}
  Cap = 2
  MaxAttempts = 2
  Faults = {"rich", "plain", "blocked", "age", "crash"}
  MaxMutes = 2
  MaxRestarts = 1
INVARIANTS TypeOK NothingVanishes AnswerOnce FilesWaitForOwn
PROPERTIES LateInOrder FilesAfterAnswer KeepsPromise
\* The last turn may end with nothing left to do.
CHECK_DEADLOCK FALSE

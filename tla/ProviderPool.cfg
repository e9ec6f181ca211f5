SPECIFICATION Spec
CONSTANTS
  N = 3
  Calls = {"watcher", "sender"}
  Attempts <- FireAttempts
  Flaky <- FirstFlaky
  KeepAlive = TRUE
INVARIANTS
  TypeOK
  OutageIsNonEvent
  BlameIsDeserved

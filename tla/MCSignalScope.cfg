CONSTANTS
  Signals = {2, 15}
  NoSignal = 0
SPECIFICATION ScopeSpec
INVARIANTS TemporaryNeverRuns NoSilentChange
CHECK_DEADLOCK FALSE

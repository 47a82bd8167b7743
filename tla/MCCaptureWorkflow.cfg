CONSTANTS
  Signals = {2, 15}
  NoSignal = 0
  ExitCodes = {0}
  KillSignals = {9}
SPECIFICATION MCSpec
INVARIANTS CompletedIsEarned NoCommitWhileProducing  NoSignalSwallowed ZeroMeansCompleted
PROPERTIES NoStartAfterStop DecisionIsFinal
CHECK_DEADLOCK FALSE

CONSTANTS
  Signals = {INT, TERM}
  NoSignal = NoSignal
  TraceLimit = 1
  MaxLen = 2
  ExclusiveReaper = TRUE
SPECIFICATION Spec
INVARIANTS OneTerminationRequest StatusAfterObservation NoStrangerSignalled
PROPERTIES KeepsEvidencePromise
CHECK_DEADLOCK FALSE

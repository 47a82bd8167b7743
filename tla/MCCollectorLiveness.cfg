\* Another process may reap the child and its PID may be reused.
CONSTANTS
  Signals = {TERM}
  NoSignal = NoSignal
  TraceLimit = 0
  MaxLen = 1
  ExclusiveReaper = FALSE
SPECIFICATION FairSpec
PROPERTIES StopResponds SignalsNeedAuthority
CHECK_DEADLOCK FALSE

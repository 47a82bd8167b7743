\* Three tasks, so that two spawns overlap and a third task reuses a PID.
CONSTANTS
  Pids = {p1, p2, p3}
  NoPid = NoPid
  MaxEvents = 4
  MaxLost = 1
SPECIFICATION TimelineSpec
SYMMETRY PidSymmetry
INVARIANTS
  NoSilentMerge
  ExactWhenComplete
  NoMissingMeansEnded
  RootCompletionSound
CHECK_DEADLOCK FALSE

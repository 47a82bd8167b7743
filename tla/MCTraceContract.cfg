\* Records of traces with reused PIDs and one missing event.
CONSTANTS
  Pids = {p1, p2}
  NoPid = NoPid
  MaxEvents = 4
  MaxLost = 1
SPECIFICATION TimelineSpec
SYMMETRY PidSymmetry
INVARIANTS
  WrittenIsAccepted
  AlterationIsRefused
CHECK_DEADLOCK FALSE

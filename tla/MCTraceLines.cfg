\* Two IDs for more tasks, one line missing or undecodable.
CONSTANTS
  Pids = {p1, p2}
  NoPid = NoPid
  Names = {"open"}
  MaxCalls = 4
  MaxFaults = 1
SPECIFICATION LinesSpec
SYMMETRY PidSymmetry
INVARIANTS
  PairsAreReal
  QuietIsExact
CHECK_DEADLOCK FALSE

\* Every kind of call, one missing exit line and a reused task ID.
CONSTANTS
  Dirs = {d1, d2}
  NoDir = NoDir
  MaxTasks = 3
  MaxCalls = 3
  MaxLost = 1
  Changes = {"Cwd", "Relative", "RelativeCwd", "InvalidateConnected", "InvalidateAll"}
  CloneFlags = {{}, {"FS"}, {"NEWNS"}, {"FS", "other"}}
  UnshareFlags = {{}, {"FS"}, {"NEWNS"}, {"NEWNET"}, {"FS", "other"}}
SPECIFICATION FsSpec
SYMMETRY DirSymmetry
INVARIANTS
  CwdSound
  UncertainIsWarned
  ExactWhenOrdered
CHECK_DEADLOCK FALSE

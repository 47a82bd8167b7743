---------------------------- MODULE MCTaskTimeline ----------------------------
(* Task timelines with few PIDs, so that numeric IDs are reused.             *)
EXTENDS TaskTimeline
PidSymmetry == Permutations(Pids)
==============================================================================

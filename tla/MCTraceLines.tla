---------------------------- MODULE MCTraceLines -----------------------------
(* Lines of a few tasks that reuse two IDs.                                   *)
EXTENDS TraceLines
PidSymmetry == Permutations(Pids)
==============================================================================

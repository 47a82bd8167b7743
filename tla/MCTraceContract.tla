--------------------------- MODULE MCTraceContract ---------------------------
(* Saved traces of a few tasks over reused PIDs.                             *)
EXTENDS TraceContract
PidSymmetry == Permutations(Pids)
==============================================================================

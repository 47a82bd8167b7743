----------------------------- MODULE MCFsContext -----------------------------
(* File-system contexts of a few tasks and calls.                            *)
EXTENDS FsContext
DirSymmetry == Permutations(Dirs)
==============================================================================

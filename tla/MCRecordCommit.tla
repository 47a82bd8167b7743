---------------------------- MODULE MCRecordCommit ----------------------------
(* One record under each contract, with at most one outside alteration. *)
EXTENDS RecordCommit
=============================================================================

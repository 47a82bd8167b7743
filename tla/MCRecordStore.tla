---------------------------- MODULE MCRecordStore -----------------------------
(* Two processes, three record directories over two possible IDs, and labels of
   which one is spelled like an ID. *)
EXTENDS RecordStore, TLC

CONSTANTS p1, p2, r1, r2, r3, i1, i2, l1, t1, t2

MCProcs   == {p1, p2}
MCRecords == {r1, r2, r3}
MCIds     == {i1, i2}
MCLabels  == {l1, i2}
MCTickets == {t1, t2}
Symmetric == Permutations(MCProcs) \cup Permutations(MCTickets) \cup Permutations(MCRecords)
=============================================================================

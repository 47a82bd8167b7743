--------------------------- MODULE EvidenceLifetime ---------------------------
(***************************************************************************)
(* What capture promises the rest of the recorder: one writer may append   *)
(* to the raw trace while it lives, and the facts that let the workflow    *)
(* read and finalize that trace are published only when it cannot change   *)
(* any more.  Otherwise the promise is refused and the record stays        *)
(* unfinalized.                                                            *)
(***************************************************************************)
EXTENDS Naturals

VARIABLES
  writer,    \* "absent", "live" or "ended"
  size,      \* how much evidence has been written
  verdict    \* "none", "facts" or "refused"

evidenceVars == <<writer, size, verdict>>

Init == writer = "absent" /\ size = 0 /\ verdict = "none"

Start ==
  /\ verdict = "none" /\ writer = "absent"
  /\ writer' = "live"
  /\ UNCHANGED <<size, verdict>>

Write ==
  /\ writer = "live"
  /\ size' = size + 1
  /\ UNCHANGED <<writer, verdict>>

End ==
  /\ writer = "live"
  /\ writer' = "ended"
  /\ UNCHANGED <<size, verdict>>

Publish ==
  /\ verdict = "none" /\ writer # "live"
  /\ verdict' = "facts"
  /\ UNCHANGED <<writer, size>>

Refuse ==
  /\ verdict = "none"
  /\ verdict' = "refused"
  /\ UNCHANGED <<writer, size>>

Next == Start \/ Write \/ End \/ Publish \/ Refuse

Spec == Init /\ [][Next]_evidenceVars

=============================================================================

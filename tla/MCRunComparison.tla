--------------------------- MODULE MCRunComparison ---------------------------
(* Pairs of records as the loader hands them over, and some that only a       *)
(* caller inside the program can build.                                       *)
EXTENDS RunComparison

Meta(schema, state, completeness, exit) ==
  [schema |-> schema, state |-> state, completeness |-> completeness,
   ended |-> state # "running", raw |-> exit, target |-> MetadataFields(exit),
   collector |-> IF exit.kind = "unknown" THEN Exited(0) ELSE exit,
   provenance |-> schema = 4 /\ exit # NoExit,
   warned |-> completeness \in {"partial", "incomplete"}, events |-> 0, lines |-> 0,
   cwd |-> "here", command |-> "target", environment |-> IF schema = 1 THEN "none" ELSE "set"]

Input(meta, storage, raw, receipt, withheld) ==
  [load |-> "Loaded", meta |-> meta, storage |-> storage, raw |-> raw, receipt |-> receipt,
   withheld |-> withheld, events |-> <<>>, eventSchema |-> IF meta.schema < 3 THEN 1 ELSE meta.schema - 1]

Complete(schema) == Meta(schema, "completed", "complete", Exited(0))
Partial(schema) == Meta(schema, "completed", "partial", UnknownKill)
FailedMeta(schema) == Meta(schema, "capture_failed", "incomplete", NoExit)
Interrupted(schema) == Meta(schema, "interrupted", "incomplete", Signaled(15))
RunningMeta(schema) == Meta(schema, "running", "pending", NoExit)
Parsed == ParsedReceipt(0, 0)

Final(schema) == {Complete(schema), Meta(schema, "completed", "complete", Exited(1)), Partial(schema),
                  FailedMeta(schema), Interrupted(schema)}

(* read_record_at: marked records of both contracts, unmarked ones, legacy. *)
FromStorage ==
  {Input(m, "verified", "none", NoReceipt, FALSE) :
     m \in Final(3) \cup {[Complete(3) EXCEPT !.cwd = "there"], [Complete(3) EXCEPT !.command = "other"],
                          [Complete(3) EXCEPT !.environment = "unset"]}}
  \cup {Input(m, "verified", raw, Parsed, FALSE) : m \in Final(4), raw \in {"verified", "corrupt"}}
  \cup {Input(Complete(4), "verified", "unavailable", Parsed, FALSE)}
  \cup {Input(FailedMeta(4), "verified", "unverified", Unverified, FALSE)}
  \cup {Input(m, "unfinalized", "none", NoReceipt, TRUE) : m \in {RunningMeta(3), Complete(3)}}
  \cup {Input(m, "unfinalized", "unverified", NoReceipt, TRUE) : m \in {RunningMeta(4), Complete(4)}}
  \cup {Input([Complete(2) EXCEPT !.environment = "unset"], "unverified", "none", NoReceipt, FALSE),
        Input([Complete(1) EXCEPT !.completeness = "none"], "unverified", "none", NoReceipt, FALSE)}
  \cup {[Input(Complete(3), "unfinalized", "none", NoReceipt, TRUE) EXCEPT !.load = kind] :
          kind \in {"Corrupt", "Unsupported", "Unavailable", "Busy"}}

(* Unmarked observations of an old record, and contradictory ones. *)
Direct ==
  {Input(Complete(2), "unfinalized", "none", NoReceipt, FALSE),
   Input(Complete(2), "verified", "none", NoReceipt, FALSE),
   Input(Complete(3), "unavailable", "none", NoReceipt, FALSE),
   Input(Complete(4), "verified", "none", NoReceipt, FALSE),
   Input(Complete(4), "verified", "verified", Unverified, FALSE),
   Input([Complete(3) EXCEPT !.collector = Exited(1)], "verified", "none", NoReceipt, FALSE)}

AllInputs == FromStorage \cup Direct
Admitted == {Input(Complete(3), "verified", "none", NoReceipt, FALSE),
             Input(Complete(2), "unfinalized", "none", NoReceipt, FALSE)}

(* Every kind of record against every other, with at most one more event    *)
(* each; and longer event vectors of few records, with repeated and shared  *)
(* outcomes.                                                                *)
AllCases ==
  {[inputs |-> AllInputs, formats |-> {"Automatic", "TraceV5", "OutcomeV6"}, maxEvents |-> 1],
   [inputs |-> Admitted, formats |-> {"OutcomeV6"}, maxEvents |-> 3]}
==============================================================================

----------------------------- MODULE RunContract ------------------------------
(***************************************************************************)
(* The contract every saved run must satisfy, for its writer, its reader   *)
(* and a comparison alike, from validate_metadata_contract,                *)
(* validate_run_contract_facts, validate_raw_manifest and                  *)
(* validate_comparison_run in src/model/mod.rs.                            *)
(*                                                                         *)
(* Metadata is a record with fields                                        *)
(*   schema 1..4, state, completeness, ended (a Boolean),                  *)
(*   raw (the spelled target exit), target and collector (the numeric      *)
(*   facts; NoExit if absent), provenance and warned (Booleans),           *)
(*   events and lines (the saved counts).                                  *)
(* Names, paths, commands and environments are left out: the recorder      *)
(* checks them before it starts.  The replay of schema 4 lifetimes is      *)
(* TraceContract.                                                          *)
(***************************************************************************)
EXTENDS CaptureReduction, Sequences

(* ProcessExit::metadata_fields: an undecodable exit has no number. *)
MetadataFields(exit) == IF HasStatus(exit) THEN exit ELSE NoExit

(* Current numbers are those of Linux wait statuses. *)
InRange(exit) ==
  /\ exit.kind = "exited" => exit.number \in 0 .. 255
  /\ exit.kind = "signaled" => exit.number \in 1 .. 64

(* trace-v1: the outcome and its references, to two saved events, occur    *)
(* together, and the number is what the spelling says.                     *)
EvidenceValid(m) ==
  IF m.schema = 4
  THEN /\ m.raw # NoExit <=> m.provenance
       /\ m.provenance => m.events >= 2 /\ m.lines >= 1
       /\ m.raw # NoExit => m.target = MetadataFields(m.raw)
  ELSE ~m.provenance

FinalFacts(m) == m.ended \/ m.target # NoExit \/ m.collector # NoExit \/ m.raw # NoExit
                 \/ m.warned \/ m.events # 0 \/ m.lines # 0

(* The combinations of state and completeness, with what each one needs. *)
StateValid(m) ==
  \/ m.state = "running" /\ m.completeness = "pending" /\ ~FinalFacts(m)
  \/ /\ m.state = "completed" /\ m.completeness \in {"complete", "partial"}
     /\ m.ended /\ m.raw # NoExit /\ m.collector # NoExit
     /\ m.completeness = "partial" => m.warned
  \/ m.state = "capture_failed" /\ m.completeness = "incomplete" /\ m.ended /\ m.warned
  \/ m.state = "interrupted" /\ m.completeness = "incomplete" /\ m.ended

(* A known target of a completed run is confirmed by its collector. *)
OutcomeValid(m) ==
  /\ m.target # NoExit => m.raw # NoExit
  /\ m.completeness = "complete" => ~m.warned
  /\ m.completeness = "complete" \/ (m.state = "completed" /\ m.target # NoExit)
     => m.target # NoExit /\ m.collector = m.target

ValidateMetadata(m) ==
  /\ EvidenceValid(m)
  /\ m.schema >= 3 => InRange(m.target) /\ InRange(m.collector) /\ StateValid(m) /\ OutcomeValid(m)

(* EventFacts of a vector: how many, of which schema, the last line they   *)
(* name, whether any is context-uncertain or lacks its argv or an absolute *)
(* path.                                                                   *)
EventFacts(count, schema, maxEnd, uncertain, incomplete) ==
  [count |-> count, schema |-> schema, maxEnd |-> maxEnd,
   uncertain |-> uncertain, incomplete |-> incomplete]

(* The event schema each metadata schema goes with; an empty vector has any. *)
TupleValid(m, facts) ==
  facts.count # 0 => CASE m.schema = 3 -> facts.schema = 2
                       [] m.schema = 4 -> facts.schema = 3
                       [] OTHER -> facts.schema # 3

ValidateRunFacts(m, facts, finalized) ==
  /\ ValidateMetadata(m)
  /\ m.schema >= 3 /\ finalized => m.state # "running"
  /\ TupleValid(m, facts)
  /\ m.events = facts.count /\ facts.maxEnd <= m.lines
  /\ m.schema >= 3 /\ m.completeness = "complete" => ~facts.uncertain /\ ~facts.incomplete

(* RawReceipt of one traversal of the trace, which may not have reached its end. *)
ParsedReceipt(bytes, lines) == [kind |-> "Parsed", bytes |-> bytes, lines |-> lines]
Unverified == [kind |-> "Unverified", bytes |-> 0, lines |-> 0]

ValidateRawManifest(receipt, m) ==
  /\ m.schema = 4
  /\ IF receipt.kind = "Parsed"
     THEN /\ receipt.lines = m.lines /\ receipt.lines <= receipt.bytes
          /\ receipt.bytes = 0 <=> receipt.lines = 0
     ELSE ~m.provenance /\ m.events = 0 /\ m.lines = 0 /\ m.completeness = "incomplete"

(* A loaded run: metadata meta, event vector events, storage integrity, raw  *)
(* integrity and receipt; eventSchema is the schema of its events.  Its      *)
(* metadata also have cwd, command and environment.                          *)
NoReceipt == [kind |-> "none", bytes |-> 0, lines |-> 0]

(* The component statuses a marker-bound receipt or its absence allows. *)
RawConsistent(run) ==
  IF run.storage = "unfinalized"
  THEN run.raw = "unverified" /\ run.receipt = NoReceipt /\ run.events = <<>>
  ELSE /\ run.storage = "verified"
       /\ \/ run.receipt.kind = "Parsed" /\ run.raw \in {"verified", "corrupt", "unavailable"}
          \/ run.receipt.kind = "Unverified" /\ run.raw = "unverified"

(* Events withheld for want of a marker are not compared with the counts. *)
Withheld(run) ==
  run.storage = "unfinalized" /\ run.events = <<>> /\ (run.meta.schema >= 3 \/ run.meta.state = "running")

ValidateComparisonRun(run) ==
  LET m == run.meta
      facts == EventFacts(Len(run.events), run.eventSchema, Len(run.events), FALSE, FALSE)
  IN /\ run.storage \in {"verified", "unverified", "unfinalized"}
     /\ m.schema >= 2 => m.completeness # "none" /\ m.environment # "none"
     /\ ValidateMetadata(m)
     /\ IF m.schema = 4
        THEN /\ run.raw # "none" /\ RawConsistent(run)
             /\ run.receipt # NoReceipt => ValidateRawManifest(run.receipt, m)
        ELSE run.raw = "none"
     /\ ~Withheld(run) =>
          /\ ValidateRunFacts(m, facts, run.storage = "verified")
          /\ run.storage = "verified" => m.schema \in {3, 4} /\ m.state # "running"
==============================================================================

----------------------------- MODULE RecordCommit -----------------------------
(***************************************************************************)
(* One record directory, its single writer (RunWriter and finish_at_...)   *)
(* and a reader that takes no lock (read_record_at), from                  *)
(* src/store/mod.rs.  The writer publishes every file by the same atomic   *)
(* replacement; any system call may fail, the process may crash between    *)
(* any two, and stored files may be damaged by something else.             *)
(*                                                                         *)
(* File contents are abstracted to who wrote them: the initial "running"   *)
(* metadata, the "final" bytes staged by finish, or "damaged" bytes.       *)
(***************************************************************************)
EXTENDS Naturals

CONSTANT MaxDamage   \* bound on how often stored bytes are altered from outside

ASSUME MaxDamageAssumption == MaxDamage \in Nat

VARIABLES
  contract,   \* recording contract: "default" or "trace_v1"
  \* the writer
  job,        \* which publication, or which step between publications
  stage,      \* step of the current atomic replacement
  staging,    \* StagedFile.name: "none", "anonymous" (None) or "named" (Some)
  readBack,   \* checks of the leaves read back so far
  receipt,    \* raw version frozen by the traversal, or why there is none
  outcome,    \* "active", "committed", "failed" or "crashed"
  error,      \* what a failure reports: commit stage and cleanup failure
  \* the record directory
  leaf,       \* contents of events.jsonl, metadata.json, raw-integrity.json
  marker,     \* the checks bound by finalized.json, or NoMarker
  temp,       \* an unpublished staging name exists in the directory
  raw,        \* version of raw/trace.log
  damages,    \* how many outside alterations happened
  \* one reader
  rpc, rmarker, rstatus, rraw, got,
  \* history
  replaced    \* the current replacement has renamed over its destination

writerVars == <<job, stage, staging, readBack, receipt, outcome, error, replaced>>
dirVars    == <<leaf, marker, temp, raw, damages>>
readerVars == <<rpc, rmarker, rstatus, rraw, got>>
vars == <<contract, writerVars, dirVars, readerVars>>

Leaves   == {"events", "metadata", "manifest"}
Contents == {"absent", "running", "final", "damaged"}
NoMarker == [l \in Leaves |-> "none"]
NoError  == [stage |-> "none", cleanup |-> FALSE]
NoReceipt == MaxDamage + 1
Unverified == MaxDamage + 2
Stages   == {"create", "write", "sync", "name", "verify", "rename", "dirsync", "readback"}
Jobs     == {"initial", "capture", "precheck", "events", "metadata", "manifest", "reverify",
             "marker", "end"}
Publications == {"initial", "events", "metadata", "manifest", "marker"}

Init ==
  /\ contract \in {"default", "trace_v1"}
  /\ job = "initial" /\ stage = "create" /\ staging = "none"
  /\ readBack = [l \in Leaves |-> "none"]
  /\ receipt = NoReceipt /\ outcome = "active" /\ error = NoError
  /\ leaf = [l \in Leaves |-> "absent"] /\ marker = NoMarker
  /\ temp = FALSE /\ raw = 0 /\ damages = 0
  /\ rpc = "idle" /\ rmarker = NoMarker /\ rstatus = "none" /\ rraw = "none"
  /\ got = [metadata |-> "none", events |-> "none"]
  /\ replaced = FALSE

-----------------------------------------------------------------------------
(* Atomic replacement: begin_atomic_replace ... publish_inner *)

Destination == IF job = "initial" THEN "metadata" ELSE job
Content     == IF job = "initial" THEN "running" ELSE "final"

(* Variant: the trace-v1 manifest is never published. *)
SuccessorWithoutManifest ==
  CASE job = "initial"  -> "capture"
    [] job = "events"   -> "metadata"
    [] job = "metadata" -> "marker"
    [] OTHER -> "end"

(* Variant: the marker overtakes the final metadata. *)
SuccessorMarkerEarly ==
  CASE job = "initial"  -> "capture"
    [] job = "events"   -> "marker"
    [] job = "marker"   -> "metadata"
    [] OTHER -> "end"

(* finish publishes events, metadata, the trace-v1 manifest, then the marker. *)
Successor ==
  CASE job = "initial"  -> "capture"
    [] job = "events"   -> "metadata"
    [] job = "metadata" -> IF contract = "trace_v1" THEN "manifest" ELSE "marker"
    [] job = "manifest" -> "reverify"
    [] OTHER -> "end"

At(s) == outcome = "active" /\ job \in Publications /\ stage = s

Advance(s) ==
  /\ stage' = s
  /\ UNCHANGED <<contract, job, readBack, receipt, outcome, error, replaced, leaf, marker, raw,
                 damages, readerVars>>

(* The current publication is complete. *)
NextJob ==
  /\ job' = Successor
  /\ stage' = "create"
  /\ replaced' = FALSE
  /\ outcome' = IF Successor = "end" THEN "committed" ELSE outcome

(* create_staging: an O_TMPFILE inode, or a named one where unsupported. *)
CreateStaging ==
  /\ At("create")
  /\ staging' \in {"anonymous", "named"}
  /\ temp' = (staging' = "named")
  /\ Advance("write")

WriteStaging ==
  /\ At("write")
  /\ UNCHANGED <<staging, temp>>
  /\ Advance("sync")

SyncStaging ==
  /\ At("sync")
  /\ UNCHANGED <<staging, temp>>
  /\ Advance("name")

(* link_anonymous_staging, or copy_anonymous_to_named where linking is
   unsupported: either way the staging file now has a name. *)
NameStaging ==
  /\ At("name")
  /\ staging' = "named" /\ temp' = TRUE
  /\ Advance("verify")

VerifyStaging ==
  /\ At("verify")
  /\ temp
  /\ UNCHANGED <<staging, temp>>
  /\ Advance("rename")

(* rename is the visibility boundary; the temporary name is consumed by it. *)
Rename ==
  /\ At("rename")
  /\ IF job = "marker"
       THEN marker' = readBack /\ leaf' = leaf
       ELSE leaf' = [leaf EXCEPT ![Destination] = Content] /\ marker' = marker
  /\ temp' = FALSE /\ staging' = "none" /\ replaced' = TRUE
  /\ stage' = "dirsync"
  /\ UNCHANGED <<contract, job, readBack, receipt, outcome, error, raw, damages, readerVars>>

(* Initial metadata and the marker are not read back. *)
SyncDirectory ==
  /\ At("dirsync")
  /\ IF job \in {"initial", "marker"}
       THEN NextJob
       ELSE stage' = "readback" /\ UNCHANGED <<job, replaced, outcome>>
  /\ UNCHANGED <<contract, staging, readBack, receipt, error, dirVars, readerVars>>

(* read_back_exact and read_back_published_events *)
ReadBack ==
  /\ At("readback")
  /\ leaf[job] = "final"
  /\ readBack' = [readBack EXCEPT ![job] = leaf[job]]
  /\ NextJob
  /\ UNCHANGED <<contract, staging, receipt, error, dirVars, readerVars>>

-----------------------------------------------------------------------------
(* Failure of a step, and the crash of the process *)

(* Variant: a failed directory sync counts as not published. *)
FailureStageEarly == IF stage = "readback" THEN "Durable" ELSE "BeforePublish"

(* CommitStage reported for a failure in each step. *)
FailureStage ==
  CASE stage = "readback" -> "Durable"
    [] stage = "dirsync"  -> "PublishedDurabilityUnknown"
    [] OTHER -> "BeforePublish"

(* abort_commit then Drop: unlink the temporary name if there is one.  A failed
   attempt is reported; Drop's later retry may still succeed. *)
Cleanups ==
  IF temp THEN {<<FALSE, FALSE>>, <<FALSE, TRUE>>, <<TRUE, TRUE>>} ELSE {<<FALSE, FALSE>>}

StepFails ==
  /\ outcome = "active" /\ job \in Publications
  /\ outcome' = "failed"
  /\ \E end \in Cleanups :
       /\ temp' = end[1]
       /\ error' = [stage |-> FailureStage, cleanup |-> end[2]]
  /\ UNCHANGED <<contract, job, stage, staging, readBack, receipt, replaced, leaf, marker, raw,
                 damages, readerVars>>

(* copy_anonymous_to_named fails after creating its own named staging file. *)
FallbackCopyFails ==
  /\ At("name") /\ staging = "anonymous"
  /\ outcome' = "failed"
  /\ \E end \in {<<FALSE, TRUE>>, <<TRUE, TRUE>>} :
       /\ temp' = end[1]
       /\ error' = [stage |-> FailureStage, cleanup |-> end[2]]
  /\ UNCHANGED <<contract, job, stage, staging, readBack, receipt, replaced, leaf, marker, raw,
                 damages, readerVars>>

Crash ==
  /\ outcome = "active"
  /\ outcome' = "crashed"
  /\ UNCHANGED <<contract, job, stage, staging, readBack, receipt, error, replaced, dirVars,
                 readerVars>>

-----------------------------------------------------------------------------
(* Between the publications *)

Goto(j) ==
  /\ job' = j
  /\ UNCHANGED <<contract, stage, staging, readBack, outcome, error, replaced, dirVars,
                 readerVars>>

Fails ==
  /\ outcome' = "failed"
  /\ UNCHANGED <<contract, job, stage, staging, readBack, receipt, error, replaced, dirVars,
                 readerVars>>

(* for_each_trace_line reached EOF, stopped with an error, or was suppressed. *)
Traverse ==
  /\ outcome = "active" /\ job = "capture"
  /\ receipt' \in IF contract = "trace_v1" THEN {raw, Unverified, NoReceipt} ELSE {NoReceipt}
  /\ Goto("precheck")

(* verify_raw_receipt_at: a Parsed receipt must match the stored trace. *)
RawMatches == receipt \in {NoReceipt, Unverified} \/ receipt = raw

(* RunWriter::finish up to the first publication. *)
Precheck ==
  /\ outcome = "active" /\ job = "precheck"
  /\ RawMatches
  /\ receipt' = receipt
  /\ Goto("events")

(* The raw bytes are verified once more before the marker. *)
Reverify ==
  /\ outcome = "active" /\ job = "reverify"
  /\ RawMatches
  /\ receipt' = receipt
  /\ Goto("marker")

CheckFails ==
  /\ outcome = "active" /\ job \in {"capture", "precheck", "reverify"}
  /\ Fails

(* Something other than this writer alters stored bytes in place. *)
Damage ==
  /\ damages < MaxDamage
  /\ damages' = damages + 1
  /\ \/ /\ \E l \in Leaves : leaf[l] # "absent" /\ leaf' = [leaf EXCEPT ![l] = "damaged"]
        /\ raw' = raw
     \/ raw' = raw + 1 /\ leaf' = leaf
  /\ UNCHANGED <<contract, writerVars, marker, temp, readerVars>>

-----------------------------------------------------------------------------
(* read_record_at *)

ReaderAt(p) == rpc = p /\ UNCHANGED <<contract, writerVars, dirVars>>

Finish(status) == rpc' = "idle" /\ rstatus' = status

(* finalized.json is read first and decides the branch. *)
ReadMarker ==
  /\ ReaderAt("idle")
  /\ rmarker' = marker
  /\ rpc' = IF marker = NoMarker THEN "unmarked" ELSE "metadata"
  /\ rstatus' = "none" /\ rraw' = "none"
  /\ got' = [metadata |-> "none", events |-> "none"]

(* Without a marker a current record shows its metadata and no events.  Altered
   metadata may fail to decode or may still decode. *)
UnmarkedStatus ==
  CASE leaf["metadata"] = "absent"  -> {"unavailable"}
    [] leaf["metadata"] = "damaged" -> {"corrupt", "unfinalized"}
    [] OTHER -> {"unfinalized"}

ReadUnmarked ==
  /\ ReaderAt("unmarked")
  /\ got' = [got EXCEPT !.metadata = leaf["metadata"]]
  /\ \E status \in UnmarkedStatus : Finish(status)
  /\ UNCHANGED <<rmarker, rraw>>

(* verified_file_check of one bound leaf. *)
CheckBound(p, l, next) ==
  /\ ReaderAt(p)
  /\ IF leaf[l] = rmarker[l] THEN rpc' = next /\ rstatus' = rstatus ELSE Finish("corrupt")
  /\ UNCHANGED <<rmarker, rraw, got>>

CheckMetadata == CheckBound("metadata", "metadata", "events")
CheckEvents ==
  CheckBound("events", "events", IF rmarker["manifest"] = "none" THEN "decode" ELSE "manifest")
CheckManifest == CheckBound("manifest", "manifest", "decode")

(* Variant: the earlier check of the bytes is trusted. *)
DecodeUnchecked ==
  /\ ReaderAt("decode")
  /\ got' = [got EXCEPT !.metadata = leaf["metadata"]]
  /\ rpc' = "stream" /\ rstatus' = rstatus
  /\ UNCHANGED <<rmarker, rraw>>

(* Metadata bytes are verified again before they are decoded. *)
DecodeMetadata ==
  /\ ReaderAt("decode")
  /\ IF leaf["metadata"] = rmarker["metadata"]
       THEN /\ got' = [got EXCEPT !.metadata = leaf["metadata"]]
            /\ rpc' = "stream" /\ rstatus' = rstatus
       ELSE got' = got /\ Finish("corrupt")
  /\ UNCHANGED <<rmarker, rraw>>

(* stream_events is verified again; then the raw receipt is classified. *)
RawStatus ==
  CASE rmarker["manifest"] = "none" -> "none"
    [] receipt \in {NoReceipt, Unverified} -> "unverified"
    [] receipt = raw -> "verified"
    [] OTHER -> "corrupt"

StreamEvents ==
  /\ ReaderAt("stream")
  /\ IF leaf["events"] = rmarker["events"]
       THEN /\ got' = [got EXCEPT !.events = leaf["events"]]
            /\ rraw' = RawStatus
            /\ Finish("verified")
       ELSE UNCHANGED <<got, rraw>> /\ Finish("corrupt")
  /\ UNCHANGED rmarker

ReadFails ==
  /\ rpc # "idle"
  /\ Finish("io_error")
  /\ UNCHANGED <<contract, writerVars, dirVars, rmarker, rraw, got>>

-----------------------------------------------------------------------------
Writer ==
  \/ CreateStaging \/ WriteStaging \/ SyncStaging \/ NameStaging \/ VerifyStaging
  \/ Rename \/ SyncDirectory \/ ReadBack
  \/ StepFails \/ FallbackCopyFails \/ Crash
  \/ Traverse \/ Precheck \/ Reverify \/ CheckFails

Reader ==
  \/ ReadMarker \/ ReadUnmarked \/ CheckMetadata \/ CheckEvents \/ CheckManifest
  \/ DecodeMetadata \/ StreamEvents \/ ReadFails

Next == Writer \/ Reader \/ Damage

Spec == Init /\ [][Next]_vars

-----------------------------------------------------------------------------
(* Properties *)

(* The marker binds only final bytes that were read back, of every file of its
   contract: it is never published over running metadata or missing events. *)
MarkerBindsFinal ==
  marker # NoMarker =>
    /\ marker["events"] = "final" /\ marker["metadata"] = "final"
    /\ marker["manifest"] = IF contract = "trace_v1" THEN "final" ELSE "none"

(* A reader that takes no lock reports "verified" only for metadata and events
   that are both the final bytes, whatever the writer is doing meanwhile. *)
VerifiedIsFinal ==
  rstatus = "verified" => got.metadata = "final" /\ got.events = "final"

(* Racing a writer, or reading what a crash left, never looks like corruption:
   that verdict needs bytes altered by somebody else. *)
CorruptMeansDamaged == rstatus = "corrupt" \/ rraw = "corrupt" => damages > 0

(* What finish returns is true of the directory: the commit stage in an error
   tells whether the destination was replaced, a staging name outlives the error
   only if it says so, and a committed record is marked over its own bytes. *)
OutcomeTruthful ==
  /\ outcome = "failed" =>
       /\ job \in Publications => (error.stage = "BeforePublish" <=> ~replaced)
       /\ temp => error.cleanup
  /\ outcome = "committed" =>
       /\ ~temp /\ marker # NoMarker
       /\ damages = 0 => \A l \in Leaves : marker[l] # "none" => leaf[l] = marker[l]

=============================================================================

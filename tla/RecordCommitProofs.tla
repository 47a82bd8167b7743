-------------------------- MODULE RecordCommitProofs --------------------------
(***************************************************************************)
(* Proofs about RecordCommit, for both recording contracts, failures and   *)
(* crashes anywhere and any number of outside alterations.                 *)
(*                                                                         *)
(* The inductive invariant says how far the writer is by its publication   *)
(* and step (Staged, Checked), that a visible marker is exactly what was   *)
(* read back (Marked), what a failure left (Reported), and what a reader   *)
(* already knows at each of its steps (Reading).                           *)
(***************************************************************************)
EXTENDS RecordCommit, TLAPS

Checks == [Leaves -> {"none", "final"}]

(* Type correctness of the writer, the record directory and the reader. *)
CommitTypeOK ==
  /\ contract \in {"default", "trace_v1"}
  /\ job \in Jobs /\ stage \in Stages /\ staging \in {"none", "anonymous", "named"}
  /\ readBack \in Checks /\ marker \in Checks /\ rmarker \in Checks
  /\ outcome \in {"active", "committed", "failed", "crashed"}
  /\ leaf \in [Leaves -> Contents]
  /\ temp \in BOOLEAN /\ replaced \in BOOLEAN /\ damages \in 0 .. MaxDamage
  /\ error \in [stage : {"none", "BeforePublish", "PublishedDurabilityUnknown", "Durable"},
                cleanup : BOOLEAN]
  /\ rpc \in {"idle", "unmarked", "metadata", "events", "manifest", "decode", "stream"}
  /\ rstatus \in {"none", "unavailable", "corrupt", "unfinalized", "verified", "io_error"}
  /\ got \in [metadata : Contents \cup {"none"}, events : Contents \cup {"none"}]

(* A replacement is visible from its rename on; a staging name exists while the
   active writer's StagedFile says so, and never between two publications. *)
Staged ==
  /\ replaced <=> stage \in {"dirsync", "readback"}
  /\ job \notin Publications => stage = "create"
  /\ stage = "readback" => job \in Leaves
  /\ outcome \in {"active", "committed"} =>
       /\ temp <=> staging = "named"
       /\ stage \in {"create", "dirsync", "readback"} => staging = "none"

(* Which leaves were read back at each publication. *)
Checked ==
  /\ readBack["events"] = IF job \in {"metadata", "manifest", "reverify", "marker", "end"}
                          THEN "final" ELSE "none"
  /\ readBack["metadata"] = IF job \in {"manifest", "reverify", "marker", "end"}
                            THEN "final" ELSE "none"
  /\ readBack["manifest"] = IF job = "reverify" \/ (job \in {"marker", "end"} /\ contract = "trace_v1")
                            THEN "final" ELSE "none"
  /\ job \in {"manifest", "reverify"} => contract = "trace_v1"

(* Without outside alterations, stored bytes are what the writer last put there,
   and the trace is the one its traversal froze. *)
Intact ==
  damages = 0 =>
    /\ \A l \in Leaves : leaf[l] # "damaged" /\ (readBack[l] # "none" => leaf[l] = readBack[l])
    /\ receipt \in {NoReceipt, Unverified, raw}

(* The marker becomes visible last, over exactly what was read back. *)
Marked ==
  /\ marker # NoMarker => job \in {"marker", "end"} /\ marker = readBack
  /\ job = "end" \/ (job = "marker" /\ stage = "dirsync") => marker = readBack
  /\ job = "marker" /\ stage # "dirsync" => marker = NoMarker
  /\ outcome = "committed" <=> job = "end"

(* A failure that left a staging name or a visible replacement says so. *)
Reported ==
  outcome = "failed" =>
    /\ job \in Publications => (error.stage = "BeforePublish" <=> ~replaced)
    /\ temp => error.cleanup

(* The reader works from the marker it read, which nobody changes any more. *)
Reading ==
  /\ rmarker # NoMarker => rmarker = marker
  /\ rpc \in {"metadata", "events", "manifest", "decode", "stream"} => rmarker # NoMarker
  /\ rpc = "manifest" => rmarker["manifest"] # "none"
  /\ rpc = "stream" => got.metadata = "final"
  /\ rpc # "idle" => rstatus = "none"

CommitInv ==
  CommitTypeOK /\ Staged /\ Checked /\ Intact /\ Marked /\ Reported /\ Reading
  /\ VerifiedIsFinal /\ CorruptMeansDamaged

USE MaxDamageAssumption
    DEF writerVars, dirVars, readerVars, Leaves, Publications, NoMarker

-----------------------------------------------------------------------------
(* A visible marker binds final bytes only, of every file of its contract. *)
LEMMA BoundIsFinal == ASSUME CommitInv PROVE MarkerBindsFinal
BY DEF CommitInv, CommitTypeOK, Checks, Checked, Marked, MarkerBindsFinal

(* The directory starts empty, the writer before its first publication. *)
LEMMA CommitInvInit == Init => CommitInv
<1> SUFFICES ASSUME Init PROVE CommitInv
  OBVIOUS
<1>1. temp \in BOOLEAN /\ replaced \in BOOLEAN /\ error.cleanup \in BOOLEAN
  BY DEF Init, NoError
<1>2. CommitTypeOK
  BY <1>1 DEF Init, CommitTypeOK, Jobs, Stages, Contents, Checks, NoError
<1>3. Staged /\ Checked /\ Marked
  BY DEF Init, Staged, Checked, Marked
<1>4. Intact /\ Reported /\ Reading /\ VerifiedIsFinal /\ CorruptMeansDamaged
  BY DEF Init, Intact, Reported, Reading, VerifiedIsFinal, CorruptMeansDamaged
<1> QED
  BY <1>2, <1>3, <1>4 DEF CommitInv

-----------------------------------------------------------------------------
(* The steps of one atomic replacement that nobody else can see. *)
LEMMA StagingKeeps ==
  ASSUME CommitInv, CreateStaging \/ WriteStaging \/ SyncStaging \/ NameStaging \/ VerifyStaging
  PROVE  CommitInv'
<1> USE DEF CommitInv, CommitTypeOK, Staged, Checked, Intact, Marked, Reported, Reading,
            VerifiedIsFinal, CorruptMeansDamaged, At, Advance, Stages
<1>1. CASE CreateStaging
  <2>1. temp' \in BOOLEAN /\ (temp' <=> staging' = "named")
    BY <1>1 DEF CreateStaging
  <2>2. staging' \in {"anonymous", "named"} /\ At("create") /\ Advance("write")
    BY <1>1 DEF CreateStaging
  <2> QED
    BY <2>1, <2>2
<1>2. CASE WriteStaging
  BY <1>2 DEF WriteStaging
<1>3. CASE SyncStaging
  BY <1>3 DEF SyncStaging
<1>4. CASE NameStaging
  BY <1>4 DEF NameStaging
<1>5. CASE VerifyStaging
  BY <1>5 DEF VerifyStaging
<1> QED
  BY <1>1, <1>2, <1>3, <1>4, <1>5

(* rename makes a leaf, or the marker, visible. *)
LEMMA RenameKeeps == ASSUME CommitInv, Rename PROVE CommitInv'
<1> USE DEF CommitInv, At, Rename
<1>1. CommitTypeOK'
  <2>1. temp' \in BOOLEAN /\ replaced' \in BOOLEAN
    OBVIOUS
  <2>2. leaf' \in [Leaves -> Contents] /\ marker' \in Checks
    BY DEF CommitTypeOK, Jobs, Checks, Contents, Destination, Content
  <2> QED
    BY <2>1, <2>2 DEF CommitTypeOK, Stages
<1>2. Staged' /\ Checked' /\ Reported'
  BY DEF CommitTypeOK, Staged, Checked, Reported
<1>3. Intact'
  BY DEF CommitTypeOK, Jobs, Checks, Intact, Checked, Destination, Content
<1>4. Marked'
  BY DEF CommitTypeOK, Checks, Marked, Checked
<1>5. Reading'
  BY DEF CommitTypeOK, Checks, Marked, Checked, Reading
<1>6. VerifiedIsFinal' /\ CorruptMeansDamaged'
  BY DEF VerifiedIsFinal, CorruptMeansDamaged
<1> QED
  BY <1>1, <1>2, <1>3, <1>4, <1>5, <1>6

(* The directory sync and the read-back finish a publication. *)
LEMMA PublishKeeps == ASSUME CommitInv, SyncDirectory \/ ReadBack PROVE CommitInv'
<1> USE DEF CommitInv, At
<1>1. CASE SyncDirectory
  <2> USE <1>1 DEF SyncDirectory, NextJob, Successor
  <2>1. CommitTypeOK'
    <3>1. replaced' \in BOOLEAN
      BY DEF CommitTypeOK
    <3>2. job' \in Jobs /\ stage' \in Stages
      BY DEF CommitTypeOK, Jobs, Stages
    <3>3. outcome' \in {"active", "committed"}
      OBVIOUS
    <3> QED
      BY <3>1, <3>2, <3>3 DEF CommitTypeOK
  <2>2. Staged' /\ Reported'
    BY DEF CommitTypeOK, Stages, Jobs, Staged, Reported
  <2>3. Checked' /\ Marked'
    BY DEF CommitTypeOK, Jobs, Staged, Checked, Marked
  <2>4. Intact' /\ Reading' /\ VerifiedIsFinal' /\ CorruptMeansDamaged'
    BY DEF Intact, Reading, VerifiedIsFinal, CorruptMeansDamaged
  <2> QED
    BY <2>1, <2>2, <2>3, <2>4
<1>2. CASE ReadBack
  <2> USE <1>2 DEF ReadBack, NextJob, Successor
  <2>1. CommitTypeOK'
    <3>1. replaced' \in BOOLEAN
      OBVIOUS
    <3>2. job' \in Jobs /\ stage' \in Stages
      BY DEF CommitTypeOK, Jobs, Stages
    <3>3. outcome' \in {"active", "committed"} /\ readBack' \in Checks
      BY DEF CommitTypeOK, Checks
    <3> QED
      BY <3>1, <3>2, <3>3 DEF CommitTypeOK
  <2>2. Staged' /\ Reported'
    BY DEF CommitTypeOK, Stages, Jobs, Staged, Reported
  <2>3. Checked' /\ Marked'
    BY DEF CommitTypeOK, Jobs, Checks, Staged, Checked, Marked
  <2>4. Intact' /\ Reading' /\ VerifiedIsFinal' /\ CorruptMeansDamaged'
    BY DEF CommitTypeOK, Jobs, Checks, Staged, Checked, Intact, Reading, VerifiedIsFinal, CorruptMeansDamaged
  <2> QED
    BY <2>1, <2>2, <2>3, <2>4
<1> QED
  BY <1>1, <1>2

(* A failed step or a crash leaves the directory as it is, but for the clean-up
   of the staging name. *)
LEMMA FailureKeeps ==
  ASSUME CommitInv, StepFails \/ FallbackCopyFails \/ CheckFails \/ Crash
  PROVE  CommitInv'
<1> USE DEF CommitInv, CommitTypeOK, Staged, Checked, Intact, Marked, Reported, Reading,
            VerifiedIsFinal, CorruptMeansDamaged, At
<1>1. CASE StepFails
  <2>1. FailureStage = "BeforePublish" <=> ~replaced
    BY DEF FailureStage, Stages
  <2>2. PICK end \in Cleanups : temp' = end[1] /\ error' = [stage |-> FailureStage, cleanup |-> end[2]]
    BY <1>1 DEF StepFails
  <2>3. end[1] \in BOOLEAN /\ end[2] \in BOOLEAN /\ (end[1] => end[2])
    <3>1. CASE end = <<FALSE, FALSE>>
      BY <3>1
    <3>2. CASE end = <<FALSE, TRUE>>
      BY <3>2
    <3>3. CASE end = <<TRUE, TRUE>>
      BY <3>3
    <3> QED
      BY <3>1, <3>2, <3>3 DEF Cleanups
  <2>4. CommitTypeOK'
    BY <1>1, <2>2, <2>3 DEF StepFails, FailureStage
  <2>5. Reported'
    BY <1>1, <2>1, <2>2, <2>3 DEF StepFails
  <2> QED
    BY <1>1, <2>4, <2>5 DEF StepFails
<1>2. CASE FallbackCopyFails
  <2>1. PICK end \in {<<FALSE, TRUE>>, <<TRUE, TRUE>>} :
             temp' = end[1] /\ error' = [stage |-> FailureStage, cleanup |-> end[2]]
    BY <1>2 DEF FallbackCopyFails
  <2>2. end[1] \in BOOLEAN /\ end[2] \in BOOLEAN /\ end[2]
    <3>1. CASE end = <<FALSE, TRUE>>
      BY <3>1
    <3>2. CASE end = <<TRUE, TRUE>>
      BY <3>2
    <3> QED
      BY <3>1, <3>2
  <2>3. FailureStage = "BeforePublish"
    BY <1>2 DEF FallbackCopyFails, FailureStage
  <2>4. CommitTypeOK'
    BY <1>2, <2>1, <2>2, <2>3 DEF FallbackCopyFails
  <2>5. Reported'
    BY <1>2, <2>1, <2>2, <2>3 DEF FallbackCopyFails
  <2> QED
    BY <1>2, <2>4, <2>5 DEF FallbackCopyFails
<1>3. CASE CheckFails
  BY <1>3 DEF CheckFails, Fails
<1>4. CASE Crash
  BY <1>4 DEF Crash
<1> QED
  BY <1>1, <1>2, <1>3, <1>4

(* The traversal of the trace and the checks of its bytes change no file. *)
LEMMA BetweenKeeps == ASSUME CommitInv, Traverse \/ Precheck \/ Reverify PROVE CommitInv'
<1> USE DEF CommitInv, CommitTypeOK, Staged, Checked, Intact, Marked, Reported, Reading,
            VerifiedIsFinal, CorruptMeansDamaged, Goto, Jobs
<1>1. CASE Traverse
  BY <1>1 DEF Traverse
<1>2. CASE Precheck
  BY <1>2 DEF Precheck
<1>3. CASE Reverify
  BY <1>3 DEF Reverify
<1> QED
  BY <1>1, <1>2, <1>3

(* After an alteration from outside nothing more is claimed about bytes. *)
LEMMA DamageKeeps == ASSUME CommitInv, Damage PROVE CommitInv'
BY DEF CommitInv, CommitTypeOK, Staged, Checked, Intact, Marked, Reported, Reading,
       VerifiedIsFinal, CorruptMeansDamaged, Damage, Contents

-----------------------------------------------------------------------------
(* A reader that found a marker: the leaf it checks is the bound one unless it was
   altered from outside. *)
LEMMA BoundUnlessDamaged ==
  ASSUME CommitInv, NEW l \in Leaves, rmarker # NoMarker, rmarker[l] # "none", damages = 0
  PROVE  leaf[l] = rmarker[l]
BY DEF CommitInv, CommitTypeOK, Checks, Intact, Marked, Reading

(* Every step of read_record_at keeps what the reader knows true. *)
LEMMA ReaderKeeps == ASSUME CommitInv, Reader PROVE CommitInv'
<1>1. UNCHANGED <<contract, writerVars, dirVars>>
  BY DEF Reader, ReadMarker, ReadUnmarked, CheckMetadata, CheckEvents, CheckManifest, CheckBound,
         DecodeMetadata, StreamEvents, ReadFails, ReaderAt
<1>2. Staged' /\ Checked' /\ Intact' /\ Marked' /\ Reported'
  BY <1>1 DEF CommitInv, Staged, Checked, Intact, Marked, Reported, Destination
<1>3. MarkerBindsFinal
  BY BoundIsFinal
<1> USE DEF CommitInv, Finish, ReaderAt
<1>4. CommitTypeOK' /\ Reading' /\ VerifiedIsFinal' /\ CorruptMeansDamaged'
  <2> USE <1>1 DEF CommitTypeOK, Reading, VerifiedIsFinal, CorruptMeansDamaged, Checks, Contents
  <2>1. CASE ReadMarker
    BY <2>1 DEF ReadMarker
  <2>2. CASE ReadUnmarked
    BY <2>2 DEF ReadUnmarked, UnmarkedStatus, Intact
  <2>3. CASE CheckMetadata
    BY <1>3, <2>3, BoundUnlessDamaged DEF CheckMetadata, CheckBound, MarkerBindsFinal
  <2>4. CASE CheckEvents
    BY <1>3, <2>4, BoundUnlessDamaged DEF CheckEvents, CheckBound, MarkerBindsFinal
  <2>5. CASE CheckManifest
    BY <1>3, <2>5, BoundUnlessDamaged DEF CheckManifest, CheckBound, MarkerBindsFinal
  <2>6. CASE DecodeMetadata
    BY <1>3, <2>6, BoundUnlessDamaged DEF DecodeMetadata, MarkerBindsFinal
  <2>7. CASE StreamEvents
    BY <1>3, <2>7, BoundUnlessDamaged DEF StreamEvents, MarkerBindsFinal, RawStatus, Intact
  <2>8. CASE ReadFails
    BY <2>8 DEF ReadFails
  <2> QED
    BY <2>1, <2>2, <2>3, <2>4, <2>5, <2>6, <2>7, <2>8 DEF Reader
<1> QED
  BY <1>2, <1>4

-----------------------------------------------------------------------------
(* Every step of the writer, the reader or an outsider keeps the invariant. *)
LEMMA CommitStep == CommitInv /\ [Next]_vars => CommitInv'
<1> SUFFICES ASSUME CommitInv, [Next]_vars PROVE CommitInv'
  OBVIOUS
<1>1. CASE UNCHANGED vars
  BY <1>1 DEF vars, CommitInv, CommitTypeOK, Staged, Checked, Intact, Marked, Reported, Reading,
              VerifiedIsFinal, CorruptMeansDamaged
<1> QED
  BY <1>1, StagingKeeps, RenameKeeps, PublishKeeps, FailureKeeps, BetweenKeeps, DamageKeeps,
     ReaderKeeps
     DEF Next, Writer

(* The invariant holds in every reachable state of the record. *)
THEOREM CommitInvariant == Spec => []CommitInv
BY CommitInvInit, CommitStep, PTL DEF Spec

-----------------------------------------------------------------------------
(* Theorems *)

(* finalized.json is never published over anything but final, read-back bytes of
   every file of its contract, wherever finish fails or crashes. *)
THEOREM MarkerIsSound == Spec => []MarkerBindsFinal
<1>1. CommitInv => MarkerBindsFinal
  BY BoundIsFinal
<1> QED
  BY <1>1, CommitInvariant, PTL

(* read_record_at, which takes no lock, reports a record as verified only for the
   final metadata and events, whatever the writer does meanwhile. *)
THEOREM VerifiedReadsAreFinal == Spec => []VerifiedIsFinal
<1>1. CommitInv => VerifiedIsFinal
  BY DEF CommitInv
<1> QED
  BY <1>1, CommitInvariant, PTL

(* Neither racing the writer nor reading what a crash left is ever reported as
   corruption. *)
THEOREM CorruptionIsReal == Spec => []CorruptMeansDamaged
<1>1. CommitInv => CorruptMeansDamaged
  BY DEF CommitInv
<1> QED
  BY <1>1, CommitInvariant, PTL

(* The CommitStage and clean-up part of an error are true of the directory, and a
   commit left a marker over its own bytes and no staging name. *)
THEOREM OutcomesAreTruthful == Spec => []OutcomeTruthful
<1>1. CommitInv => OutcomeTruthful
  BY DEF CommitInv, CommitTypeOK, Checks, Staged, Checked, Intact, Marked, Reported, OutcomeTruthful
<1> QED
  BY <1>1, CommitInvariant, PTL

=============================================================================

---------------------------- MODULE RunComparison ----------------------------
(***************************************************************************)
(* The comparison of two loaded runs and its status, from evaluate_report, *)
(* compare_version and their helpers in src/diff/mod.rs: 0 is trusted      *)
(* equality, 1 a trusted difference, 2 an error, 3 untrusted evidence.     *)
(*                                                                         *)
(* An observation key stands for a family, an operation and a path, in     *)
(* their lexical order; an event is a key (0 for families that are not     *)
(* compared) and an outcome, and its index is its evidence coordinate.     *)
(***************************************************************************)
EXTENDS RunContract, FiniteSets, SequencesExt, Functions

CONSTANTS
  Cases,       \* inputs compared with each other, without their events, each
               \* with its report formats and a bound on the events of one run
  ExecKeys, FileKeys, \* observation keys, ordered as numbers
  RootKey,     \* the key of the target's own exec
  Outcomes,    \* outcome spellings, ordered as numbers; Success is one of them
  Success,
  EvidenceSampleLimit

ASSUME ComparisonAssumption ==
  /\ ExecKeys \cup FileKeys \subseteq Nat \ {0} /\ ExecKeys \cap FileKeys = {} /\ RootKey \in ExecKeys
  /\ Outcomes \subseteq Nat /\ Success \in Outcomes
  /\ \A case \in Cases : /\ case.formats \subseteq {"Automatic", "TraceV5", "OutcomeV6"}
                         /\ case.maxEvents \in Nat
                         /\ \A input \in case.inputs : "events" \in DOMAIN input
  /\ EvidenceSampleLimit \in Nat

VARIABLES
  left, right,  \* the inputs
  format,       \* ReportFormat
  at,           \* next step of the comparison
  leftKeys, rightKeys, \* keys of the aggregates not merged yet
  report        \* Report

comparisonVars == <<left, right, format, at, leftKeys, rightKeys, report>>

Keys == ExecKeys \cup FileKeys
Events == [key : Keys, outcome : Outcomes]
RootRow == [key |-> RootKey, outcome |-> Success]
ExitRow == [key |-> 0, outcome |-> Success]
NoQuality == [capture |-> "unknown", storage |-> "unavailable", raw |-> "none", provenance |-> "none"]
NoReport == [left |-> NoQuality, right |-> NoQuality, exit |-> 3, observed |-> "none",
             changes |-> <<>>, warned |-> {}]

(* An input with its events: the given ones, between the target's exec and  *)
(* exit if the target is known to have ended.  The counts in metadata and   *)
(* receipt are those of the saved events, also where the loader withholds   *)
(* them.                                                                    *)
WithEvents(input, events) ==
  LET saved == IF input.meta.raw = NoExit THEN events ELSE <<RootRow>> \o events \o <<ExitRow>>
      count == IF input.meta.state = "running" THEN 0 ELSE Len(saved)
  IN [input EXCEPT !.events = IF input.withheld THEN <<>> ELSE saved,
                   !.meta.events = count, !.meta.lines = count,
                   !.receipt = IF @.kind = "Parsed" THEN ParsedReceipt(count, count) ELSE @]

Loads(case) ==
  {WithEvents(input, events) : input \in case.inputs, events \in BoundedSeq(Events, case.maxEvents)}

ComparisonInit ==
  /\ \E case \in Cases : left \in Loads(case) /\ right \in Loads(case) /\ format \in case.formats
  /\ at = "check" /\ leftKeys = <<>> /\ rightKeys = <<>> /\ report = NoReport

-----------------------------------------------------------------------------
(* Reliability *)

Loaded(run) == run.load = "Loaded"
IsNew(run) == Loaded(run) /\ run.meta.schema = 4
TraceReport == format # "Automatic" \/ IsNew(left) \/ IsNew(right)
OutcomeReport == format = "OutcomeV6"

CheckedRun(run) == Loaded(run) /\ ValidateComparisonRun(run)
RawFailed(run) == Loaded(run) /\ run.raw \in {"corrupt", "unavailable"}

(* Quality::of *)
Capture(run) ==
  CASE run.storage = "unfinalized" -> "unknown"
    [] run.storage # "unfinalized" /\ run.meta.completeness = "none" -> "unknown"
    [] run.storage # "unfinalized" /\ run.meta.completeness # "none" ->
         IF run.meta.state = "completed" /\ run.meta.completeness = "complete"
         THEN "complete" ELSE "incomplete"

(* apply_trace_report: what a new record's components say, if it is usable. *)
RawOf(run) == IF CheckedRun(run) /\ IsNew(run) THEN run.raw ELSE "unverified"
ProvenanceOf(run) ==
  IF ~CheckedRun(run) \/ ~IsNew(run) \/ run.storage = "unfinalized" THEN "unverified"
  ELSE IF run.meta.provenance THEN "verified" ELSE "missing"

Quality(run) ==
  [capture |-> IF CheckedRun(run) THEN Capture(run) ELSE "unknown",
   storage |-> IF CheckedRun(run) THEN run.storage
               ELSE IF run.load = "Corrupt" \/ (Loaded(run) /\ run.storage \notin {"unsupported", "unavailable"})
                    THEN "corrupt" ELSE "unavailable",
   raw |-> IF TraceReport THEN RawOf(run) ELSE "none",
   provenance |-> IF TraceReport THEN ProvenanceOf(run) ELSE "none"]

(* Variant: a missing component is no obstacle. *)
TrustedStructured(quality) == quality.capture = "complete" /\ quality.storage = "verified"

Trusted(quality) ==
  /\ quality.capture = "complete" /\ quality.storage = "verified"
  /\ quality.raw \in {"none", "verified"} /\ quality.provenance \in {"none", "verified"}

-----------------------------------------------------------------------------
(* Evidence of changes *)

(* A finite set in the order where before[x] are the elements before x. *)
InOrder(set, before) ==
  [n \in 1 .. Cardinality(set) |-> CHOOSE x \in set : Cardinality(before[x]) = n - 1]
Sorted(set) == InOrder(set, [x \in set |-> {y \in set : y < x}])

(* The indices of the events of one key and outcome, in their order. *)
Occurrences(run, k, o) ==
  Sorted({i \in DOMAIN run.events : run.events[i].key = k /\ run.events[i].outcome = o})

(* Variant: everything loaded is admitted. *)
AggregateAll(run) ==
  LET indices == {i \in DOMAIN run.events : run.events[i].key # 0}
  IN [k \in {run.events[i].key : i \in indices} |->
       [o \in {run.events[i].outcome : i \in {j \in indices : run.events[j].key = k}} |->
          Occurrences(run, k, o)]]

(* Indices of a run's events by key and outcome; v6 admits no unfinalized   *)
(* observations.                                                            *)
Aggregate(run) ==
  LET indices == {i \in DOMAIN run.events : run.events[i].key # 0}
      admitted == IF OutcomeReport /\ run.storage = "unfinalized" THEN {} ELSE indices
  IN [k \in {run.events[i].key : i \in admitted} |->
       [o \in {run.events[i].outcome : i \in {j \in admitted : run.events[j].key = k}} |->
          Occurrences(run, k, o)]]

Bucket(run, k) == IF k \in DOMAIN Aggregate(run) THEN Aggregate(run)[k] ELSE <<>>

Indices(bucket) == UNION {Range(bucket[o]) : o \in DOMAIN bucket}
Total(bucket) == Cardinality(UNION {{o} \X DOMAIN bucket[o] : o \in DOMAIN bucket})

(* The pass that meets occurrence i of outcome o first: the first ones of   *)
(* side-only outcomes, all of shared ones, and what is left.                *)
Pass(bucket, other, o, i) ==
  IF o \in DOMAIN other THEN 2 ELSE IF i = bucket[o][1] THEN 1 ELSE 3

OutcomeOf(bucket, i) == CHOOSE o \in DOMAIN bucket : i \in Range(bucket[o])

(* Variant: one pass over all outcomes. *)
SoonerByOutcome(bucket, other, i, j) ==
  LET a == OutcomeOf(bucket, i)
      b == OutcomeOf(bucket, j)
  IN a < b \/ (a = b /\ i < j)

(* Passes go by outcomes, each by its occurrences. *)
Sooner(bucket, other, i, j) ==
  LET a == OutcomeOf(bucket, i)
      b == OutcomeOf(bucket, j)
      p == Pass(bucket, other, a, i)
      q == Pass(bucket, other, b, j)
  IN p < q \/ (p = q /\ (a < b \/ (a = b /\ i < j)))

SampleEventIndices(bucket, other) ==
  LET all == Indices(bucket)
      met == InOrder(all, [i \in all |-> {j \in all : Sooner(bucket, other, j, i)}])
  IN SubSeq(met, 1, IF Cardinality(all) < EvidenceSampleLimit THEN Cardinality(all) ELSE EvidenceSampleLimit)

NoMapping == [source |-> "none", count |-> 0, samples |-> <<>>, omitted |-> 0, references |-> {}]

(* metadata_mapping *)
MetadataMapping(run) ==
  [NoMapping EXCEPT !.source = IF run.storage = "unfinalized" THEN "Withheld" ELSE "Metadata"]

(* target_mapping: the exit event, which saved provenance refers to last.   *)
TargetMapping(run) ==
  IF run.storage = "verified" /\ run.meta.schema = 4 /\ run.meta.provenance
  THEN [source |-> "TargetProvenance", count |-> 1, samples |-> <<run.meta.events>>,
        omitted |-> 0, references |-> {run.meta.events}]
  ELSE MetadataMapping(run)

(* normalized_mapping *)
NormalizedMapping(run, bucket, samples) ==
  IF run.storage = "unfinalized" THEN MetadataMapping(run)
  ELSE [source |-> "NormalizedEvents", count |-> Total(bucket), samples |-> samples,
        omitted |-> Total(bucket) - Len(samples),
        references |-> Indices(bucket)]

-----------------------------------------------------------------------------
(* Changes *)

Change(kind, key, l, r, leftSamples, rightSamples, leftMap, rightMap) ==
  [kind |-> kind, key |-> key, left |-> l, right |-> r,
   leftSamples |-> leftSamples, rightSamples |-> rightSamples,
   leftMap |-> IF OutcomeReport THEN leftMap ELSE NoMapping,
   rightMap |-> IF OutcomeReport THEN rightMap ELSE NoMapping]

(* target_exit: the spelling counts only where no number is known. *)
TargetExit(m) == IF m.target # NoExit THEN m.target ELSE m.raw

(* metadata_change_mapping *)
MetadataChange(kind, l, r) ==
  LET Side(run) == IF kind = "ExitStatus" THEN TargetMapping(run) ELSE MetadataMapping(run)
  IN Change(kind, 0, {l}, {r}, <<>>, <<>>, Side(left), Side(right))

(* append_metadata_changes, in production order *)
MetadataChanges ==
  LET l == left.meta
      r == right.meta
      When(differs, change) == IF differs THEN <<change>> ELSE <<>>
      Facts(m) == <<m.state, m.completeness, m.warned>>
      Selected(m) == IF m.environment = "none" THEN "unselected" ELSE m.environment
  IN When(TargetExit(l) # TargetExit(r),
          MetadataChange("ExitStatus", TargetExit(l), TargetExit(r)))
     \o When(l.cwd # r.cwd, MetadataChange("InitialWorkingDirectory", l.cwd, r.cwd))
     \o When(l.command # r.command, MetadataChange("CommandArguments", l.command, r.command))
     \o When(Facts(l) # Facts(r), MetadataChange("CaptureCompleteness", Facts(l), Facts(r)))
     \o When(Selected(l) # Selected(r),
             MetadataChange("SelectedStartupEnvironment", Selected(l), Selected(r)))

ChangeKind(k, l, r) ==
  CASE k \in ExecKeys -> IF DOMAIN l \cup DOMAIN r = {Success} THEN "Executable" ELSE "ExecutionAttempt"
    [] k \in FileKeys /\ l = <<>> -> "NewFileAccess"
    [] k \in FileKeys /\ l # <<>> /\ r = <<>> -> "RemovedFileAccess"
    [] k \in FileKeys /\ l # <<>> /\ r # <<>> -> "FileAccessOutcome"

(* observation_change: only the outcome sets decide. *)
ObservationChange(k, l, r) ==
  LET leftSamples == SampleEventIndices(l, r)
      rightSamples == SampleEventIndices(r, l)
  IN IF DOMAIN l = DOMAIN r THEN <<>>
     ELSE <<Change(ChangeKind(k, l, r), k, DOMAIN l, DOMAIN r, leftSamples, rightSamples,
                   NormalizedMapping(left, l, leftSamples), NormalizedMapping(right, r, rightSamples))>>

(* rank_class, as a number *)
RankClass(c) ==
  CASE c.kind = "ExitStatus" -> 1
    [] c.kind = "CaptureCompleteness" -> 2
    [] c.kind \in {"InitialWorkingDirectory", "CommandArguments", "SelectedStartupEnvironment"} -> 3
    [] c.key # 0 ->
         LET failed == c.right # {} /\ Success \notin c.right
         IN IF c.left = {Success} /\ failed THEN 4
            ELSE IF c.kind = "ExecutionAttempt" /\ failed THEN 5
            ELSE IF c.kind = "Executable" THEN (IF c.right # {} THEN 6 ELSE 8)
            ELSE IF c.kind = "NewFileAccess" THEN 7
            ELSE IF c.kind \in {"FileAccessOutcome", "ExecutionAttempt"} THEN 9 ELSE 10

(* A stable sort by rank *)
Precedes(changes, i, j) ==
  \/ RankClass(changes[i]) < RankClass(changes[j])
  \/ RankClass(changes[i]) = RankClass(changes[j]) /\ i < j
Ranked(changes) ==
  LET order == InOrder(DOMAIN changes,
                       [i \in DOMAIN changes |-> {j \in DOMAIN changes : Precedes(changes, j, i)}])
  IN [n \in DOMAIN changes |-> changes[order[n]]]

(* Flat samples of a trace report's exit change. *)
TargetSamples(run) ==
  IF run.meta.provenance /\ ~(OutcomeReport /\ run.storage # "verified") THEN <<run.meta.events>> ELSE <<>>

-----------------------------------------------------------------------------
(* Steps *)

(* error_report *)
Fail ==
  /\ at = "check"
  /\ ~CheckedRun(left) \/ ~CheckedRun(right) \/ RawFailed(left) \/ RawFailed(right)
  /\ report' = [NoReport EXCEPT !.left = Quality(left), !.right = Quality(right), !.exit = 2]
  /\ at' = "done"
  /\ UNCHANGED <<left, right, format, leftKeys, rightKeys>>

Begin ==
  /\ at = "check"
  /\ CheckedRun(left) /\ CheckedRun(right) /\ ~RawFailed(left) /\ ~RawFailed(right)
  /\ report' = [report EXCEPT !.left = Quality(left), !.right = Quality(right),
                              !.changes = MetadataChanges]
  /\ leftKeys' = Sorted(DOMAIN Aggregate(left))
  /\ rightKeys' = Sorted(DOMAIN Aggregate(right))
  /\ at' = "merge"
  /\ UNCHANGED <<left, right, format>>

(* One key of the union, with the evidence of either side or none. *)
Merge(k, l, r) ==
  /\ report' = [report EXCEPT !.changes = @ \o ObservationChange(k, l, r)]
  /\ UNCHANGED <<left, right, format, at>>

(* Variant: the merge ends with the shorter side. *)
ExhaustedEither == leftKeys = <<>> \/ rightKeys = <<>>

Exhausted == leftKeys = <<>> /\ rightKeys = <<>>

(* ordered_aggregates *)
TakeLeft ==
  /\ at = "merge" /\ leftKeys # <<>>
  /\ rightKeys # <<>> => Head(leftKeys) < Head(rightKeys)
  /\ Merge(Head(leftKeys), Bucket(left, Head(leftKeys)), <<>>)
  /\ leftKeys' = Tail(leftKeys) /\ rightKeys' = rightKeys

TakeRight ==
  /\ at = "merge" /\ rightKeys # <<>>
  /\ leftKeys # <<>> => Head(leftKeys) > Head(rightKeys)
  /\ Merge(Head(rightKeys), <<>>, Bucket(right, Head(rightKeys)))
  /\ rightKeys' = Tail(rightKeys) /\ leftKeys' = leftKeys

TakeBoth ==
  /\ at = "merge" /\ leftKeys # <<>> /\ rightKeys # <<>> /\ Head(leftKeys) = Head(rightKeys)
  /\ Merge(Head(leftKeys), Bucket(left, Head(leftKeys)), Bucket(right, Head(rightKeys)))
  /\ leftKeys' = Tail(leftKeys) /\ rightKeys' = Tail(rightKeys)

(* A side is named in a warning about storage, capture, environment or      *)
(* components.                                                              *)
Warned(run, quality) ==
  \/ run.storage # "verified"
  \/ run.meta.environment = "none"
  \/ run.meta.state # "completed" \/ run.meta.warned \/ run.meta.completeness # "complete"
  \/ TraceReport /\ (quality.raw # "verified" \/ quality.provenance # "verified")

ExitCode(changes) ==
  IF Trusted(report.left) /\ Trusted(report.right) THEN (IF changes = <<>> THEN 0 ELSE 1) ELSE 3

Finish ==
  /\ at = "merge" /\ Exhausted
  /\ LET changes == Ranked(report.changes)
         final == [i \in DOMAIN changes |->
                     IF TraceReport /\ changes[i].kind = "ExitStatus"
                     THEN [changes[i] EXCEPT !.leftSamples = TargetSamples(left),
                                             !.rightSamples = TargetSamples(right)]
                     ELSE changes[i]]
     IN report' = [report EXCEPT
                     !.changes = final,
                     !.observed = IF final = <<>> THEN "same" ELSE "different",
                     !.exit = ExitCode(final),
                     !.warned = {side \in {"left", "right"} :
                                   IF side = "left" THEN Warned(left, report.left)
                                   ELSE Warned(right, report.right)}]
  /\ at' = "done"
  /\ UNCHANGED <<left, right, format, leftKeys, rightKeys>>

ComparisonNext == Fail \/ Begin \/ TakeLeft \/ TakeRight \/ TakeBoth \/ Finish

ComparisonSpec == ComparisonInit /\ [][ComparisonNext]_comparisonVars

(***************************************************************************)
(* Properties                                                              *)
(***************************************************************************)

Done == at = "done" /\ report.exit # 2
Side(run, k) == {run.events[i].outcome : i \in {j \in DOMAIN run.events : run.events[j].key = k}}
Shown(run) == ~(OutcomeReport /\ run.storage = "unfinalized")
Seen(run, k) == IF Shown(run) THEN Side(run, k) ELSE {}

(* The report names exactly the observations whose outcome sets differ,     *)
(* each once and with those sets, however often and in which order they     *)
(* were made; equality is claimed only when the invocation, the target's    *)
(* end and every outcome set agree.                                         *)
DifferencesExact ==
  Done =>
    /\ \A k \in Keys :
         LET found == {i \in DOMAIN report.changes : report.changes[i].key = k}
         IN IF Seen(left, k) = Seen(right, k) THEN found = {}
            ELSE \E i \in DOMAIN report.changes :
                   /\ found = {i}
                   /\ report.changes[i].left = Seen(left, k) /\ report.changes[i].right = Seen(right, k)
    /\ report.exit = 0 =>
         /\ \A k \in Keys : Side(left, k) = Side(right, k)
         /\ left.meta.target = right.meta.target /\ left.meta.cwd = right.meta.cwd
         /\ left.meta.command = right.meta.command /\ left.meta.environment = right.meta.environment

(* Status 0 or 1 stands on evidence only: both captures were complete, with *)
(* a target end the collector confirms, and storage was verified; once      *)
(* either record or the caller asks for trace evidence, both records must   *)
(* have it, their raw bytes unchanged.  An older record never becomes       *)
(* trusted by being compared with a newer one, and a status of 3 names      *)
(* every side that cannot be trusted.                                       *)
Earned(run) ==
  /\ run.storage = "verified" /\ run.meta.schema >= 3 /\ run.meta.completeness = "complete"
  /\ run.meta.target # NoExit /\ run.meta.collector = run.meta.target
  /\ run.meta.events = Len(run.events)
  /\ TraceReport => run.meta.schema = 4 /\ run.receipt.kind = "Parsed" /\ run.raw = "verified"
TrustIsEarned ==
  Done =>
    /\ report.exit \in {0, 1} => Earned(left) /\ Earned(right)
    /\ report.exit = 3 => /\ ~Earned(left) \/ ~Earned(right)
                          /\ ~Earned(left) => "left" \in report.warned
                          /\ ~Earned(right) => "right" \in report.warned

(* The few samples of a change explain it: they are distinct events of that *)
(* observation, and outcomes only one side has come before any other, so a  *)
(* common outcome cannot use up the places.                                 *)
Explains(run, c, samples, mine, other) ==
  LET outcomes == {run.events[samples[i]].outcome : i \in DOMAIN samples}
      total == Cardinality({i \in DOMAIN run.events : run.events[i].key = c.key})
  IN /\ IsInjective(samples)
     /\ \A i \in DOMAIN samples : run.events[samples[i]].key = c.key
     /\ Len(samples) = IF total < EvidenceSampleLimit THEN total ELSE EvidenceSampleLimit
     /\ Cardinality(outcomes \ other) =
          IF Cardinality(mine \ other) < EvidenceSampleLimit
          THEN Cardinality(mine \ other) ELSE EvidenceSampleLimit
SamplesExplain ==
  Done => \A i \in DOMAIN report.changes :
    LET c == report.changes[i]
    IN c.key # 0 => /\ Shown(left) => Explains(left, c, c.leftSamples, c.left, c.right)
                    /\ Shown(right) => Explains(right, c, c.rightSamples, c.right, c.left)

(* A v6 report refers to every saved occurrence of a changed observation    *)
(* and its samples are among them; of an unfinalized run it refers to       *)
(* nothing and samples nothing, not even the end of its target.             *)
Referred(run, c, map, samples) ==
  IF run.storage = "unfinalized"
  THEN map.source = "Withheld" /\ map.references = {} /\ map.samples = <<>> /\ samples = <<>>
  ELSE /\ map.samples = samples /\ Range(samples) \subseteq map.references
       /\ map.count = Cardinality(map.references) /\ map.omitted = map.count - Len(samples)
       /\ c.key # 0 => map.references = {i \in DOMAIN run.events : run.events[i].key = c.key}
ReferencesComplete ==
  Done /\ OutcomeReport => \A i \in DOMAIN report.changes :
    LET c == report.changes[i]
    IN /\ Referred(left, c, c.leftMap, c.leftSamples)
       /\ Referred(right, c, c.rightMap, c.rightSamples)
==============================================================================

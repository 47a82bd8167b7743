--------------------------- MODULE CaptureReduction ---------------------------
(***************************************************************************)
(* The pure reduction of capture facts to a saved state, a completeness    *)
(* and the exit code of the record command, from src/capture/reduction.rs. *)
(* Texts of warnings are abstracted to whether there is any.               *)
(***************************************************************************)
EXTENDS Naturals

(* ProcessExit.  An undecodable target exit is "unknown"; number 1 marks the
   spelling "+++ killed by ...", which alone draws a warning. *)
Exited(code)     == [kind |-> "exited", number |-> code]
Signaled(signal) == [kind |-> "signaled", number |-> signal]
Unknown          == [kind |-> "unknown", number |-> 0]
UnknownKill      == [kind |-> "unknown", number |-> 1]
NoExit           == [kind |-> "none", number |-> 0]

(* ProcessExit::cli_exit, where it is Some. *)
ShellStatus(exit) == IF exit.kind = "signaled" THEN 128 + exit.number ELSE exit.number
HasStatus(exit)   == exit.kind \in {"exited", "signaled"}

(* CollectorFacts *)
Reaped(exit) == [fact |-> "Reaped", exit |-> exit]
NotStarted   == [fact |-> "NotStarted", exit |-> NoExit]
Failed       == [fact |-> "Failed", exit |-> NoExit]

(* A known target exit is confirmed or contradicted by a reaped collector. *)
Contradicts(collector, target) ==
  collector.fact = "Reaped" /\ HasStatus(target) /\ collector.exit # target

(* Variant: a status that contradicts the target is accepted. *)
CollectorUnknown(collector, target) ==
  collector.fact = "Reaped" /\ collector.exit.kind = "unknown"

CollectorDoubtful(collector, target) ==
  collector.fact = "Reaped" /\ (collector.exit.kind = "unknown" \/ Contradicts(collector, target))

(* Whether reduce_capture_facts leaves any warning.  Parser warnings and missing
   process completions are the limitations of the trace. *)
HasWarnings(facts) ==
  \/ facts.limitations \/ facts.readError
  \/ facts.target \in {NoExit, UnknownKill}
  \/ CollectorDoubtful(facts.collector, facts.target)
  \/ facts.collector.fact # "Reaped"
  \/ facts.exceeded # {} \/ facts.supervisionError

CaptureFailed(facts) ==
  \/ facts.target = NoExit
  \/ facts.collector.fact # "Reaped"
  \/ CollectorDoubtful(facts.collector, facts.target)
  \/ facts.exceeded # {} \/ facts.supervisionError

(* The recorder's own stop takes precedence over capture failure. *)
State(facts, noSignal) ==
  IF facts.recorder # noSignal THEN "interrupted"
  ELSE IF CaptureFailed(facts) THEN "capture_failed" ELSE "completed"

Completeness(facts, noSignal) ==
  IF State(facts, noSignal) # "completed" THEN "incomplete"
  ELSE IF HasWarnings(facts) THEN "partial" ELSE "complete"

(* What the observed processes did: the target's status before the collector's. *)
ObservedStatus(facts) ==
  IF HasStatus(facts.target) THEN ShellStatus(facts.target)
  ELSE IF HasStatus(facts.collector.exit) THEN ShellStatus(facts.collector.exit)
  ELSE 125

(* Variant: an interrupted capture reports what the target did. *)
CliExitOfTarget(facts, noSignal) ==
  IF State(facts, noSignal) = "capture_failed" THEN 125 ELSE ObservedStatus(facts)

CliExit(facts, noSignal) ==
  IF facts.recorder # noSignal THEN 128 + facts.recorder
  ELSE IF CaptureFailed(facts) THEN 125 ELSE ObservedStatus(facts)

ReduceCaptureFacts(facts, noSignal) ==
  [state |-> State(facts, noSignal), completeness |-> Completeness(facts, noSignal),
   warned |-> HasWarnings(facts), recorder |-> facts.recorder, cliExit |-> CliExit(facts, noSignal)]

=============================================================================

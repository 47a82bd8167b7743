--------------------------- MODULE CaptureWorkflow ----------------------------
(***************************************************************************)
(* The record command from signal setup to exit status, from record_owned, *)
(* StartupGate and TraceReadPlan in src/capture/mod.rs, probe_backend in   *)
(* src/capture/supervision.rs and main in src/main.rs.  It composes the    *)
(* signal scope (SignalScope), the reduction (CaptureReduction) and, by    *)
(* the outcomes those modules allow, the collector (CollectorSupervision)  *)
(* and the writer (RecordCommit).                                          *)
(*                                                                         *)
(* Observations made inside one probe or one supervision are merged into   *)
(* its last: reading twice latches no other signal than reading once can.  *)
(***************************************************************************)
EXTENDS SignalScope, RunContract

CONSTANTS
  ExitCodes,      \* exit codes of collector and target
  KillSignals     \* signals that end collector or target

(* wait status and the u8 the parser reads; Linux signal numbers *)
ASSUME ExitsAssumption == ExitCodes \subseteq 0 .. 255 /\ KillSignals \subseteq 1 .. 64

VARIABLES
  limited,       \* configured limits, a subset of {"duration", "bytes"}
  at,            \* next statement of record_owned
  gate,          \* StartupGate and whether it holds a supervision error
  record,        \* the record on disk
  spawned,       \* history: a collector process was forked
  producing,     \* history: a collector may still be writing the trace
  collector,     \* CollectorFacts
  exceeded,      \* CaptureLimitFacts
  lenUnverified, \* TraceReadPlan::SuppressedLengthUnverified
  supervisionError, \* recorder_supervision_error is Some
  trace,         \* what reading the trace yielded
  decision,      \* CaptureDecision, once reduced
  operation,     \* result of the workflow closure
  exit           \* exit status of the process, Running before

workflowVars == <<limited, at, gate, record, spawned, producing, collector, exceeded,
                  lenUnverified, supervisionError, trace, decision, operation, exit>>
vars == <<scopeVars, workflowVars>>

Running  == 1000
Undecided == [state |-> "none"]
Exits    == {Exited(c) : c \in ExitCodes} \cup {Signaled(s) : s \in KillSignals}
EmptyTrace == [target |-> NoExit, limitations |-> FALSE, readError |-> FALSE, parsed |-> FALSE]

Init ==
  /\ ScopeInit
  /\ limited \in SUBSET {"duration", "bytes"}
  /\ at = "setup" /\ gate = [state |-> "Ready", error |-> FALSE] /\ record = "none"
  /\ spawned = FALSE /\ producing = FALSE /\ collector = NotStarted
  /\ exceeded = {} /\ lenUnverified = FALSE /\ supervisionError = FALSE
  /\ trace = EmptyTrace /\ decision = Undecided /\ operation = "none" /\ exit = Running

(* The closure returns; restore_parent follows on every path. *)
Return(outcome) == operation' = outcome /\ at' = "restore"

-----------------------------------------------------------------------------
(* SignalScope::for_owner *)
SetUpSignals ==
  /\ at = "setup" /\ step # "open"
  /\ Setup \/ RestoreSteps
  /\ at' = IF step' = "open" THEN "probe" ELSE IF step' = "closed" THEN "done" ELSE at
  /\ exit' = IF step' = "closed" THEN 2 ELSE exit
  /\ UNCHANGED <<limited, gate, record, spawned, producing, collector, exceeded, lenUnverified,
                 supervisionError, trace, decision, operation>>

(* probe_backend *)
ProbeCompletes ==
  /\ at = "probe"
  /\ Observe /\ first' = NoSignal
  /\ at' = "gate"
  /\ UNCHANGED <<limited, gate, record, spawned, producing, collector, exceeded, lenUnverified,
                 supervisionError, trace, decision, operation, exit>>

(* Cancellation may carry the error of a probe that was hard to stop. *)
ProbeCancelled ==
  /\ at = "probe"
  /\ Observe /\ first' # NoSignal
  /\ \E failed \in BOOLEAN : gate' = [state |-> "Cancelled", error |-> failed]
  /\ at' = "begin"
  /\ UNCHANGED <<limited, record, spawned, producing, collector, exceeded, lenUnverified,
                 supervisionError, trace, decision, operation, exit>>

(* Preflight errors create no record. *)
ProbeFails ==
  /\ at = "probe"
  /\ Observe \/ ObserveFails
  /\ Return("error")
  /\ UNCHANGED <<limited, gate, record, spawned, producing, collector, exceeded, lenUnverified,
                 supervisionError, trace, decision, exit>>

(* Variant: only an error, not a signal, closes the gate. *)
ObserveErrorsBeforeSpawn ==
  \/ /\ gate.error
     /\ UNCHANGED <<gate, scopeVars>>
  \/ /\ ~gate.error
     /\ Observe
     /\ gate' = gate
  \/ /\ ~gate.error
     /\ ObserveFails
     /\ gate' = [state |-> IF gate.state = "Ready" THEN "Failed" ELSE gate.state, error |-> TRUE]

(* observe_before_spawn: a prior error prevents another read. *)
ObserveBeforeSpawn ==
  \/ /\ gate.error
     /\ UNCHANGED <<gate, scopeVars>>
  \/ /\ ~gate.error
     /\ Observe
     /\ gate' = IF first' = NoSignal THEN gate ELSE [state |-> "Cancelled", error |-> FALSE]
  \/ /\ ~gate.error
     /\ ObserveFails
     /\ gate' = [state |-> IF gate.state = "Ready" THEN "Failed" ELSE gate.state, error |-> TRUE]

GateAfterProbe ==
  /\ at = "gate"
  /\ ObserveBeforeSpawn
  /\ at' = "begin"
  /\ UNCHANGED <<limited, record, spawned, producing, collector, exceeded, lenUnverified,
                 supervisionError, trace, decision, operation, exit>>

-----------------------------------------------------------------------------
(* begin_run, write_metadata and trace_target; each may fail. *)
BeginRun ==
  /\ at = "begin"
  /\ \/ record' = "created" /\ at' = "metadata" /\ operation' = operation
     \/ record' \in {"none", "created"} /\ Return("error")
  /\ UNCHANGED <<scopeVars, limited, gate, spawned, producing, collector, exceeded, lenUnverified,
                 supervisionError, trace, decision, exit>>

WriteMetadata ==
  /\ at = "metadata"
  /\ \/ record' = "running" /\ at' = "gate2" /\ operation' = operation
     \/ record' \in {"created", "running"} /\ Return("error")
  /\ UNCHANGED <<scopeVars, limited, gate, spawned, producing, collector, exceeded, lenUnverified,
                 supervisionError, trace, decision, exit>>

GateBeforeSpawn ==
  /\ at = "gate2"
  /\ ObserveBeforeSpawn
  /\ supervisionError' = gate'.error
  /\ at' = "start"
  /\ UNCHANGED <<limited, record, spawned, producing, collector, exceeded, lenUnverified, trace,
                 decision, operation, exit>>

-----------------------------------------------------------------------------
(* Formal capture *)

NotStartedByGate ==
  /\ at = "start" /\ gate.state # "Ready"
  /\ collector' = NotStarted
  /\ at' = "length"
  /\ UNCHANGED <<scopeVars, limited, gate, record, spawned, producing, exceeded, lenUnverified,
                 supervisionError, trace, decision, operation, exit>>

(* capture_collector returns facts about a collector that is no more: a status,
   or a failure, which alone may follow a failed observation or fork. *)
CollectorReaped ==
  /\ at = "start" /\ gate.state = "Ready"
  /\ Observe
  /\ spawned' = TRUE
  /\ \E status \in Exits \cup {Unknown} : collector' = Reaped(status)
  /\ exceeded' \in SUBSET limited
  /\ lenUnverified' \in IF "bytes" \in limited THEN BOOLEAN ELSE {FALSE}
  /\ supervisionError' = (supervisionError \/ lenUnverified')
  /\ at' = "length"
  /\ UNCHANGED <<limited, gate, record, producing, trace, decision, operation, exit>>

CollectorFailed ==
  /\ at = "start" /\ gate.state = "Ready"
  /\ Observe \/ ObserveFails
  /\ spawned' \in BOOLEAN
  /\ collector' = Failed
  /\ exceeded' \in SUBSET limited
  /\ lenUnverified' \in IF "bytes" \in limited THEN BOOLEAN ELSE {FALSE}
  /\ supervisionError' = (supervisionError \/ lenUnverified')
  /\ at' = "length"
  /\ UNCHANGED <<limited, gate, record, producing, trace, decision, operation, exit>>

(* Variant: a producer that was not quiesced is treated as a failed one. *)
CollectorUnquiescedAsFailed ==
  /\ at = "start" /\ gate.state = "Ready"
  /\ Observe \/ ObserveFails
  /\ spawned' = TRUE /\ producing' = TRUE
  /\ collector' = Failed
  /\ at' = "length"
  /\ UNCHANGED <<limited, gate, record, exceeded, lenUnverified, supervisionError, trace,
                 decision, operation, exit>>

(* No quiescence: the record stays unfinalized and the trace unread. *)
CollectorUnquiesced ==
  /\ at = "start" /\ gate.state = "Ready"
  /\ Observe \/ ObserveFails
  /\ spawned' = TRUE /\ producing' = TRUE
  /\ Return("error")
  /\ UNCHANGED <<limited, gate, record, collector, exceeded, lenUnverified, supervisionError,
                 trace, decision, exit>>

(* The capture schedule cannot be represented: nothing was started. *)
ScheduleFails ==
  /\ at = "start" /\ gate.state = "Ready"
  /\ Return("error")
  /\ UNCHANGED <<scopeVars, limited, gate, record, spawned, producing, collector, exceeded,
                 lenUnverified, supervisionError, trace, decision, exit>>

-----------------------------------------------------------------------------
(* Reading the trace *)

(* With a byte limit the final anchored length is checked before reading. *)
FinalLength ==
  /\ at = "length"
  /\ IF "bytes" \notin limited
       THEN UNCHANGED <<exceeded, lenUnverified, supervisionError>>
       ELSE \/ /\ \E over \in SUBSET {"bytes"} : exceeded' = exceeded \cup over
               /\ UNCHANGED <<lenUnverified, supervisionError>>
            \/ lenUnverified' = TRUE /\ supervisionError' = TRUE /\ exceeded' = exceeded
  /\ at' = "read"
  /\ UNCHANGED <<scopeVars, limited, gate, record, spawned, producing, collector, trace, decision,
                 operation, exit>>

(* TraceReadPlan::after_limits *)
Suppressed == lenUnverified \/ "bytes" \in exceeded

(* What parsing may find: nothing at all unless a collector wrote the trace. *)
Traces ==
  [target : IF spawned THEN Exits \cup {NoExit, UnknownKill} ELSE {NoExit},
   limitations : IF spawned THEN BOOLEAN ELSE {FALSE},
   readError : {FALSE}, parsed : {TRUE}]

(* Variant: a failed read keeps what was parsed before it. *)
ReadTraceKeepingPrefix ==
  /\ at = "read"
  /\ trace' \in IF Suppressed THEN {EmptyTrace}
                ELSE Traces \cup {[t EXCEPT !.readError = TRUE] : t \in Traces}
  /\ at' = "freeze"
  /\ UNCHANGED <<scopeVars, limited, gate, record, spawned, producing, collector, exceeded,
                 lenUnverified, supervisionError, decision, operation, exit>>

(* parse_trace_stream: a failed read discards everything accepted before it. *)
ReadTrace ==
  /\ at = "read"
  /\ trace' \in IF Suppressed THEN {EmptyTrace}
                ELSE Traces \cup {[EmptyTrace EXCEPT !.readError = TRUE, !.parsed = TRUE]}
  /\ at' = "freeze"
  /\ UNCHANGED <<scopeVars, limited, gate, record, spawned, producing, collector, exceeded,
                 lenUnverified, supervisionError, decision, operation, exit>>

Facts == [target |-> trace.target, limitations |-> trace.limitations,
          readError |-> trace.readError, collector |-> collector, exceeded |-> exceeded,
          recorder |-> first', supervisionError |-> supervisionError']

(* Freeze the recorder's stop and reduce; a failed last observation is a fact. *)
FreezeAndReduce ==
  /\ at = "freeze"
  /\ \/ Freeze /\ supervisionError' = supervisionError
     \/ FreezeFails /\ supervisionError' = TRUE
  /\ decision' = ReduceCaptureFacts(Facts, NoSignal)
  /\ at' = "finish"
  /\ UNCHANGED <<limited, gate, record, spawned, producing, collector, exceeded, lenUnverified,
                 trace, operation, exit>>

(* apply_to_metadata and the facts written beside the decision, under one   *)
(* of the evidence contracts; `size` is what the trace held.                *)
FinalMetadata(schema, size) ==
  [schema |-> schema, state |-> decision.state, completeness |-> decision.completeness,
   ended |-> TRUE, raw |-> trace.target, target |-> MetadataFields(trace.target),
   collector |-> MetadataFields(collector.exit),
   provenance |-> schema = 4 /\ trace.target # NoExit,
   warned |-> decision.warned, events |-> size, lines |-> size]

(* Events of the trace: exec and exit of a target that is shown to have ended. *)
Sizes == IF trace.target # NoExit THEN {2}
         ELSE IF trace.limitations THEN {0, 1}
         ELSE IF trace.parsed /\ ~trace.readError /\ spawned THEN {0, 1} ELSE {0}

(* for_each_trace_line leaves the receipt of a traversal that reached the   *)
(* end of the trace; finish makes one up for all others.                    *)
Receipt(size) == IF trace.parsed /\ ~trace.readError THEN ParsedReceipt(size, size) ELSE Unverified

(* RunWriter::finish; its error may come after the marker was published. *)
FinishRun ==
  /\ at = "finish"
  /\ \/ record' = "final" /\ Return("ok")
     \/ record' \in {"running", "final"} /\ Return("error")
  /\ UNCHANGED <<scopeVars, limited, gate, spawned, producing, collector, exceeded, lenUnverified,
                 supervisionError, trace, decision, exit>>

-----------------------------------------------------------------------------
(* Restoration and exit *)

RestoreParent ==
  /\ at \in {"restore", "drop"}
  /\ attempts = 0 \/ step # "open" \/ at = "drop"
  /\ BeginRestore \/ RestoreSteps
  /\ at' = IF at = "drop" /\ step' = "closed" THEN "done" ELSE at
  /\ UNCHANGED <<limited, gate, record, spawned, producing, collector, exceeded, lenUnverified,
                 supervisionError, trace, decision, operation, exit>>

(* Variant: the restoration result is ignored. *)
StatusesIgnoringRestoration == IF operation = "ok" THEN {decision.cliExit, 2} ELSE {2}

(* restore_record_result, children.restore, record_output and main: any error
   is status 2, also after the record was committed. *)
Statuses == IF operation = "ok" /\ restored THEN {decision.cliExit, 2} ELSE {2}

(* The explicit attempt is over; an unclean one is retried when the scope drops. *)
Report ==
  /\ at = "restore"
  /\ step = "closed" \/ (step = "open" /\ attempts = 1)
  /\ exit' \in Statuses
  /\ at' = IF step = "closed" THEN "done" ELSE "drop"
  /\ UNCHANGED <<scopeVars, limited, gate, record, spawned, producing, collector, exceeded,
                 lenUnverified, supervisionError, trace, decision, operation>>

-----------------------------------------------------------------------------
Arrival == SignalArrives /\ at # "done" /\ UNCHANGED workflowVars

Next ==
  \/ SetUpSignals \/ ProbeCompletes \/ ProbeCancelled \/ ProbeFails \/ GateAfterProbe
  \/ BeginRun \/ WriteMetadata \/ GateBeforeSpawn
  \/ NotStartedByGate \/ CollectorReaped \/ CollectorFailed \/ CollectorUnquiesced \/ ScheduleFails
  \/ FinalLength \/ ReadTrace \/ FreezeAndReduce \/ FinishRun
  \/ RestoreParent \/ Report \/ Arrival

Spec == Init /\ [][Next]_vars

-----------------------------------------------------------------------------
(* Properties *)

(* A record saved as completed was earned: a collector ran, its known status
   agrees with the target exit read from the trace, no limit was crossed, every
   observation succeeded and no control signal was taken. *)
CompletedIsEarned ==
  record = "final" /\ decision.state = "completed" =>
    /\ spawned /\ collector.fact = "Reaped" /\ collector.exit \in Exits
    /\ trace.target # NoExit
    /\ HasStatus(trace.target) => collector.exit = trace.target
    /\ exceeded = {} /\ ~lenUnverified /\ ~gate.error
    /\ consumed = {}

(* Nothing is parsed or finalized while a collector may still be writing. *)
NoCommitWhileProducing == producing => ~trace.parsed /\ record # "final"

(* Once a control signal was taken or an observation failed, no target starts. *)
NoStartAfterStop ==
  [][~spawned /\ spawned' => consumed = {} /\ ~gate.error]_vars

(* finish checks the contract of what it is given before it publishes: no   *)
(* decision about any combination of signals, limits, collector failures    *)
(* and trace findings is refused there and its record lost, under either    *)
(* evidence contract.  Uncertain rows are limitations (UncertainIsWarned).  *)
FinishIsAccepted ==
  at = "finish" =>
    \A schema \in {3, 4}, size \in Sizes, flawed \in IF trace.limitations THEN BOOLEAN ELSE {FALSE} :
      LET m == FinalMetadata(schema, size)
      IN /\ ValidateRunFacts(m, EventFacts(size, schema - 1, size, flawed, flawed), TRUE)
         /\ schema = 4 => ValidateRawManifest(Receipt(size), m)

(* A control signal taken from the caller before the decision is never silent:
   the record is interrupted with that signal, or the command fails. *)
NoSignalSwallowed ==
  at = "done" /\ consumed # {} =>
    exit = 2 \/ (exit = 128 + first /\ decision.state = "interrupted")

(* Status 0 stands for a committed, completed record and restored signals. *)
ZeroMeansCompleted ==
  exit = 0 => /\ record = "final" /\ decision.state = "completed"
              /\ installed = {} /\ ~masked

(* A signal that comes after the decision does not change what it says, and stays
   for the caller's original disposition: nothing more is read, in restoration or
   in its retry. *)
DecisionIsFinal ==
  [][decision # Undecided => /\ decision' = decision /\ consumed' = consumed
                             /\ decision.recorder = first']_vars

=============================================================================

------------------------ MODULE CaptureWorkflowProofs -------------------------
(***************************************************************************)
(* Proofs about the record command and the signal scope it opens, for      *)
(* every set of control signals, saved mask and disposition, exit code and *)
(* killing signal, and any number of signals and failures.                 *)
(*                                                                         *)
(* First the scope by itself.  The argument is that of with_faults and     *)
(* restore_parent: a temporary action is in place only behind the          *)
(* recorder's mask, and the mask goes only when every action is back.      *)
(*                                                                         *)
(* Then the workflow.  It drives the signal scope only through the scope's *)
(* own steps (ScopeSimulated), so that the scope's invariant is available  *)
(* to it.  The rest of the inductive invariant says what each statement    *)
(* may rely on: which facts are still untouched (Order), what the gate has *)
(* seen (Gated), what a trace can hold (TraceForm), and that the decision  *)
(* is the reduction of facts that no later step changes (Decided).         *)
(***************************************************************************)
EXTENDS CaptureWorkflow, TLAPS

-----------------------------------------------------------------------------
(* The signal scope *)

Steps == {"new", "install", "open", "undo", "restore", "closed"}

(* Type correctness of the scope's fields, the thread's signal state and the
   history variables. *)
ScopeTypeOK ==
  /\ ignored \in SUBSET Signals /\ callerBlocked \in SUBSET Signals
  /\ step \in Steps
  /\ installed \in SUBSET Signals /\ pending \in SUBSET Signals
  /\ first \in Signals \cup {NoSignal}
  /\ masked \in BOOLEAN /\ frozen \in BOOLEAN /\ restored \in BOOLEAN /\ reported \in BOOLEAN
  /\ drainError \in BOOLEAN /\ actionError \in BOOLEAN
  /\ attempts \in 0 .. 2 /\ todo \in SUBSET Signals
  /\ consumed \in SUBSET Signals /\ ranTemporary \in SUBSET Signals

(***************************************************************************)
(* Temporary actions are masked from before the first is installed until   *)
(* none is left; a rollback or restoration that met no failure has only    *)
(* its todo list left to set.                                              *)
(***************************************************************************)
Shielded ==
  /\ ranTemporary = {}
  /\ ~masked => installed = {}
  /\ step = "new" => installed = {}
  /\ step = "install" => masked
  /\ step \in {"undo", "restore"} /\ ~actionError => installed \subseteq todo

(* A restoration that counts as done left nothing of the scope behind, and a
   silent end means nothing was left. *)
Undone ==
  /\ restored => step = "closed" /\ installed = {} /\ ~masked
  /\ NoSilentChange

(* Whatever was read from the signalfd is latched: first_observed is set by the
   first record and never lost, so a consumed signal is always remembered. *)
ConsumedIsLatched ==
  /\ first = NoSignal <=> consumed = {}
  /\ first # NoSignal => first \in consumed

(* Acquisition ends before the first restoration begins. *)
FrozenBeforeRestore == attempts > 0 => frozen

(* Once frozen, nothing more is read and the latched signal does not change. *)
FrozenIsFinal == [][frozen => frozen' /\ first' = first /\ consumed' = consumed]_scopeVars

USE DEF savedVars, attemptVars, factVars

-----------------------------------------------------------------------------
(* Reading the signalfd *)

(* What one observation, complete or cut short by an error, does to the latch. *)
LEMMA ReadLatches ==
  ASSUME ScopeTypeOK, ConsumedIsLatched, Drain \/ DrainFails
  PROVE  /\ pending' \in SUBSET Signals /\ consumed' \in SUBSET Signals
         /\ first' \in Signals \cup {NoSignal}
         /\ ConsumedIsLatched'
         /\ frozen => first' = first /\ consumed' = consumed
<1> USE SignalsAssumption DEF ScopeTypeOK, ConsumedIsLatched
<1>1. CASE frozen /\ Drain
  <2>1. pending' = pending /\ consumed' = consumed /\ first' = first
    BY <1>1 DEF Drain
  <2> QED
    BY <2>1
<1>2. ASSUME NEW records \in SUBSET pending, Read(records)
      PROVE  /\ pending' \in SUBSET Signals /\ consumed' \in SUBSET Signals
             /\ first' \in Signals \cup {NoSignal}
             /\ ConsumedIsLatched'
  <2>1. CASE first = NoSignal /\ records # {}
    BY <1>2, <2>1 DEF Read
  <2>2. CASE ~(first = NoSignal /\ records # {})
    BY <1>2, <2>2 DEF Read
  <2> QED
    BY <2>1, <2>2
<1> QED
  BY <1>1, <1>2 DEF Drain, DrainFails

-----------------------------------------------------------------------------
(* The inductive invariant *)

ScopeInv == ScopeTypeOK /\ Shielded /\ Undone /\ ConsumedIsLatched /\ FrozenBeforeRestore

(* The scope starts with the caller's signal state and nothing read. *)
LEMMA ScopeInvInit == ScopeInit => ScopeInv
<1> SUFFICES ASSUME ScopeInit PROVE ScopeInv
  OBVIOUS
<1>1. /\ masked \in BOOLEAN /\ frozen \in BOOLEAN /\ restored \in BOOLEAN /\ reported \in BOOLEAN
      /\ drainError \in BOOLEAN /\ actionError \in BOOLEAN
  BY DEF ScopeInit
<1>2. ScopeTypeOK
  BY <1>1 DEF ScopeInit, ScopeTypeOK, Steps
<1>3. Shielded /\ Undone
  BY DEF ScopeInit, Shielded, Undone, NoSilentChange
<1>4. ConsumedIsLatched /\ FrozenBeforeRestore
  BY DEF ScopeInit, ConsumedIsLatched, FrozenBeforeRestore
<1> QED
  BY <1>2, <1>3, <1>4 DEF ScopeInv

(* Every step of with_faults, from the caller's mask to the open signalfd or the
   rollback, keeps the invariant. *)
LEMMA SetupKeeps == ScopeInv /\ Setup => ScopeInv'
<1> SUFFICES ASSUME ScopeInv, Setup PROVE ScopeInv'
  OBVIOUS
<1> USE DEF ScopeInv, ScopeTypeOK, Steps, Shielded, Undone, NoSilentChange,
            ConsumedIsLatched, FrozenBeforeRestore
<1>1. CASE NewFails
  BY <1>1 DEF NewFails
<1>2. CASE Block
  BY <1>2 DEF Block
<1>3. CASE Install
  BY <1>3 DEF Install
<1>4. CASE OpenSignalfd
  BY <1>4 DEF OpenSignalfd
<1>5. CASE SetupFails
  BY <1>5 DEF SetupFails
<1> QED
  BY <1>1, <1>2, <1>3, <1>4, <1>5 DEF Setup

(* Observation and freezing touch only what was read. *)
LEMMA AcquisitionKeeps ==
  ScopeInv /\ (Observe \/ ObserveFails \/ Freeze \/ FreezeFails) => ScopeInv'
<1> SUFFICES ASSUME ScopeInv, Observe \/ ObserveFails \/ Freeze \/ FreezeFails PROVE ScopeInv'
  OBVIOUS
<1>1. Drain \/ DrainFails
  BY DEF Observe, ObserveFails, Freeze, FreezeFails
<1>2. /\ pending' \in SUBSET Signals /\ consumed' \in SUBSET Signals
      /\ first' \in Signals \cup {NoSignal} /\ ConsumedIsLatched'
  BY <1>1, ReadLatches DEF ScopeInv
<1>3. UNCHANGED <<savedVars, step, installed, masked, restored, attemptVars, reported,
                  ranTemporary>>
  BY DEF Observe, ObserveFails, Freeze, FreezeFails
<1>4. frozen' \in {frozen, TRUE}
  BY DEF Observe, ObserveFails, Freeze, FreezeFails
<1> QED
  BY <1>2, <1>3, <1>4 DEF ScopeInv, ScopeTypeOK, Shielded, Undone, NoSilentChange, FrozenBeforeRestore

(* A restoration starts frozen, with every action to set. *)
LEMMA BeginRestoreKeeps == ScopeInv /\ BeginRestore => ScopeInv'
<1> SUFFICES ASSUME ScopeInv, BeginRestore PROVE ScopeInv'
  OBVIOUS
<1>1. Drain \/ DrainFails
  BY DEF BeginRestore
<1>2. /\ pending' \in SUBSET Signals /\ consumed' \in SUBSET Signals
      /\ first' \in Signals \cup {NoSignal} /\ ConsumedIsLatched'
  BY <1>1, ReadLatches DEF ScopeInv
<1>3. /\ step = "open" /\ step' = "restore" /\ todo' = Signals
      /\ attempts < 2 /\ attempts' = attempts + 1
      /\ UNCHANGED <<savedVars, installed, masked, restored, reported, ranTemporary>>
  BY DEF BeginRestore
<1>4. frozen' /\ frozen' \in BOOLEAN /\ drainError' \in BOOLEAN /\ actionError' \in BOOLEAN
  BY DEF BeginRestore
<1> QED
  BY <1>2, <1>3, <1>4 DEF ScopeInv, ScopeTypeOK, Steps, Shielded, Undone, NoSilentChange,
                    FrozenBeforeRestore

(* Rollback and restoration set action after action and, with all of them back,
   the mask. *)
LEMMA RestoreKeeps == ScopeInv /\ RestoreSteps => ScopeInv'
<1> SUFFICES ASSUME ScopeInv, RestoreSteps PROVE ScopeInv'
  OBVIOUS
<1> USE DEF ScopeInv, ScopeTypeOK, Steps, Shielded, Undone, NoSilentChange,
            ConsumedIsLatched, FrozenBeforeRestore
<1>1. CASE RestoreAction
  BY <1>1 DEF RestoreAction
<1>2. CASE RestoreActionFails
  BY <1>2 DEF RestoreActionFails
<1>3. CASE RestoreMask
  <2>1. installed = {} /\ installed' = {} /\ masked' = FALSE
    BY <1>3 DEF RestoreMask
  <2>2. ranTemporary' = {}
    BY <1>3, <2>1 DEF RestoreMask
  <2>3. step' \in {"open", "closed"}
    BY <1>3 DEF RestoreMask, EndAttempt
  <2>4. restored' => step' = "closed"
    BY <1>3 DEF RestoreMask, EndAttempt
  <2>5. restored' \in BOOLEAN /\ reported' \in BOOLEAN
    BY <1>3 DEF RestoreMask, EndAttempt
  <2> QED
    BY <1>3, <2>1, <2>2, <2>3, <2>4, <2>5 DEF RestoreMask
<1>4. CASE KeepMask
  BY <1>4 DEF KeepMask, EndAttempt
<1> QED
  BY <1>1, <1>2, <1>3, <1>4 DEF RestoreSteps

(* A signal is delivered through a temporary action only while none is masked. *)
LEMMA ArrivalKeeps == ScopeInv /\ SignalArrives => ScopeInv'
BY DEF ScopeInv, ScopeTypeOK, Shielded, Undone, NoSilentChange, ConsumedIsLatched,
       FrozenBeforeRestore, SignalArrives

(* Every step, or none, keeps the invariant. *)
LEMMA ScopeStep == ScopeInv /\ [ScopeNext]_scopeVars => ScopeInv'
<1> SUFFICES ASSUME ScopeInv, [ScopeNext]_scopeVars PROVE ScopeInv'
  OBVIOUS
<1>1. CASE UNCHANGED scopeVars
  BY <1>1 DEF ScopeInv, ScopeTypeOK, Shielded, Undone, NoSilentChange, ConsumedIsLatched,
              FrozenBeforeRestore, scopeVars
<1> QED
  BY <1>1, SetupKeeps, AcquisitionKeeps, BeginRestoreKeeps, RestoreKeeps, ArrivalKeeps
     DEF ScopeNext

(* The invariant holds throughout the scope's life. *)
THEOREM ScopeInvariant == ScopeSpec => []ScopeInv
BY ScopeInvInit, ScopeStep, PTL DEF ScopeSpec

-----------------------------------------------------------------------------
(* Theorems *)

(* No signal ever takes effect through a temporary SIG_DFL action, whatever fails
   in with_faults, restore_parent or Drop and whenever signals arrive. *)
THEOREM TemporaryActionsNeverRun == ScopeSpec => []TemporaryNeverRuns
<1>1. ScopeInv => TemporaryNeverRuns
  BY DEF ScopeInv, Shielded, TemporaryNeverRuns
<1> QED
  BY <1>1, ScopeInvariant, PTL

(* A caller whose mask or actions were not put back has been told. *)
THEOREM ChangesAreReported == ScopeSpec => []NoSilentChange
<1>1. ScopeInv => NoSilentChange
  BY DEF ScopeInv, Undone
<1> QED
  BY <1>1, ScopeInvariant, PTL

(* A signal read from the signalfd is never forgotten by first_observed. *)
THEOREM ConsumedSignalsAreLatched == ScopeSpec => []ConsumedIsLatched
<1>1. ScopeInv => ConsumedIsLatched
  BY DEF ScopeInv
<1> QED
  BY <1>1, ScopeInvariant, PTL

(* After freeze no step of the scope reads a signal or changes the latched one. *)
LEMMA FrozenStep ==
  ScopeInv /\ [ScopeNext]_scopeVars => (frozen => frozen' /\ first' = first /\ consumed' = consumed)
<1> SUFFICES ASSUME ScopeInv, [ScopeNext]_scopeVars, frozen
             PROVE  frozen' /\ first' = first /\ consumed' = consumed
  OBVIOUS
<1>1. CASE Observe \/ ObserveFails \/ Freeze \/ FreezeFails \/ BeginRestore
  BY <1>1, ReadLatches DEF ScopeInv, Observe, ObserveFails, Freeze, FreezeFails, BeginRestore
<1>2. CASE Setup
  BY <1>2 DEF Setup, NewFails, Block, Install, OpenSignalfd, SetupFails
<1>3. CASE RestoreSteps
  BY <1>3 DEF RestoreSteps, RestoreAction, RestoreActionFails, RestoreMask, KeepMask
<1>4. CASE SignalArrives \/ UNCHANGED scopeVars
  BY <1>4 DEF SignalArrives, scopeVars
<1> QED
  BY <1>1, <1>2, <1>3, <1>4 DEF ScopeNext

(* freeze is final: neither restore_parent nor Drop's retry reads another signal. *)
THEOREM FreezeIsFinal == ScopeSpec => FrozenIsFinal
BY FrozenStep, ScopeInvariant, PTL DEF ScopeSpec, FrozenIsFinal

HIDE DEF savedVars, attemptVars, factVars

-----------------------------------------------------------------------------
(* The record command *)

BeforeSpawn == {"setup", "probe", "gate", "begin", "metadata", "gate2", "start"}
BeforeRead == BeforeSpawn \cup {"length", "read"}
BeforeDecision == BeforeRead \cup {"freeze"}
Ended == {"drop", "done"}
Statements == BeforeDecision \cup {"finish", "restore"} \cup Ended

(* Type correctness of the workflow's own variables. *)
WorkTypeOK ==
  /\ limited \in SUBSET {"duration", "bytes"} /\ exceeded \in SUBSET {"duration", "bytes"}
  /\ at \in Statements
  /\ gate \in [state : {"Ready", "Cancelled", "Failed"}, error : BOOLEAN]
  /\ record \in {"none", "created", "running", "final"}
  /\ spawned \in BOOLEAN /\ producing \in BOOLEAN
  /\ lenUnverified \in BOOLEAN /\ supervisionError \in BOOLEAN
  /\ collector \in {NotStarted, Failed} \cup {Reaped(e) : e \in Exits \cup {Unknown}}
  /\ operation \in {"none", "ok", "error"}

(* What has not happened yet at each statement, and what has at the end. *)
Order ==
  /\ at \in BeforeRead => trace = EmptyTrace
  /\ at \in BeforeDecision => decision = Undecided /\ record # "final"
  /\ at = "finish" => decision # Undecided
  /\ at \in BeforeDecision \cup {"finish"} => operation = "none" /\ ~producing
  /\ at \notin Ended => exit = Running
  /\ operation = "ok" => decision # Undecided /\ record = "final"
  /\ producing => trace = EmptyTrace /\ record # "final"

(* A gate that saw an error or a signal is not Ready when the collector's turn
   comes, and its error becomes a supervision error. *)
Gated ==
  /\ gate.error => gate.state # "Ready"
  /\ at = "start" /\ gate.state = "Ready" => first = NoSignal
  /\ at \in {"start", "length", "read", "freeze"} => (gate.error => supervisionError)
  /\ lenUnverified => supervisionError /\ at \notin BeforeSpawn
  /\ collector.fact = "Reaped" => spawned

(* A trace shows something only if it was read to its end, and a target's exit or
   a limitation only if a collector was started. *)
TraceForm ==
  /\ trace \in [target : Exits \cup {NoExit, UnknownKill}, limitations : BOOLEAN,
                readError : BOOLEAN, parsed : BOOLEAN]
  /\ trace.target # NoExit \/ trace.limitations => spawned /\ trace.parsed /\ ~trace.readError

(* The facts a decision was reduced from, as the state still shows them. *)
SavedFacts ==
  [target |-> trace.target, limitations |-> trace.limitations,
   readError |-> trace.readError, collector |-> collector, exceeded |-> exceeded,
   recorder |-> first, supervisionError |-> supervisionError]

Decided ==
  decision # Undecided =>
    /\ frozen
    /\ decision = ReduceCaptureFacts(SavedFacts, NoSignal)
    /\ gate.error => supervisionError

(* An exit status other than 2 is the decision's, over a restored scope. *)
Exiting ==
  at \in Ended => exit = 2 \/ (operation = "ok" /\ restored /\ exit = decision.cliExit)

WorkInv == WorkTypeOK /\ Order /\ Gated /\ TraceForm /\ Decided /\ Exiting

USE SignalsAssumption
USE DEF BeforeSpawn, BeforeRead, BeforeDecision, Ended, Statements

-----------------------------------------------------------------------------
(* The signal scope inside the workflow *)

(* Every step of the record command is a step of its signal scope, or leaves it. *)
LEMMA ScopeSimulated == [Next]_vars => [ScopeNext]_scopeVars
<1> SUFFICES ASSUME [Next]_vars PROVE ScopeNext \/ UNCHANGED scopeVars
  OBVIOUS
<1>1. CASE SetUpSignals
  BY <1>1 DEF SetUpSignals, ScopeNext
<1>2. CASE ProbeCompletes \/ ProbeCancelled \/ ProbeFails
  BY <1>2 DEF ProbeCompletes, ProbeCancelled, ProbeFails, ScopeNext
<1>3. CASE GateAfterProbe \/ GateBeforeSpawn
  BY <1>3 DEF GateAfterProbe, GateBeforeSpawn, ObserveBeforeSpawn, ScopeNext
<1>4. CASE BeginRun \/ WriteMetadata \/ NotStartedByGate \/ ScheduleFails
  BY <1>4 DEF BeginRun, WriteMetadata, NotStartedByGate, ScheduleFails
<1>5. CASE CollectorReaped \/ CollectorFailed \/ CollectorUnquiesced
  BY <1>5 DEF CollectorReaped, CollectorFailed, CollectorUnquiesced, ScopeNext
<1>6. CASE FinalLength \/ ReadTrace \/ FinishRun \/ Report
  BY <1>6 DEF FinalLength, ReadTrace, FinishRun, Report
<1>7. CASE FreezeAndReduce
  BY <1>7 DEF FreezeAndReduce, ScopeNext
<1>8. CASE RestoreParent
  BY <1>8 DEF RestoreParent, ScopeNext
<1>9. CASE Arrival
  BY <1>9 DEF Arrival, ScopeNext
<1>10. CASE UNCHANGED vars
  BY <1>10 DEF vars
<1> QED
  BY <1>1, <1>2, <1>3, <1>4, <1>5, <1>6, <1>7, <1>8, <1>9, <1>10 DEF Next

(* The record command implements the signal scope: SignalScope's client may do
   anything, and record_owned does nothing else. *)
THEOREM WorkflowUsesScope == Spec => ScopeSpec
<1>1. Init => ScopeInit
  BY DEF Init
<1> QED
  BY <1>1, ScopeSimulated, PTL DEF Spec, ScopeSpec

(* The scope keeps its invariant inside the record command. *)
LEMMA ScopeHolds == Spec => []ScopeInv
BY WorkflowUsesScope, ScopeInvariant, PTL

(* Restoration is never taken back. *)
LEMMA RestoredStays == ASSUME [ScopeNext]_scopeVars, restored PROVE restored'
<1>1. CASE Setup
  BY <1>1 DEF Setup, NewFails, Block, Install, OpenSignalfd, SetupFails
<1>2. CASE Observe \/ ObserveFails \/ Freeze \/ FreezeFails \/ BeginRestore
  BY <1>2 DEF Observe, ObserveFails, Freeze, FreezeFails, BeginRestore
<1>3. CASE RestoreSteps
  BY <1>3 DEF RestoreSteps, RestoreAction, RestoreActionFails, RestoreMask, KeepMask, EndAttempt
<1>4. CASE SignalArrives \/ UNCHANGED scopeVars
  BY <1>4 DEF SignalArrives, scopeVars
<1> QED
  BY <1>1, <1>2, <1>3, <1>4 DEF ScopeNext

-----------------------------------------------------------------------------
(* The reduction *)

(* Every decision has one of three states, so that none looks undecided. *)
LEMMA ReductionDecides ==
  ASSUME NEW facts PROVE ReduceCaptureFacts(facts, NoSignal) # Undecided
<1>1. State(facts, NoSignal) # "none"
  BY DEF State
<1>2. ReduceCaptureFacts(facts, NoSignal).state = State(facts, NoSignal)
  BY DEF ReduceCaptureFacts
<1>3. Undecided.state = "none"
  BY DEF Undecided
<1> QED
  BY <1>1, <1>2, <1>3

-----------------------------------------------------------------------------
(* The inductive invariant *)

(* Nothing has happened when record_owned starts. *)
LEMMA WorkInvInit == Init => WorkInv
<1> SUFFICES ASSUME Init PROVE WorkInv
  OBVIOUS
<1>1. spawned \in BOOLEAN /\ producing \in BOOLEAN /\ lenUnverified \in BOOLEAN /\ supervisionError \in BOOLEAN
  BY DEF Init
<1>2. WorkTypeOK
  BY <1>1 DEF Init, WorkTypeOK
<1>3. Order
  BY DEF Init, Order
<1>4. Gated
  BY DEF Init, Gated, NotStarted
<1>5. TraceForm
  BY DEF Init, TraceForm, EmptyTrace
<1>6. Decided /\ Exiting
  BY DEF Init, Decided, Exiting
<1> QED
  BY <1>2, <1>3, <1>4, <1>5, <1>6 DEF WorkInv

(* Where no decision was made and no status is set, only types, order, gate and
   trace are at stake. *)
LEMMA UndecidedKeeps ==
  ASSUME WorkInv, decision = Undecided, decision' = decision, at' \notin Ended
  PROVE  Decided' /\ Exiting'
BY DEF Decided, Exiting

(* Signal setup opens the scope, or ends the command with status 2. *)
LEMMA SetUpKeeps == ASSUME WorkInv, SetUpSignals PROVE WorkInv'
<1> USE DEF SetUpSignals
<1>1. WorkTypeOK' /\ TraceForm'
  BY DEF WorkInv, WorkTypeOK, TraceForm
<1>2. Order'
  BY DEF WorkInv, Order
<1>3. Gated'
  BY DEF WorkInv, Gated
<1>4. Decided' /\ Exiting'
  BY DEF WorkInv, Order, Decided, Exiting
<1> QED
  BY <1>1, <1>2, <1>3, <1>4 DEF WorkInv

(* The probe lets the command go on, cancels it or fails it. *)
LEMMA ProbeKeeps ==
  ASSUME WorkInv, ProbeCompletes \/ ProbeCancelled \/ ProbeFails PROVE WorkInv'
<1> USE DEF ProbeCompletes, ProbeCancelled, ProbeFails, Return
<1>1. at = "probe" /\ decision = Undecided
  BY DEF WorkInv, Order
<1>2. WorkTypeOK' /\ TraceForm'
  <2>1. gate' \in [state : {"Ready", "Cancelled", "Failed"}, error : BOOLEAN]
    <3>1. CASE UNCHANGED gate
      BY <3>1 DEF WorkInv, WorkTypeOK
    <3>2. ASSUME NEW failed \in BOOLEAN, gate' = [state |-> "Cancelled", error |-> failed]
          PROVE  gate' \in [state : {"Ready", "Cancelled", "Failed"}, error : BOOLEAN]
      BY <3>2
    <3> QED
      BY <3>1, <3>2
  <2>2. TraceForm'
    BY DEF WorkInv, TraceForm
  <2> QED
    BY <2>1, <2>2 DEF WorkInv, WorkTypeOK
<1>3. Order'
  BY DEF WorkInv, Order
<1>4. Gated'
  BY DEF WorkInv, WorkTypeOK, Gated
<1>5. Decided' /\ Exiting'
  BY <1>1, UndecidedKeeps
<1> QED
  BY <1>2, <1>3, <1>4, <1>5 DEF WorkInv

(* observe_before_spawn closes the gate on a signal or an error. *)
LEMMA GateCloses ==
  ASSUME WorkInv, ObserveBeforeSpawn
  PROVE  /\ gate' \in [state : {"Ready", "Cancelled", "Failed"}, error : BOOLEAN]
         /\ gate'.error => gate'.state # "Ready"
         /\ gate'.state = "Ready" => first' = NoSignal
<1>1. CASE gate.error /\ UNCHANGED <<gate, scopeVars>>
  BY <1>1 DEF WorkInv, WorkTypeOK, Gated
<1>2. CASE ~gate.error /\ gate' = IF first' = NoSignal THEN gate ELSE [state |-> "Cancelled", error |-> FALSE]
  BY <1>2 DEF WorkInv, WorkTypeOK, Gated
<1>3. CASE ~gate.error
           /\ gate' = [state |-> IF gate.state = "Ready" THEN "Failed" ELSE gate.state, error |-> TRUE]
  BY <1>3 DEF WorkInv, WorkTypeOK, Gated
<1> QED
  BY <1>1, <1>2, <1>3 DEF ObserveBeforeSpawn

(* Both uses of the gate; the second turns its error into a supervision error. *)
LEMMA GateKeeps == ASSUME WorkInv, GateAfterProbe \/ GateBeforeSpawn PROVE WorkInv'
<1>1. /\ gate' \in [state : {"Ready", "Cancelled", "Failed"}, error : BOOLEAN]
      /\ gate'.error => gate'.state # "Ready"
      /\ gate'.state = "Ready" => first' = NoSignal
  BY GateCloses DEF GateAfterProbe, GateBeforeSpawn
<1>2. /\ at \in BeforeSpawn \ {"start"} /\ at' \in {"begin", "start"}
      /\ UNCHANGED <<limited, record, spawned, producing, collector, exceeded, lenUnverified,
                     trace, decision, operation, exit>>
  BY DEF GateAfterProbe, GateBeforeSpawn
<1>3. /\ supervisionError' \in BOOLEAN
      /\ at' = "start" => (gate'.error => supervisionError')
  BY <1>1 DEF GateAfterProbe, GateBeforeSpawn, WorkInv, WorkTypeOK
<1>4. ~lenUnverified
  BY <1>2 DEF WorkInv, Gated
<1>5. WorkTypeOK' /\ TraceForm'
  BY <1>1, <1>2, <1>3 DEF WorkInv, WorkTypeOK, TraceForm
<1>6. Order'
  BY <1>2 DEF WorkInv, Order
<1>7. Gated'
  BY <1>1, <1>2, <1>3, <1>4 DEF WorkInv, Gated
<1>8. Decided' /\ Exiting'
  BY <1>2, UndecidedKeeps DEF WorkInv, Order
<1> QED
  BY <1>5, <1>6, <1>7, <1>8 DEF WorkInv

(* begin_run and write_metadata create an unfinished record, or fail. *)
LEMMA BeginKeeps == ASSUME WorkInv, BeginRun \/ WriteMetadata PROVE WorkInv'
<1> USE DEF BeginRun, WriteMetadata, Return
<1>1. at \in BeforeSpawn \ {"start"} /\ decision = Undecided
  BY DEF WorkInv, Order
<1>2. WorkTypeOK' /\ TraceForm'
  BY DEF WorkInv, WorkTypeOK, TraceForm
<1>3. Order'
  BY DEF WorkInv, Order
<1>4. Gated'
  BY DEF WorkInv, Gated
<1>5. Decided' /\ Exiting'
  BY <1>1, UndecidedKeeps
<1> QED
  BY <1>2, <1>3, <1>4, <1>5 DEF WorkInv

-----------------------------------------------------------------------------
(* Formal capture *)

(* A closed gate starts nothing; a schedule that cannot be kept fails. *)
LEMMA NothingStartedKeeps == ASSUME WorkInv, NotStartedByGate \/ ScheduleFails PROVE WorkInv'
<1> USE DEF NotStartedByGate, ScheduleFails, Return
<1>1. at = "start" /\ decision = Undecided
  BY DEF WorkInv, Order
<1>2. WorkTypeOK' /\ TraceForm'
  BY DEF WorkInv, WorkTypeOK, TraceForm
<1>3. Order'
  BY DEF WorkInv, Order
<1>4. Gated'
  BY DEF WorkInv, Gated, NotStarted
<1>5. Decided' /\ Exiting'
  BY <1>1, UndecidedKeeps
<1> QED
  BY <1>2, <1>3, <1>4, <1>5 DEF WorkInv

(* A collector that is no more leaves a status or a failure. *)
LEMMA CollectorKeeps == ASSUME WorkInv, CollectorReaped \/ CollectorFailed PROVE WorkInv'
<1>1. /\ at = "start" /\ at' = "length" /\ decision = Undecided
      /\ UNCHANGED <<limited, gate, record, producing, trace, decision, operation, exit>>
  BY DEF CollectorReaped, CollectorFailed, WorkInv, Order
<1>2. /\ lenUnverified' \in BOOLEAN /\ spawned' \in BOOLEAN /\ supervisionError' \in BOOLEAN
      /\ supervisionError \/ lenUnverified' => supervisionError'
  BY DEF CollectorReaped, CollectorFailed, WorkInv, WorkTypeOK
<1>3. exceeded' \in SUBSET {"duration", "bytes"}
  BY DEF CollectorReaped, CollectorFailed, WorkInv, WorkTypeOK
<1>4. /\ collector' \in {NotStarted, Failed} \cup {Reaped(e) : e \in Exits \cup {Unknown}}
      /\ collector'.fact = "Reaped" => spawned'
  <2>1. CASE CollectorFailed
    BY <2>1 DEF CollectorFailed, Failed
  <2>2. CASE CollectorReaped
    BY <2>2 DEF CollectorReaped
  <2> QED
    BY <2>1, <2>2
<1>5. trace = EmptyTrace
  BY <1>1 DEF WorkInv, Order
<1>6. WorkTypeOK'
  BY <1>1, <1>2, <1>3, <1>4 DEF WorkInv, WorkTypeOK
<1>7. TraceForm'
  BY <1>1, <1>5 DEF TraceForm, EmptyTrace
<1>8. Order'
  BY <1>1 DEF WorkInv, Order
<1>9. Gated'
  BY <1>1, <1>2, <1>4 DEF WorkInv, Gated
<1>10. Decided' /\ Exiting'
  BY <1>1, UndecidedKeeps
<1> QED
  BY <1>6, <1>7, <1>8, <1>9, <1>10 DEF WorkInv

(* A collector that may still write ends the workflow before anything is read. *)
LEMMA UnquiescedKeeps == ASSUME WorkInv, CollectorUnquiesced PROVE WorkInv'
<1> USE DEF CollectorUnquiesced, Return
<1>1. at = "start" /\ decision = Undecided /\ trace = EmptyTrace
  BY DEF WorkInv, Order
<1>2. spawned' \in BOOLEAN /\ producing' \in BOOLEAN
  OBVIOUS
<1>3. WorkTypeOK'
  BY <1>2 DEF WorkInv, WorkTypeOK
<1>4. TraceForm'
  BY <1>1 DEF TraceForm, EmptyTrace
<1>5. Order' /\ Gated'
  BY <1>1 DEF WorkInv, Order, Gated
<1>6. Decided' /\ Exiting'
  BY <1>1, UndecidedKeeps
<1> QED
  BY <1>3, <1>4, <1>5, <1>6 DEF WorkInv

-----------------------------------------------------------------------------
(* Reading, deciding, finishing *)

(* The final length adds to the limits that were crossed, or stays unverified. *)
LEMMA FinalLengthKeeps == ASSUME WorkInv, FinalLength PROVE WorkInv'
<1>1. /\ at = "length" /\ at' = "read" /\ decision = Undecided
      /\ UNCHANGED <<scopeVars, limited, gate, record, spawned, producing, collector, trace, decision,
                     operation, exit>>
  BY DEF FinalLength, WorkInv, Order
<1>2. /\ lenUnverified' \in BOOLEAN /\ supervisionError' \in BOOLEAN
      /\ lenUnverified' => supervisionError'
      /\ supervisionError => supervisionError'
  BY DEF FinalLength, WorkInv, WorkTypeOK, Gated
<1>3. exceeded' \in SUBSET {"duration", "bytes"}
  BY DEF FinalLength, WorkInv, WorkTypeOK
<1>4. WorkTypeOK' /\ TraceForm'
  BY <1>1, <1>2, <1>3 DEF WorkInv, WorkTypeOK, TraceForm
<1>5. Order'
  BY <1>1 DEF WorkInv, Order
<1>6. Gated'
  BY <1>1, <1>2 DEF WorkInv, Gated
<1>7. Decided' /\ Exiting'
  BY <1>1, UndecidedKeeps
<1> QED
  BY <1>4, <1>5, <1>6, <1>7 DEF WorkInv

(* A trace is read to its end, or nothing of it is kept. *)
LEMMA ReadTraceKeeps == ASSUME WorkInv, ReadTrace PROVE WorkInv'
<1>1. /\ at = "read" /\ at' = "freeze" /\ decision = Undecided
      /\ UNCHANGED <<scopeVars, limited, gate, record, spawned, producing, collector, exceeded,
                     lenUnverified, supervisionError, decision, operation, exit>>
  BY DEF ReadTrace, WorkInv, Order
<1>2. TraceForm'
  <2>1. trace' \in {EmptyTrace, [EmptyTrace EXCEPT !.readError = TRUE, !.parsed = TRUE]} \cup Traces
    BY DEF ReadTrace
  <2>2. CASE trace' = EmptyTrace
    BY <2>2 DEF TraceForm, EmptyTrace
  <2>3. CASE trace' = [EmptyTrace EXCEPT !.readError = TRUE, !.parsed = TRUE]
    <3>1. trace' = [target |-> NoExit, limitations |-> FALSE, readError |-> TRUE, parsed |-> TRUE]
      BY <2>3 DEF EmptyTrace
    <3> QED
      BY <3>1 DEF TraceForm
  <2>4. CASE trace' \in Traces
    BY <1>1, <2>4 DEF TraceForm, Traces
  <2> QED
    BY <2>1, <2>2, <2>3, <2>4
<1>3. WorkTypeOK'
  BY <1>1 DEF WorkInv, WorkTypeOK
<1>4. Order'
  BY <1>1 DEF WorkInv, Order
<1>5. Gated'
  BY <1>1 DEF WorkInv, Gated
<1>6. Decided' /\ Exiting'
  BY <1>1, UndecidedKeeps
<1> QED
  BY <1>2, <1>3, <1>4, <1>5, <1>6 DEF WorkInv

(* The decision is the reduction of the facts as they then stay. *)
LEMMA ReduceKeeps == ASSUME WorkInv, FreezeAndReduce PROVE WorkInv'
<1>1. /\ at = "freeze" /\ at' = "finish"
      /\ UNCHANGED <<limited, gate, record, spawned, producing, collector, exceeded, lenUnverified,
                     trace, operation, exit>>
      /\ decision' = ReduceCaptureFacts(Facts, NoSignal)
  BY DEF FreezeAndReduce
<1>2. frozen' = TRUE
  BY DEF FreezeAndReduce, Freeze, FreezeFails
<1>3. supervisionError' \in BOOLEAN /\ (supervisionError => supervisionError')
  BY DEF FreezeAndReduce, WorkInv, WorkTypeOK
<1>4. Facts = SavedFacts'
  BY <1>1 DEF Facts, SavedFacts
<1>5. decision' # Undecided
  BY <1>1, ReductionDecides
<1>6. Decided'
  BY <1>1, <1>2, <1>3, <1>4 DEF WorkInv, Gated, Decided
<1>7. WorkTypeOK' /\ TraceForm'
  BY <1>1, <1>3 DEF WorkInv, WorkTypeOK, TraceForm
<1>8. Order'
  BY <1>1, <1>5 DEF WorkInv, Order
<1>9. Gated'
  BY <1>1, <1>3 DEF WorkInv, Gated
<1>10. Exiting'
  BY <1>1 DEF Exiting
<1> QED
  BY <1>6, <1>7, <1>8, <1>9, <1>10 DEF WorkInv

(* A decision stays the reduction of what the state shows while its facts do. *)
LEMMA DecisionKept ==
  ASSUME WorkInv, ScopeInv, [ScopeNext]_scopeVars,
         UNCHANGED <<gate, trace, collector, exceeded, supervisionError, decision>>
  PROVE  Decided'
<1>1. decision # Undecided => frozen' /\ first' = first
  BY FrozenStep DEF WorkInv, Decided
<1> QED
  BY <1>1 DEF WorkInv, Decided, SavedFacts

(* finish publishes the decision or reports an error. *)
LEMMA FinishKeeps ==
  ASSUME WorkInv, ScopeInv, [ScopeNext]_scopeVars, FinishRun PROVE WorkInv'
<1> USE DEF FinishRun, Return
<1>1. Decided'
  BY DecisionKept
<1>2. WorkTypeOK' /\ TraceForm'
  BY DEF WorkInv, WorkTypeOK, TraceForm
<1>3. Order'
  BY DEF WorkInv, Order
<1>4. Gated' /\ Exiting'
  BY DEF WorkInv, Gated, Exiting
<1> QED
  BY <1>1, <1>2, <1>3, <1>4 DEF WorkInv

(* Restoration changes no fact and no status. *)
LEMMA RestoreParentKeeps ==
  ASSUME WorkInv, ScopeInv, [ScopeNext]_scopeVars, RestoreParent PROVE WorkInv'
<1> USE DEF RestoreParent
<1>1. Decided'
  BY DecisionKept
<1>2. WorkTypeOK' /\ TraceForm'
  BY DEF WorkInv, WorkTypeOK, TraceForm
<1>3. Order' /\ Gated'
  BY DEF WorkInv, Order, Gated
<1>4. Exiting'
  BY RestoredStays DEF WorkInv, Exiting
<1> QED
  BY <1>1, <1>2, <1>3, <1>4 DEF WorkInv

(* The status is chosen when the explicit restoration is over. *)
LEMMA ReportKeeps ==
  ASSUME WorkInv, ScopeInv, [ScopeNext]_scopeVars, Report PROVE WorkInv'
<1> USE DEF Report
<1>1. Decided'
  BY DecisionKept
<1>2. WorkTypeOK' /\ TraceForm'
  BY DEF WorkInv, WorkTypeOK, TraceForm
<1>3. Order' /\ Gated'
  BY DEF WorkInv, Order, Gated
<1>4. Exiting'
  BY DEF scopeVars, Statuses, Exiting
<1> QED
  BY <1>1, <1>2, <1>3, <1>4 DEF WorkInv

(* A signal's arrival, or no step at all. *)
LEMMA IdleKeeps ==
  ASSUME WorkInv, ScopeInv, [ScopeNext]_scopeVars, first' = first, UNCHANGED workflowVars PROVE WorkInv'
<1> USE DEF workflowVars
<1>1. Decided'
  BY DecisionKept
<1>2. WorkTypeOK' /\ TraceForm'
  BY DEF WorkInv, WorkTypeOK, TraceForm
<1>3. Order' /\ Gated'
  BY DEF WorkInv, Order, Gated
<1>4. Exiting'
  BY RestoredStays DEF WorkInv, Exiting
<1> QED
  BY <1>1, <1>2, <1>3, <1>4 DEF WorkInv

(* Every statement of record_owned, and every arrival, keeps the invariant. *)
LEMMA WorkStep == WorkInv /\ ScopeInv /\ [Next]_vars => WorkInv'
<1> SUFFICES ASSUME WorkInv, ScopeInv, [Next]_vars PROVE WorkInv'
  OBVIOUS
<1>1. [ScopeNext]_scopeVars
  BY ScopeSimulated
<1>2. CASE Arrival \/ UNCHANGED vars
  <2>1. first' = first /\ UNCHANGED workflowVars
    BY <1>2 DEF Arrival, SignalArrives, vars, scopeVars, factVars
  <2> QED
    BY <1>1, <2>1, IdleKeeps
<1>3. CASE FinishRun \/ RestoreParent \/ Report
  BY <1>1, <1>3, FinishKeeps, RestoreParentKeeps, ReportKeeps
<1> QED
  BY <1>2, <1>3, SetUpKeeps, ProbeKeeps, GateKeeps, BeginKeeps, NothingStartedKeeps, CollectorKeeps,
     UnquiescedKeeps, FinalLengthKeeps, ReadTraceKeeps, ReduceKeeps DEF Next

(* The invariant holds throughout the record command. *)
THEOREM WorkflowInvariant == Spec => [](WorkInv /\ ScopeInv)
<1>1. Init /\ [][Next]_vars /\ []ScopeInv => []WorkInv
  BY WorkInvInit, WorkStep, PTL
<1> QED
  BY <1>1, ScopeHolds, PTL DEF Spec

-----------------------------------------------------------------------------
(* What a decision says about its facts *)

(* A decision's fields, spelled out. *)
LEMMA DecisionFields ==
  ASSUME WorkInv, decision # Undecided
  PROVE  /\ decision.state = State(SavedFacts, NoSignal)
         /\ decision.completeness = Completeness(SavedFacts, NoSignal)
         /\ decision.warned = HasWarnings(SavedFacts)
         /\ decision.recorder = first
         /\ decision.cliExit = CliExit(SavedFacts, NoSignal)
<1>1. decision = ReduceCaptureFacts(SavedFacts, NoSignal)
  BY DEF WorkInv, Decided
<1>2. SavedFacts.recorder = first
  BY DEF SavedFacts
<1> QED
  BY <1>1, <1>2 DEF ReduceCaptureFacts

(* CaptureFailed over the saved facts. *)
LEMMA FailureFacts ==
  ASSUME WorkInv
  PROVE  CaptureFailed(SavedFacts) <=>
           \/ trace.target = NoExit
           \/ collector.fact # "Reaped"
           \/ CollectorDoubtful(collector, trace.target)
           \/ exceeded # {} \/ supervisionError
BY DEF CaptureFailed, SavedFacts

(* HasWarnings over the saved facts. *)
LEMMA WarningFacts ==
  ASSUME WorkInv
  PROVE  HasWarnings(SavedFacts) <=>
           \/ trace.limitations \/ trace.readError
           \/ trace.target \in {NoExit, UnknownKill}
           \/ CollectorDoubtful(collector, trace.target)
           \/ collector.fact # "Reaped"
           \/ exceeded # {} \/ supervisionError
BY DEF HasWarnings, SavedFacts

(* The collector of a capture that did not fail was started, has a known status,
   and agrees with a known target exit. *)
LEMMA CollectorAgrees ==
  ASSUME WorkInv, collector.fact = "Reaped", ~CollectorDoubtful(collector, trace.target)
  PROVE  /\ spawned /\ collector.exit \in Exits
         /\ HasStatus(trace.target) => collector.exit = trace.target
<1>1. PICK e \in Exits \cup {Unknown} : collector = Reaped(e)
  BY DEF WorkInv, WorkTypeOK, NotStarted, Failed
<1>2. collector.exit = e
  BY <1>1 DEF Reaped
<1>3. e # Unknown
  BY <1>2 DEF CollectorDoubtful, Unknown
<1> QED
  BY <1>1, <1>2, <1>3 DEF CollectorDoubtful, Contradicts, WorkInv, Gated

(* A completed state excludes a signal and every failure. *)
LEMMA CompletedFacts ==
  ASSUME WorkInv, decision # Undecided, decision.state = "completed"
  PROVE  first = NoSignal /\ ~CaptureFailed(SavedFacts)
<1>1. SavedFacts.recorder = first
  BY DEF SavedFacts
<1> QED
  BY <1>1, DecisionFields DEF State

-----------------------------------------------------------------------------
(* Theorems *)

(* A record saved as completed was earned, for any exit codes and signals. *)
THEOREM CompletedRecordsAreEarned == Spec => []CompletedIsEarned
<1>1. WorkInv /\ ScopeInv => CompletedIsEarned
  <2> SUFFICES ASSUME WorkInv, ScopeInv, record = "final", decision.state = "completed"
               PROVE  /\ spawned /\ collector.fact = "Reaped" /\ collector.exit \in Exits
                      /\ trace.target # NoExit
                      /\ HasStatus(trace.target) => collector.exit = trace.target
                      /\ exceeded = {} /\ ~lenUnverified /\ ~gate.error
                      /\ consumed = {}
    BY DEF CompletedIsEarned
  <2>1. decision # Undecided
    BY DEF Undecided
  <2>2. first = NoSignal /\ ~CaptureFailed(SavedFacts)
    BY <2>1, CompletedFacts
  <2>3. /\ trace.target # NoExit /\ collector.fact = "Reaped" /\ exceeded = {} /\ ~supervisionError
        /\ ~CollectorDoubtful(collector, trace.target)
    BY <2>2, FailureFacts
  <2>4. ~lenUnverified /\ ~gate.error
    BY <2>1, <2>3 DEF WorkInv, Gated, Decided
  <2>5. consumed = {}
    BY <2>2 DEF ScopeInv, ConsumedIsLatched
  <2> QED
    BY <2>3, <2>4, <2>5, CollectorAgrees
<1> QED
  BY <1>1, WorkflowInvariant, PTL

(* Nothing is parsed or finalized while a collector may still be writing. *)
THEOREM NothingIsCommittedWhileProducing == Spec => []NoCommitWhileProducing
<1>1. WorkInv => NoCommitWhileProducing
  BY DEF WorkInv, Order, NoCommitWhileProducing, EmptyTrace
<1> QED
  BY <1>1, WorkflowInvariant, PTL

(* A control signal read before the decision shows in the record and the status,
   or the command fails. *)
THEOREM SignalsAreNotSwallowed == Spec => []NoSignalSwallowed
<1>1. WorkInv /\ ScopeInv => NoSignalSwallowed
  <2> SUFFICES ASSUME WorkInv, ScopeInv, at = "done", consumed # {}, exit # 2
               PROVE  exit = 128 + first /\ decision.state = "interrupted"
    BY DEF NoSignalSwallowed
  <2>1. operation = "ok" /\ exit = decision.cliExit
    BY DEF WorkInv, Exiting
  <2>2. decision # Undecided
    BY <2>1 DEF WorkInv, Order
  <2>3. first # NoSignal /\ SavedFacts.recorder = first
    BY DEF ScopeInv, ConsumedIsLatched, SavedFacts
  <2> QED
    BY <2>1, <2>2, <2>3, DecisionFields DEF State, CliExit
<1> QED
  BY <1>1, WorkflowInvariant, PTL

(* Status 0 stands for a committed, completed record and restored signals. *)
THEOREM ZeroIsCompleted == Spec => []ZeroMeansCompleted
<1>1. WorkInv /\ ScopeInv => ZeroMeansCompleted
  <2> SUFFICES ASSUME WorkInv, ScopeInv, exit = 0
               PROVE  /\ record = "final" /\ decision.state = "completed"
                      /\ installed = {} /\ ~masked
    BY DEF ZeroMeansCompleted
  <2>1. at \in Ended
    BY DEF WorkInv, Order, Running
  <2>2. operation = "ok" /\ restored /\ decision.cliExit = 0
    BY <2>1 DEF WorkInv, Exiting
  <2>3. decision # Undecided /\ record = "final"
    BY <2>2 DEF WorkInv, Order
  <2>4. SavedFacts.recorder = first /\ first \in Signals \cup {NoSignal}
    BY DEF SavedFacts, ScopeInv, ScopeTypeOK
  <2>5. first = NoSignal
    BY <2>2, <2>3, <2>4, DecisionFields DEF CliExit
  <2>6. decision.state = "completed"
    BY <2>2, <2>3, <2>4, <2>5, DecisionFields DEF CliExit, State
  <2> QED
    BY <2>2, <2>3, <2>6 DEF ScopeInv, Undone
<1> QED
  BY <1>1, WorkflowInvariant, PTL

(* No target starts once a signal was read or an observation failed. *)
THEOREM StopsPreventStarts == Spec => NoStartAfterStop
<1>1. WorkInv /\ ScopeInv /\ [Next]_vars => (~spawned /\ spawned' => consumed = {} /\ ~gate.error)
  <2> SUFFICES ASSUME WorkInv, ScopeInv, [Next]_vars, ~spawned, spawned'
               PROVE  consumed = {} /\ ~gate.error
    OBVIOUS
  <2>1. CASE at = "start" /\ gate.state = "Ready"
    BY <2>1 DEF WorkInv, Gated, ScopeInv, ConsumedIsLatched
  <2>2. CASE UNCHANGED spawned
    BY <2>2
  <2> QED
    BY <2>1, <2>2 DEF Next, vars, workflowVars, SetUpSignals, ProbeCompletes, ProbeCancelled, ProbeFails,
       GateAfterProbe, BeginRun, WriteMetadata, GateBeforeSpawn, NotStartedByGate, CollectorReaped,
       CollectorFailed, CollectorUnquiesced, ScheduleFails, FinalLength, ReadTrace, FreezeAndReduce,
       FinishRun, RestoreParent, Report, Arrival
<1> QED
  BY <1>1, WorkflowInvariant, PTL DEF Spec, NoStartAfterStop

(* Once reduced, the decision and the signal it names stay as they are. *)
THEOREM DecisionsAreFinal == Spec => DecisionIsFinal
<1>1. WorkInv /\ ScopeInv /\ [Next]_vars =>
        (decision # Undecided => /\ decision' = decision /\ consumed' = consumed
                                 /\ decision.recorder = first')
  <2> SUFFICES ASSUME WorkInv, ScopeInv, [Next]_vars, decision # Undecided
               PROVE  decision' = decision /\ consumed' = consumed /\ decision.recorder = first'
    OBVIOUS
  <2>1. first' = first /\ consumed' = consumed
    BY ScopeSimulated, FrozenStep DEF WorkInv, Decided
  <2>2. decision.recorder = first
    BY DecisionFields
  <2>3. at # "freeze"
    BY DEF WorkInv, Order
  <2>4. decision' = decision
    BY <2>3 DEF Next, vars, workflowVars, SetUpSignals, ProbeCompletes, ProbeCancelled, ProbeFails,
       GateAfterProbe, BeginRun, WriteMetadata, GateBeforeSpawn, NotStartedByGate, CollectorReaped,
       CollectorFailed, CollectorUnquiesced, ScheduleFails, FinalLength, ReadTrace, FreezeAndReduce,
       FinishRun, RestoreParent, Report, Arrival
  <2> QED
    BY <2>1, <2>2, <2>4
<1> QED
  BY <1>1, WorkflowInvariant, PTL DEF Spec, DecisionIsFinal

-----------------------------------------------------------------------------
(* finish accepts every decision *)

(* The numbers of exits the recorder can see are in range. *)
LEMMA ExitsInRange ==
  ASSUME NEW e \in Exits \cup {NoExit, Unknown, UnknownKill}
  PROVE  /\ InRange(MetadataFields(e))
         /\ e \in Exits => HasStatus(e) /\ e # NoExit
         /\ e \notin Exits => ~HasStatus(e)
<1>1. CASE e \in {NoExit, Unknown, UnknownKill}
  <2>1. ~HasStatus(e)
    BY <1>1 DEF NoExit, Unknown, UnknownKill, HasStatus
  <2>2. e \notin Exits
    BY <1>1, <2>1 DEF Exits, HasStatus, Exited, Signaled
  <2> QED
    BY <2>1, <2>2 DEF MetadataFields, InRange, NoExit
<1>2. ASSUME NEW c \in ExitCodes, e = Exited(c)
      PROVE  InRange(e) /\ HasStatus(e) /\ e # NoExit
  BY <1>2, ExitsAssumption DEF InRange, HasStatus, Exited, NoExit
<1>3. ASSUME NEW s \in KillSignals, e = Signaled(s)
      PROVE  InRange(e) /\ HasStatus(e) /\ e # NoExit
  BY <1>3, ExitsAssumption DEF InRange, HasStatus, Signaled, NoExit
<1>4. CASE e \in Exits
  BY <1>2, <1>3, <1>4 DEF Exits, MetadataFields
<1> QED
  BY <1>1, <1>4

(* The collector's exit is one of those. *)
LEMMA CollectorExit ==
  ASSUME WorkInv
  PROVE  /\ collector.exit \in Exits \cup {NoExit, Unknown}
         /\ collector.fact = "Reaped" => collector.exit \in Exits \cup {Unknown}
<1>1. CASE collector \in {NotStarted, Failed}
  BY <1>1 DEF NotStarted, Failed
<1>2. ASSUME NEW e \in Exits \cup {Unknown}, collector = Reaped(e)
      PROVE  collector.exit \in Exits \cup {Unknown}
  BY <1>2 DEF Reaped
<1> QED
  BY <1>1, <1>2 DEF WorkInv, WorkTypeOK

(* State and completeness are one of the combinations the contract knows, and a
   known target of a completed run is the collector's own status. *)
LEMMA DecisionValid ==
  ASSUME WorkInv, decision # Undecided
  PROVE  /\ \/ /\ decision.state = "completed" /\ decision.completeness \in {"complete", "partial"}
               /\ trace.target # NoExit /\ MetadataFields(collector.exit) # NoExit
               /\ decision.completeness = "partial" => decision.warned
            \/ decision.state = "capture_failed" /\ decision.completeness = "incomplete" /\ decision.warned
            \/ decision.state = "interrupted" /\ decision.completeness = "incomplete"
         /\ decision.completeness = "complete" => ~decision.warned /\ ~trace.limitations
         /\ decision.completeness = "complete" => HasStatus(trace.target)
         /\ decision.state = "completed" /\ HasStatus(trace.target) => collector.exit = trace.target
<1>1. SavedFacts.recorder = first
  BY DEF SavedFacts
<1>2. CASE first # NoSignal
  BY <1>1, <1>2, DecisionFields DEF State, Completeness
<1>3. CASE first = NoSignal /\ CaptureFailed(SavedFacts)
  <2>1. HasWarnings(SavedFacts)
    BY <1>3, FailureFacts, WarningFacts
  <2> QED
    BY <1>1, <1>3, <2>1, DecisionFields DEF State, Completeness
<1>4. CASE first = NoSignal /\ ~CaptureFailed(SavedFacts)
  <2>1. decision.state = "completed" /\ State(SavedFacts, NoSignal) = "completed"
    BY <1>1, <1>4, DecisionFields DEF State
  <2>2. /\ decision.completeness = IF HasWarnings(SavedFacts) THEN "partial" ELSE "complete"
        /\ decision.warned = HasWarnings(SavedFacts)
    BY <2>1, DecisionFields DEF Completeness
  <2>3. /\ trace.target # NoExit /\ collector.fact = "Reaped"
        /\ ~CollectorDoubtful(collector, trace.target)
    BY <1>4, FailureFacts
  <2>4. collector.exit \in Exits /\ (HasStatus(trace.target) => collector.exit = trace.target)
    BY <2>3, CollectorAgrees
  <2>5. MetadataFields(collector.exit) # NoExit
    BY <2>4, ExitsInRange DEF MetadataFields
  <2>6. ~HasWarnings(SavedFacts) => ~trace.limitations /\ HasStatus(trace.target)
    <3>1. ~HasWarnings(SavedFacts) => ~trace.limitations /\ trace.target \notin {NoExit, UnknownKill}
      BY WarningFacts
    <3>2. trace.target \in Exits \cup {NoExit, UnknownKill}
      BY DEF WorkInv, TraceForm
    <3> QED
      BY <3>1, <3>2, ExitsInRange
  <2> QED
    BY <2>1, <2>2, <2>3, <2>4, <2>5, <2>6
<1> QED
  BY <1>2, <1>3, <1>4

(* A decision about a trace without target exit is never complete or partial. *)
LEMMA NoTargetIsIncomplete ==
  ASSUME WorkInv, decision # Undecided, trace.target = NoExit
  PROVE  decision.completeness = "incomplete"
BY DecisionValid

(* finish refuses no decision: every combination of signals, limits, collector
   failures and trace findings satisfies the contract of either schema. *)
THEOREM FinishAcceptsEveryDecision == Spec => []FinishIsAccepted
<1>1. ASSUME WorkInv, at = "finish", NEW schema \in {3, 4}, NEW size \in Sizes,
             NEW flawed \in IF trace.limitations THEN BOOLEAN ELSE {FALSE}
      PROVE  /\ ValidateRunFacts(FinalMetadata(schema, size),
                                 EventFacts(size, schema - 1, size, flawed, flawed), TRUE)
             /\ schema = 4 => ValidateRawManifest(Receipt(size), FinalMetadata(schema, size))
  <2> DEFINE m == FinalMetadata(schema, size)
             t == trace.target
  <2>1. decision # Undecided
    BY <1>1 DEF WorkInv, Order
  <2>2. t \in Exits \cup {NoExit, UnknownKill} /\ trace.limitations \in BOOLEAN
    BY <1>1 DEF WorkInv, TraceForm
  <2>3. /\ m.schema = schema /\ m.state = decision.state /\ m.completeness = decision.completeness
        /\ m.ended /\ m.raw = t /\ m.target = MetadataFields(t)
        /\ m.collector = MetadataFields(collector.exit)
        /\ m.provenance <=> (schema = 4 /\ t # NoExit)
        /\ m.warned <=> decision.warned
        /\ m.events = size /\ m.lines = size
    BY DEF FinalMetadata
  <2>4. size \in {0, 1, 2} /\ (t # NoExit => size = 2)
    BY <1>1 DEF Sizes
  <2>5. MetadataFields(t) # NoExit <=> HasStatus(t)
    BY <2>2, ExitsInRange DEF MetadataFields
  <2>6. EvidenceValid(m)
    BY <2>3, <2>4 DEF EvidenceValid
  <2>7. InRange(m.target) /\ InRange(m.collector)
    BY <1>1, <2>2, <2>3, CollectorExit, ExitsInRange
  <2>8. StateValid(m)
    BY <1>1, <2>1, <2>3, DecisionValid DEF StateValid
  <2>9. OutcomeValid(m)
    <3>1. m.target # NoExit => HasStatus(t) /\ m.raw # NoExit
      BY <2>3, <2>5 DEF HasStatus, NoExit
    <3>2. m.completeness = "complete" => ~m.warned /\ HasStatus(t) /\ m.state = "completed"
      BY <1>1, <2>1, <2>3, DecisionValid
    <3>3. m.state = "completed" /\ HasStatus(t) => m.target = t /\ m.collector = t /\ m.target # NoExit
      BY <1>1, <2>1, <2>3, <2>5, DecisionValid DEF MetadataFields
    <3> QED
      BY <3>1, <3>2, <3>3 DEF OutcomeValid
  <2>10. m.state # "running" /\ (m.completeness = "complete" => ~flawed)
    BY <1>1, <2>1, <2>2, <2>3, DecisionValid
  <2>11. ValidateRunFacts(m, EventFacts(size, schema - 1, size, flawed, flawed), TRUE)
    BY <2>3, <2>4, <2>6, <2>7, <2>8, <2>9, <2>10
       DEF ValidateRunFacts, ValidateMetadata, EventFacts, TupleValid
  <2>12. ASSUME schema = 4 PROVE ValidateRawManifest(Receipt(size), m)
    <3>1. CASE trace.parsed /\ ~trace.readError
      BY <2>3, <2>4, <2>12, <3>1 DEF ValidateRawManifest, Receipt, ParsedReceipt
    <3>2. CASE ~(trace.parsed /\ ~trace.readError)
      <4>1. t = NoExit /\ ~trace.limitations
        BY <1>1, <3>2 DEF WorkInv, TraceForm
      <4>2. size = 0
        BY <1>1, <3>2, <4>1 DEF Sizes
      <4> QED
        BY <1>1, <2>1, <2>3, <2>12, <3>2, <4>1, <4>2, NoTargetIsIncomplete
           DEF ValidateRawManifest, Receipt, Unverified
    <3> QED
      BY <3>1, <3>2
  <2> QED
    BY <2>11, <2>12
<1>2. WorkInv => FinishIsAccepted
  BY <1>1 DEF FinishIsAccepted
<1> QED
  BY <1>2, WorkflowInvariant, PTL

=============================================================================

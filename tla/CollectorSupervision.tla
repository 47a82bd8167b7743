------------------------- MODULE CollectorSupervision -------------------------
(***************************************************************************)
(* The formal collector (strace) under supervision, from                   *)
(* src/capture/supervision.rs: capture_collector, CollectorGuard and       *)
(* supervise_collector.  One single-threaded supervisor interleaves with   *)
(* the kernel: the child it forked, the control signals sent to it, the    *)
(* growth of the trace and the passing of time.                            *)
(*                                                                         *)
(* Time is abstracted to the deadlines the code computes: each is unset,   *)
(* running, or due.  A deadline never becomes "not due" again.             *)
(***************************************************************************)
EXTENDS Naturals, Sequences

CONSTANTS
  Signals,          \* control signals the recorder watches (HUP, INT, TERM)
  NoSignal,         \* first_observed = None
  TraceLimit,       \* max_trace_bytes, when that limit is configured
  MaxLen,           \* bound on the length the trace file may reach
  ExclusiveReaper   \* SIGCHLD is SIG_DFL and nobody else waits for the child

ASSUME SignalsAssumption == NoSignal \notin Signals
ASSUME LengthAssumption  == TraceLimit \in Nat /\ MaxLen \in Nat
ASSUME ReaperAssumption  == ExclusiveReaper \in BOOLEAN

VARIABLES
  \* configuration, fixed when the recorder starts
  limited,       \* subset of {"duration", "bytes"}: configured capture limits
  direct,        \* control signals the child inherits blocked or ignored
  \* the supervisor
  pc,            \* next statement
  ownership,     \* ChildOwnership of the guard, "None" before the fork
  pidfd,         \* whom the guard's pidfd names: "none", "child", "stranger"
  handshakeOpen, \* exec_error is still Some
  first,         \* first_observed of the signal scope
  handled,       \* recorder_signal_handled
  deadline,      \* termination_deadline
  exceeded,      \* CaptureLimitFacts: limits latched as exceeded
  newly,         \* newly_exceeded of this iteration
  ready,         \* collector_ready
  cleanup,       \* which guard operation consumes the authority
  killError,     \* terminate() reported an error
  lenError,      \* trace_len_error is Some
  budget,        \* the 5-second reap budget of the current wait
  result,        \* what capture_collector returned
  \* the kernel's side
  child,         \* the forked process
  pipe,          \* the exec-error handshake pipe, as its reader will see it
  reused,        \* the child's PID has been given to another process
  pending,       \* control signals pending on the signalfd
  len,           \* bytes in the trace file
  durationDue,   \* the capture duration has elapsed
  \* history
  requests,      \* termination requests delivered, in order
  hit,           \* kinds of process a signal was delivered to
  atReady        \* what was observable when poll reported the child ready

config   == <<limited, direct>>
loopVars == <<handled, deadline, newly, ready>>
guardVars == <<ownership, pidfd, handshakeOpen>>
endVars  == <<cleanup, killError, lenError, budget, result>>
history  == <<requests, hit, atReady>>
kernel   == <<child, pipe, reused, pending, len, durationDue>>
vars == <<config, pc, guardVars, first, exceeded, loopVars, endVars, kernel, history>>

Limits    == {"duration", "bytes"}
Alive     == {"setup", "running"}
Unreaped  == Alive \cup {"zombie"}
LoopPcs   == {"observe", "limits", "signal", "term", "ready", "grace", "poll", "handshake"}
CleanupPcs == {"wait", "kill", "reap"}

-----------------------------------------------------------------------------
(* Initial state: capture_collector has been called. *)

Init ==
  /\ limited \in SUBSET Limits
  /\ direct \in SUBSET Signals
  /\ pc = "schedule" /\ ownership = "None" /\ pidfd = "none" /\ handshakeOpen = FALSE
  /\ first = NoSignal /\ handled = FALSE /\ deadline = "unset"
  /\ exceeded = {} /\ newly = FALSE /\ ready = FALSE
  /\ cleanup = "none" /\ killError = FALSE /\ lenError = FALSE
  /\ budget = "unset" /\ result = "none"
  /\ child = "absent" /\ pipe = "open" /\ reused = FALSE
  /\ pending = {} /\ len = 0 /\ durationDue = FALSE
  /\ requests = <<>> /\ hit = {}
  /\ atReady = [signal |-> FALSE, duration |-> FALSE]

(***************************************************************************)
(* Entering the guard's consuming operations.  finish waits first; abort   *)
(* and cancel go straight to KILL.                                         *)
(***************************************************************************)
Consume(operation) ==
  /\ cleanup' = operation
  /\ pc' = IF operation = "finish" THEN "wait" ELSE "kill"
  /\ budget' = IF operation = "finish" THEN "running" ELSE budget

(* capture_collector's result is fixed; the guard, if any, is then dropped. *)
Return(outcome) ==
  /\ pc' = "drop"
  /\ result' = outcome

(* revoke_unquiesced: authority is given up unless the child was reaped. *)
RevokeUnquiesced ==
  /\ ownership' = "Abandoned"
  /\ Return("unquiesced")

-----------------------------------------------------------------------------
(* Launch *)

(* CaptureSchedule::before_spawn: a deadline the clock cannot represent is a
   tool error, before any child exists. *)
BeforeSpawn ==
  /\ pc = "schedule"
  /\ \/ pc' = "fork" /\ result' = result
     \/ Return("tool_error")
  /\ UNCHANGED <<config, guardVars, first, exceeded, loopVars, cleanup, killError,
                 lenError, budget, kernel, history>>

(* ChildWaitability, admission, pipe creation or fork failed: a Failed fact. *)
SpawnFails ==
  /\ pc = "fork"
  /\ Return("failed")
  /\ UNCHANGED <<config, guardVars, first, exceeded, loopVars, cleanup, killError,
                 lenError, budget, kernel, history>>

Fork ==
  /\ pc = "fork"
  /\ child' = "setup"
  /\ ownership' = "Waitable"
  /\ handshakeOpen' = TRUE
  /\ pc' = "attach"
  /\ UNCHANGED <<config, pidfd, first, exceeded, loopVars, endVars, pipe, reused,
                 pending, len, durationDue, history>>

(* attach_owned: pidfd_open names whichever process has the PID now. *)
Attach ==
  /\ pc = "attach"
  /\ child = "stolen" => reused
  /\ pidfd' = IF child = "stolen" THEN "stranger" ELSE "child"
  /\ pc' = "observe"
  /\ UNCHANGED <<config, ownership, handshakeOpen, first, exceeded, loopVars, endVars,
                 kernel, history>>

(* pidfd_open fails with ESRCH: the PID is not ours, nothing may be signalled. *)
AttachDisowned ==
  /\ pc = "attach"
  /\ child = "stolen" /\ ~reused
  /\ ownership' = "Lost"
  /\ Consume("abort")
  /\ UNCHANGED <<config, pidfd, handshakeOpen, first, exceeded, loopVars, killError,
                 lenError, result, kernel, history>>

(* pidfd_open fails otherwise (EMFILE, ...): abort, with a numeric KILL. *)
AttachFails ==
  /\ pc = "attach"
  /\ Consume("abort")
  /\ UNCHANGED <<config, guardVars, first, exceeded, loopVars, killError, lenError,
                 result, kernel, history>>

-----------------------------------------------------------------------------
(* The supervision loop *)

(* SignalScope::observe: drain the signalfd, latch the first record read. *)
Observe ==
  /\ pc = "observe"
  /\ first' \in IF first = NoSignal /\ pending # {} THEN pending ELSE {first}
  /\ pending' = {}
  /\ pc' = "limits"
  /\ UNCHANGED <<config, guardVars, exceeded, loopVars, endVars, child, pipe, reused, len,
                 durationDue, history>>

(* The read fails, possibly after some records were consumed. *)
ObserveFails ==
  /\ pc = "observe"
  /\ \E drained \in SUBSET pending :
       /\ pending' = pending \ drained
       /\ first' \in IF first = NoSignal /\ drained # {} THEN drained ELSE {first}
  /\ Consume("abort")
  /\ UNCHANGED <<config, guardVars, exceeded, loopVars, killError, lenError, result, child,
                 pipe, reused, len, durationDue, history>>

DurationFacts == IF "duration" \in limited /\ durationDue THEN {"duration"} ELSE {}
MeasuresBytes == "bytes" \in limited /\ "bytes" \notin exceeded
ByteFacts     == IF MeasuresBytes /\ len > TraceLimit THEN {"bytes"} ELSE {}

(* observe_capture_limits *)
ObserveLimits ==
  /\ pc = "limits"
  /\ exceeded' = exceeded \cup DurationFacts \cup ByteFacts
  /\ newly' = (exceeded' # exceeded)
  /\ pc' = "signal"
  /\ UNCHANGED <<config, guardVars, first, handled, deadline, ready, endVars, kernel, history>>

(* The anchored length cannot be read: cancel, keeping a duration just seen. *)
ObserveLimitsFails ==
  /\ pc = "limits"
  /\ MeasuresBytes
  /\ exceeded' = exceeded \cup DurationFacts
  /\ lenError' = TRUE
  /\ Consume("cancel")
  /\ UNCHANGED <<config, guardVars, first, loopVars, killError, result, kernel, history>>

(* CollectorGuard::forward through the pidfd; ESRCH is not an error. *)
Reached ==
  CASE pidfd = "stranger" -> {"stranger"}
    [] pidfd = "child" /\ child \in Unreaped -> {"child"}
    [] OTHER -> {}

Forward(reason) ==
  /\ requests' = Append(requests, reason)
  /\ hit' = hit \cup Reached

Arm == deadline' = IF deadline = "unset" THEN "running" ELSE deadline

SignalUnhandled == first # NoSignal /\ ~handled

NoSignalToHandle ==
  /\ pc = "signal"
  /\ ~SignalUnhandled
  /\ pc' = "term"
  /\ UNCHANGED <<config, guardVars, first, exceeded, loopVars, endVars, kernel, history>>

ForwardSignal ==
  /\ pc = "signal"
  /\ SignalUnhandled /\ first \notin direct
  /\ handled' = TRUE
  /\ Forward("signal")
  /\ Arm
  /\ pc' = "term"
  /\ UNCHANGED <<config, guardVars, first, exceeded, newly, ready, endVars, kernel, atReady>>

TerminateDirectly ==
  /\ pc = "signal"
  /\ SignalUnhandled /\ first \in direct
  /\ handled' = TRUE
  /\ Consume("cancel")
  /\ UNCHANGED <<config, guardVars, first, exceeded, deadline, newly, ready, killError,
                 lenError, result, kernel, history>>

(* Variant: a running grace does not suppress a second TERM. *)
LimitAlwaysUnhandled == newly

LimitUnhandled == newly /\ deadline = "unset"

NoLimitToHandle ==
  /\ pc = "term"
  /\ ~LimitUnhandled
  /\ pc' = "ready"
  /\ UNCHANGED <<config, guardVars, first, exceeded, loopVars, endVars, kernel, history>>

TerminateOnLimit ==
  /\ pc = "term"
  /\ LimitUnhandled
  /\ Forward("limit")
  /\ Arm
  /\ pc' = "ready"
  /\ UNCHANGED <<config, guardVars, first, exceeded, handled, newly, ready, endVars, kernel,
                 atReady>>

(* forward failed, or the grace deadline is not representable: abort. *)
ForwardFails ==
  /\ \/ /\ pc = "signal" /\ SignalUnhandled /\ first \notin direct
        /\ handled' = TRUE
     \/ /\ pc = "term" /\ LimitUnhandled
        /\ handled' = handled
  /\ Consume("abort")
  /\ UNCHANGED <<config, guardVars, first, exceeded, deadline, newly, ready, killError,
                 lenError, result, kernel, history>>

(* observe_handshake: EOF ends the handshake, a frame before it is an error. *)
HandshakeFailed == handshakeOpen /\ pipe = "eofFrame"
CloseAtEof == handshakeOpen' = (handshakeOpen /\ pipe \notin {"eof", "eofFrame"})

NotReady ==
  /\ pc = "ready"
  /\ ~ready
  /\ pc' = "grace"
  /\ UNCHANGED <<config, guardVars, first, exceeded, loopVars, endVars, kernel, history>>

Collect ==
  /\ pc = "ready"
  /\ ready
  /\ CloseAtEof
  /\ Consume(IF HandshakeFailed THEN "abort" ELSE "finish")
  /\ UNCHANGED <<config, ownership, pidfd, first, exceeded, loopVars, killError, lenError,
                 result, kernel, history>>

CheckGrace ==
  /\ pc = "grace"
  /\ IF deadline = "due"
       THEN Consume("cancel")
       ELSE pc' = "poll" /\ UNCHANGED <<cleanup, budget>>
  /\ UNCHANGED <<config, guardVars, first, exceeded, loopVars, killError, lenError, result,
                 kernel, history>>

(***************************************************************************)
(* poll wakes for a signal, a ready pidfd, handshake input, a due deadline *)
(* or, while a byte limit is pending, the 50 ms interval.  The readiness   *)
(* it reports is the one at the moment it returns.                         *)
(***************************************************************************)
PidfdReady == pidfd = "child" /\ child \in {"zombie", "stolen"}
DurationArmed == "duration" \in limited /\ "duration" \notin exceeded
Bounded == deadline # "unset" \/ DurationArmed \/ MeasuresBytes
(* Variant: the grace deadline is left out of the poll deadline. *)
WakesWithoutGrace ==
  \/ pending # {}
  \/ PidfdReady
  \/ handshakeOpen /\ pipe # "open"
  \/ DurationArmed /\ durationDue
  \/ MeasuresBytes

Wakes ==
  \/ pending # {}
  \/ PidfdReady
  \/ handshakeOpen /\ pipe # "open"
  \/ deadline = "due"
  \/ DurationArmed /\ durationDue
  \/ MeasuresBytes

(* Variant: a ready child is collected at once, before the facts are observed. *)
PollThenCollect ==
  /\ pc = "poll"
  /\ Wakes
  /\ ready' = PidfdReady
  /\ atReady' = [signal   |-> PidfdReady /\ pending # {},
                 duration |-> PidfdReady /\ DurationArmed /\ durationDue]
  /\ pc' = IF PidfdReady THEN "ready" ELSE "handshake"
  /\ UNCHANGED <<config, guardVars, first, exceeded, handled, deadline, newly, endVars, kernel,
                 requests, hit>>

Poll ==
  /\ pc = "poll"
  /\ Wakes
  /\ ready' = PidfdReady
  /\ atReady' = [signal   |-> PidfdReady /\ pending # {},
                 duration |-> PidfdReady /\ DurationArmed /\ durationDue]
  /\ pc' = "handshake"
  /\ UNCHANGED <<config, guardVars, first, exceeded, handled, deadline, newly, endVars, kernel,
                 requests, hit>>

(* EINTR: the kernel reports it only when nothing was ready, and the code yields
   to its caller on it only when no deadline bounds the wait. *)
PollInterrupted ==
  /\ pc = "poll"
  /\ ~Wakes /\ ~Bounded
  /\ ready' = FALSE
  /\ pc' = "handshake"
  /\ UNCHANGED <<config, guardVars, first, exceeded, handled, deadline, newly, endVars, kernel,
                 history>>

PollFails ==
  /\ pc = "poll"
  /\ Consume("abort")
  /\ UNCHANGED <<config, guardVars, first, exceeded, loopVars, killError, lenError, result,
                 kernel, history>>

ObserveHandshake ==
  /\ pc = "handshake"
  /\ CloseAtEof
  /\ IF HandshakeFailed
       THEN Consume("abort")
       ELSE pc' = "observe" /\ UNCHANGED <<cleanup, budget>>
  /\ UNCHANGED <<config, ownership, pidfd, first, exceeded, loopVars, killError, lenError,
                 result, kernel, history>>

-----------------------------------------------------------------------------
(* The guard's consuming operations *)

(* Variant: the successful wait does not consume the authority. *)
ReapsKeepingAuthority ==
  /\ budget = "running"
  /\ child = "zombie"
  /\ child' = "reaped"
  /\ ownership' = ownership

(* wait_until's waitpid succeeds within the budget. *)
Reaps ==
  /\ budget = "running"
  /\ child = "zombie"
  /\ child' = "reaped"
  /\ ownership' = "Reaped"

(* waitpid reports ECHILD in finish: ownership is disproved before cleanup. *)
WaitDisowned ==
  /\ pc = "wait"
  /\ budget = "running"
  /\ child = "stolen"
  /\ ownership' = "Lost"
  /\ pc' = "kill"
  /\ UNCHANGED <<config, pidfd, handshakeOpen, first, exceeded, loopVars, endVars, kernel,
                 history>>

WaitNormally ==
  /\ pc = "wait"
  /\ Reaps
  /\ Return("reaped")
  /\ UNCHANGED <<config, pidfd, handshakeOpen, first, exceeded, loopVars, cleanup, killError,
                 lenError, budget, pipe, reused, pending, len, durationDue, history>>

(* The budget is spent, or waitpid fails otherwise: finish falls back to KILL. *)
FallBackToKill ==
  /\ pc = "wait"
  /\ pc' = "kill"
  /\ UNCHANGED <<config, guardVars, first, exceeded, loopVars, endVars, kernel, history>>

WaitTimesOut == budget = "spent" /\ FallBackToKill
WaitFails    == budget = "running" /\ FallBackToKill

(* terminate: through the pidfd, or by number when there is none. *)
KillReaches ==
  IF pidfd # "none" THEN Reached
  ELSE IF child \in Unreaped THEN {"child"}
  ELSE IF reused THEN {"stranger"} ELSE {}

(* Variant: KILL is sent without asking whether the child is still ours. *)
TerminateUnchecked ==
  /\ pc = "kill"
  /\ hit' = hit \cup KillReaches /\ killError' = FALSE
  /\ budget' = "running"
  /\ pc' = "reap"
  /\ UNCHANGED <<config, guardVars, first, exceeded, loopVars, cleanup, lenError, result,
                 kernel, requests, atReady>>

Terminate ==
  /\ pc = "kill"
  /\ ownership = "Waitable"
  /\ \/ hit' = hit \cup KillReaches /\ killError' = FALSE
     \/ hit' = hit /\ killError' = TRUE
  /\ budget' = "running"
  /\ pc' = "reap"
  /\ UNCHANGED <<config, guardVars, first, exceeded, loopVars, cleanup, lenError, result,
                 kernel, requests, atReady>>

(* terminate_and_reap does nothing without authority; the error is unquiesced. *)
SkipTermination ==
  /\ pc = "kill"
  /\ ownership # "Waitable"
  /\ RevokeUnquiesced
  /\ UNCHANGED <<config, pidfd, handshakeOpen, first, exceeded, loopVars, cleanup, killError,
                 lenError, budget, kernel, history>>

(* Reaping is attempted even if KILL failed; only cancel yields the status. *)
ReapAfterTermination ==
  /\ pc = "reap"
  /\ Reaps
  /\ Return(IF cleanup = "cancel" /\ ~killError THEN "reaped" ELSE "failed")
  /\ UNCHANGED <<config, pidfd, handshakeOpen, first, exceeded, loopVars, cleanup, killError,
                 lenError, budget, pipe, reused, pending, len, durationDue, history>>

(* Variant: a child that could not be reaped is reported like a reaped one. *)
GiveUpReapingAsFailure ==
  /\ pc = "reap"
  /\ ownership' = "Abandoned"
  /\ Return("failed")
  /\ UNCHANGED <<config, pidfd, handshakeOpen, first, exceeded, loopVars, cleanup, killError,
                 lenError, budget, kernel, history>>

GiveUpReaping ==
  /\ pc = "reap"
  /\ RevokeUnquiesced
  /\ UNCHANGED <<config, pidfd, handshakeOpen, first, exceeded, loopVars, cleanup, killError,
                 lenError, budget, kernel, history>>

ReapTimesOut == budget = "spent" /\ GiveUpReaping
ReapFails    == budget = "running" /\ GiveUpReaping
ReapDisowned == child = "stolen" /\ ReapFails

(* Drop: a last KILL and one wait, only while authority is still held. *)
DropGuard ==
  /\ pc = "drop"
  /\ pc' = "done"
  /\ IF ownership = "Waitable"
       THEN /\ hit' = hit \cup KillReaches
            /\ ownership' = IF child = "zombie" THEN "Reaped" ELSE "Abandoned"
            /\ child' = IF child = "zombie" THEN "reaped" ELSE child
       ELSE UNCHANGED <<hit, ownership, child>>
  /\ UNCHANGED <<config, pidfd, handshakeOpen, first, exceeded, loopVars, endVars, pipe, reused,
                 pending, len, durationDue, requests, atReady>>

-----------------------------------------------------------------------------
(* The kernel and the child *)

supervisor == <<config, pc, guardVars, first, exceeded, loopVars, cleanup, killError, lenError,
                result, history>>

(* The child image becomes strace; its CLOEXEC pipe end closes. *)
ChildExecs ==
  /\ child = "setup" /\ pipe = "open"
  /\ child' = "running" /\ pipe' = "eof"
  /\ UNCHANGED <<supervisor, budget, deadline, reused, pending, len, durationDue>>

(* Setup or execvp failed: the child writes its errno frame before _exit. *)
ChildReports ==
  /\ child = "setup" /\ pipe = "open"
  /\ pipe' = "frame"
  /\ UNCHANGED <<supervisor, budget, deadline, child, reused, pending, len, durationDue>>

ChildExits ==
  /\ child \in Alive
  /\ child' = "zombie"
  /\ pipe' = IF pipe = "frame" THEN "eofFrame" ELSE "eof"
  /\ UNCHANGED <<supervisor, budget, deadline, reused, pending, len, durationDue>>

(* Another reaper, or an auto-reaping SIGCHLD disposition, takes the status. *)
ChildStolen ==
  /\ ~ExclusiveReaper
  /\ child = "zombie"
  /\ child' = "stolen"
  /\ UNCHANGED <<supervisor, budget, deadline, pipe, reused, pending, len, durationDue>>

PidReused ==
  /\ child \in {"reaped", "stolen"} /\ ~reused
  /\ reused' = TRUE
  /\ UNCHANGED <<supervisor, budget, deadline, child, pipe, pending, len, durationDue>>

SignalArrives ==
  /\ \E signal \in Signals \ pending : pending' = pending \cup {signal}
  /\ UNCHANGED <<supervisor, budget, deadline, child, pipe, reused, len, durationDue>>

TraceGrows ==
  /\ child = "running" /\ len < MaxLen
  /\ len' = len + 1
  /\ UNCHANGED <<supervisor, budget, deadline, child, pipe, reused, pending, durationDue>>

DurationElapses ==
  /\ ~durationDue
  /\ durationDue' = TRUE
  /\ UNCHANGED <<supervisor, budget, deadline, child, pipe, reused, pending, len>>

GraceElapses ==
  /\ deadline = "running"
  /\ deadline' = "due"
  /\ UNCHANGED <<config, pc, guardVars, first, exceeded, handled, newly, ready, endVars, kernel,
                 history>>

BudgetElapses ==
  /\ budget = "running"
  /\ budget' = "spent"
  /\ UNCHANGED <<config, pc, guardVars, first, exceeded, loopVars, cleanup, killError, lenError,
                 result, kernel, history>>

-----------------------------------------------------------------------------
(* Steps the supervisor takes when no system call fails, and the failures. *)
Progress ==
  \/ BeforeSpawn \/ Fork \/ Attach \/ AttachDisowned
  \/ Observe \/ ObserveLimits \/ NoSignalToHandle \/ ForwardSignal \/ TerminateDirectly
  \/ NoLimitToHandle \/ TerminateOnLimit \/ NotReady \/ Collect \/ CheckGrace
  \/ Poll \/ ObserveHandshake
  \/ WaitNormally \/ WaitDisowned \/ WaitTimesOut
  \/ Terminate \/ SkipTermination \/ ReapAfterTermination \/ ReapDisowned \/ ReapTimesOut
  \/ DropGuard

Faults ==
  \/ SpawnFails \/ AttachFails \/ ObserveFails \/ ObserveLimitsFails \/ ForwardFails
  \/ PollInterrupted \/ PollFails \/ WaitFails \/ ReapFails

Clock == DurationElapses \/ GraceElapses \/ BudgetElapses

Kernel ==
  \/ ChildExecs \/ ChildReports \/ ChildExits \/ ChildStolen \/ PidReused
  \/ SignalArrives \/ TraceGrows

Next == Progress \/ Faults \/ Clock \/ Kernel

Spec == Init /\ [][Next]_vars

(***************************************************************************)
(* The supervisor thread is scheduled and clocks advance.  Nothing is      *)
(* assumed of the child, of signal senders or of failures.                 *)
(***************************************************************************)
FairSpec ==
  /\ Spec
  /\ WF_vars(Progress)
  /\ WF_vars(DurationElapses) /\ WF_vars(GraceElapses) /\ WF_vars(BudgetElapses)

-----------------------------------------------------------------------------
(* Properties *)

Pcs == {"schedule", "fork", "attach", "drop", "done"} \cup LoopPcs \cup CleanupPcs

(* Type correctness of capture_collector's locals, the guard, the kernel's view of
   the child and the history variables. *)
TypeOK ==
  /\ limited \in SUBSET Limits /\ exceeded \in SUBSET Limits
  /\ direct \in SUBSET Signals /\ pending \in SUBSET Signals
  /\ first \in Signals \cup {NoSignal}
  /\ pc \in Pcs
  /\ ownership \in {"None", "Waitable", "Reaped", "Lost", "Abandoned"}
  /\ pidfd \in {"none", "child", "stranger"}
  /\ deadline \in {"unset", "running", "due"} /\ budget \in {"unset", "running", "spent"}
  /\ cleanup \in {"none", "finish", "abort", "cancel"}
  /\ result \in {"none", "tool_error", "failed", "reaped", "unquiesced"}
  /\ child \in Unreaped \cup {"absent", "reaped", "stolen"}
  /\ pipe \in {"open", "frame", "eof", "eofFrame"}
  /\ handshakeOpen \in BOOLEAN /\ handled \in BOOLEAN /\ newly \in BOOLEAN
  /\ ready \in BOOLEAN /\ killError \in BOOLEAN /\ lenError \in BOOLEAN
  /\ reused \in BOOLEAN /\ durationDue \in BOOLEAN
  /\ len \in 0..MaxLen
  /\ requests \in Seq({"signal", "limit"}) /\ hit \in SUBSET {"child", "stranger"}
  /\ atReady \in [signal : BOOLEAN, duration : BOOLEAN]

(* Collector facts are returned to the workflow, which then reads and finalizes
   the trace, only when no child exists that could still be writing it: on every
   success, error and cleanup path of capture_collector. *)
QuiescentFacts == result \in {"reaped", "failed"} => child \in {"absent", "reaped"}

(* Whenever the guard is dropped its authority has been consumed or revoked, so
   Drop's undiagnosed KILL is never needed; "unquiesced" is reported exactly when no wait succeeded. *)
AuthorityResolved ==
  pc \in {"drop", "done"} =>
    /\ ownership # "Waitable"
    /\ result = "unquiesced" <=> ownership = "Abandoned"
    /\ result = "reaped" => ownership = "Reaped"

(* One termination grace is shared by limits and cancellation: a limit crossing
   after a forwarded signal, or after another limit, sends nothing more. *)
OneTerminationRequest ==
  requests \in {<<>>, <<"signal">>, <<"limit">>, <<"limit", "signal">>}

(* No later request postpones the KILL: the grace deadline is never set anew. *)
GraceNeverRestarts ==
  [][deadline' # deadline => <<deadline, deadline'>> \in
        {<<"unset", "running">>, <<"running", "due">>}]_vars

(* Signals and an elapsed duration observable when poll reported the exited child
   are retained as facts before its status is collected. *)
StatusAfterObservation ==
  result = "reaped" /\ cleanup = "finish" =>
    /\ atReady.signal => first # NoSignal
    /\ atReady.duration => "duration" \in exceeded

(* With an exclusive reaper no signal, by pidfd or by number, reaches a process
   that merely inherited the collector's PID. *)
NoStrangerSignalled == ExclusiveReaper => "stranger" \notin hit

(* Once a wait consumed or disproved ownership, nothing is signalled again. *)
SignalsNeedAuthority == [][hit' # hit => ownership = "Waitable"]_vars

(* Implements the evidence promise: the raw trace cannot change once facts exist. *)
Evidence == INSTANCE EvidenceLifetime WITH
  writer <- CASE child = "absent" -> "absent" [] child \in Alive -> "live" [] OTHER -> "ended",
  size <- len,
  verdict <- CASE result = "none" -> "none"
               [] result \in {"reaped", "failed"} -> "facts"
               [] OTHER -> "refused"
KeepsEvidencePromise == Evidence!Spec

(* A stop request or an exceeded limit ends supervision, whatever the child does
   about TERM and KILL and whoever takes its status.  So does the collector's exit,
   unless another reaper freed its PID before pidfd_open named it. *)
StopResponds ==
  /\ (\/ pending # {} \/ first # NoSignal
      \/ "duration" \in limited /\ durationDue
      \/ "bytes" \in limited /\ len > TraceLimit) ~> pc = "done"
  /\ child = "zombie" ~> (pc = "done" \/ pidfd = "stranger")

=============================================================================

---------------------------- MODULE VersionProbe ------------------------------
(***************************************************************************)
(* The preflight that runs the backend with --version, from probe_backend, *)
(* supervise_version_probe, complete_version_probe, CapturedPipe and       *)
(* cancelled_version_probe in src/capture/supervision.rs.                  *)
(*                                                                         *)
(* The probe's own descendants may keep its pipes open, or write, as long  *)
(* as they like.  Signals are reduced to one that is pending or observed   *)
(* (SignalScope has the rest), the guard's finish, abort and cancel to     *)
(* their outcomes (CollectorSupervision has the rest).                     *)
(***************************************************************************)
EXTENDS Naturals

CONSTANT StreamLimit   \* chunks one captured stream may hold

ASSUME StreamLimitAssumption == StreamLimit \in Nat

Pipes == {"stdout", "stderr"}

VARIABLES
  pc,        \* next statement
  signal,    \* "none", "pending" or "observed"
  child,     \* "absent", "preexec", "running" or "dead"
  status,    \* "ok" or "bad", once it is dead
  frame,     \* it reported a failed exec
  shake,     \* the handshake pipe is still open here
  writers,   \* who holds the write end of a pipe
  avail,     \* chunks in a pipe
  taken,     \* chunks captured from it
  own,       \* chunks the direct child wrote to it
  eof,       \* end of file was read from it
  deadline,  \* the probe's five seconds have passed
  ready,     \* what poll returned
  reaped,    \* the guard observed the child's end
  result     \* "none", "completed", "cancelled" or "error"

controlVars == <<pc, ready, result>>
childVars == <<child, status, frame, writers, own>>
pipeVars == <<avail, taken, eof>>
vars == <<controlVars, childVars, pipeVars, signal, shake, deadline, reaped>>

Init ==
  /\ pc = "start" /\ ready = {} /\ result = "none"
  /\ signal \in {"none", "pending"} /\ deadline = FALSE /\ reaped = FALSE
  /\ child = "absent" /\ status = "ok" /\ frame = FALSE /\ shake = FALSE
  /\ writers = [p \in Pipes |-> {}] /\ own = [p \in Pipes |-> 0]
  /\ avail = [p \in Pipes |-> 0] /\ taken = [p \in Pipes |-> 0] /\ eof = [p \in Pipes |-> FALSE]

-----------------------------------------------------------------------------
(* Statements.  Go continues at a label, Return leaves with an outcome. *)

Go(to) == pc' = to /\ UNCHANGED <<ready, result>>
Return(outcome) == pc' = "done" /\ result' = outcome /\ ready' = {}

(* scope.observe()?: cancelled if a signal is there, otherwise on. *)
Observing(from, found, next) ==
  /\ pc = from
  /\ signal' = IF signal = "pending" THEN "observed" ELSE signal
  /\ IF signal' = "observed" THEN found ELSE next
  /\ UNCHANGED <<childVars, pipeVars, shake, deadline, reaped>>

(* A read that fails, perhaps after a record was taken, aborts. *)
ObserveFails ==
  /\ pc \in {"start", "loop", "timeout", "signal", "confirm", "recheck", "fail"}
  /\ signal' \in {signal} \cup (IF signal = "pending" THEN {"observed"} ELSE {})
  /\ IF pc \in {"start", "recheck"} THEN Return("error") ELSE Go("abort")
  /\ UNCHANGED <<childVars, pipeVars, shake, deadline, reaped>>

Start == Observing("start", Return("cancelled"), Go("launch"))

(* The child has both write ends and the handshake from the fork on. *)
Launch ==
  /\ pc = "launch" /\ Go("loop")
  /\ child' = "preexec" /\ shake' = TRUE
  /\ writers' = [p \in Pipes |-> {"child"}]
  /\ UNCHANGED <<status, frame, own, pipeVars, signal, deadline, reaped>>

(* No pidfd support, no fork; or the attached child is aborted at once. *)
LaunchFails ==
  /\ pc = "launch" /\ Return("error")
  /\ UNCHANGED <<childVars, pipeVars, signal, shake, deadline, reaped>>

Loop == Observing("loop", Go("cancel"), Go("poll"))

(* Variant: a pipe stays in the poll set after its end of file. *)
PolledAlways(p) == TRUE

(* CapturedPipe::pollfd *)
Polled(p) == ~eof[p]

PipeReady(p) == avail[p] > 0 \/ writers[p] = {}
HandshakeReady == shake /\ child \in {"running", "dead"}
Readable ==
  {p \in Pipes : Polled(p) /\ PipeReady(p)}
  \cup (IF signal = "pending" THEN {"signal"} ELSE {})
  \cup (IF child = "dead" THEN {"child"} ELSE {})
  \cup (IF HandshakeReady THEN {"handshake"} ELSE {})

(* Past the deadline poll does not wait, and gives up when interrupted. *)
Poll ==
  /\ pc = "poll"
  /\ \/ Readable # {} /\ ready' = Readable /\ pc' = "signal" /\ UNCHANGED result
     \/ deadline /\ Go("timeout")
  /\ UNCHANGED <<childVars, pipeVars, signal, shake, deadline, reaped>>

(* poll fails, or a descriptor is invalid. *)
PollFails ==
  /\ pc = "poll" /\ Go("fail")
  /\ UNCHANGED <<childVars, pipeVars, signal, shake, deadline, reaped>>

TimeOut == Observing("timeout", Go("cancel"), Go("abort"))
(* fail_version_probe *)
Fail == Observing("fail", Go("cancel"), Go("abort"))

AfterPoll ==
  \/ "signal" \in ready /\ Observing("signal", Go("cancel"), Go("stdout"))
  \/ /\ pc = "signal" /\ "signal" \notin ready /\ Go("stdout")
     /\ UNCHANGED <<childVars, pipeVars, signal, shake, deadline, reaped>>

-----------------------------------------------------------------------------
(* CapturedPipe::drain, read by read, in the loop and once more at the end *)

DrainPoints == [stdout |-> "stdout", stderr |-> "stderr", finalout |-> "stdout", finalerr |-> "stderr"]
AfterDrain == [stdout |-> "stderr", stderr |-> "handshake", finalout |-> "finalerr", finalerr |-> "confirm"]

SkipDrain(at) ==
  /\ pc = at
  /\ eof[DrainPoints[at]] \/ (at = DrainPoints[at] /\ at \notin ready)
  /\ Go(AfterDrain[at])
  /\ UNCHANGED <<childVars, pipeVars, signal, shake, deadline, reaped>>

Drain(at) ==
  LET p == DrainPoints[at]
  IN /\ pc = at /\ ~eof[p]
     /\ at = p => p \in ready
     /\ \/ deadline /\ Go("fail") /\ UNCHANGED pipeVars
        \/ /\ ~deadline /\ avail[p] > 0
           /\ avail' = [avail EXCEPT ![p] = @ - 1]
           /\ IF taken[p] + 1 > StreamLimit THEN Go("fail") /\ UNCHANGED taken
              ELSE Go(at) /\ taken' = [taken EXCEPT ![p] = @ + 1]
           /\ UNCHANGED eof
        \/ /\ ~deadline /\ avail[p] = 0
           /\ eof' = [eof EXCEPT ![p] = writers[p] = {}]
           /\ Go(AfterDrain[at]) /\ UNCHANGED <<avail, taken>>
     /\ UNCHANGED <<childVars, signal, shake, deadline, reaped>>

DrainFails(at) ==
  /\ pc = at /\ ~eof[DrainPoints[at]]
  /\ at = DrainPoints[at] => at \in ready
  /\ Go("fail")
  /\ UNCHANGED <<childVars, pipeVars, signal, shake, deadline, reaped>>

(* observe_handshake: end of file closes it; a frame before that fails.     *)
ObserveHandshake(next) ==
  /\ shake' = (shake /\ ~HandshakeReady)
  /\ IF HandshakeReady /\ frame THEN Go("fail") ELSE next

Handshake ==
  /\ pc = "handshake"
  /\ IF "handshake" \in ready THEN ObserveHandshake(Go("child")) ELSE Go("child") /\ UNCHANGED shake
  /\ UNCHANGED <<childVars, pipeVars, signal, deadline, reaped>>

(* A child that was ready when poll returned is completed, whatever its     *)
(* descendants hold open.                                                   *)
ChildReady ==
  /\ pc = "child"
  /\ IF "child" \in ready THEN ObserveHandshake(Go("finalout")) ELSE Go("loop") /\ UNCHANGED shake
  /\ UNCHANGED <<childVars, pipeVars, signal, deadline, reaped>>

-----------------------------------------------------------------------------
(* complete_version_probe and the guard *)

Confirm == Observing("confirm", Go("cancel"), Go("finish"))

(* guard.finish(): a failed wait is an error, reaped by KILL or not at all. *)
Finish ==
  /\ pc = "finish"
  /\ \/ Go("recheck") /\ reaped' = TRUE
     \/ Return("error") /\ reaped' \in BOOLEAN
  /\ UNCHANGED <<childVars, pipeVars, signal, shake, deadline>>

Recheck == Observing("recheck", Return("cancelled"), Return(IF status = "ok" THEN "completed" ELSE "error"))

(* KILL ends the child, unless it cannot be delivered or is stuck. *)
Killed == child' = "dead" /\ status' = "bad" /\ writers' = [p \in Pipes |-> writers[p] \ {"child"}]

(* Variant: an unquiesced child is only a supervision error. *)
CancelStringified ==
  /\ pc = "cancel"
  /\ \/ Killed /\ reaped' = TRUE
     \/ UNCHANGED <<child, status, writers, reaped>>
  /\ Return("cancelled")
  /\ UNCHANGED <<frame, own, pipeVars, signal, shake, deadline>>

(* cancelled_version_probe: quiescence before cancellation. *)
Cancel ==
  /\ pc = "cancel"
  /\ \/ Killed /\ reaped' = TRUE /\ Return("cancelled")
     \/ UNCHANGED <<child, status, writers, reaped>> /\ Return("error")
  /\ UNCHANGED <<frame, own, pipeVars, signal, shake, deadline>>

Abort ==
  /\ pc = "abort"
  /\ \/ Killed /\ reaped' = TRUE
     \/ UNCHANGED <<child, status, writers, reaped>>
  /\ Return("error")
  /\ UNCHANGED <<frame, own, pipeVars, signal, shake, deadline>>

Supervisor ==
  \/ Start \/ Launch \/ LaunchFails \/ Loop \/ Poll \/ PollFails \/ TimeOut \/ Fail \/ AfterPoll
  \/ \E at \in DOMAIN DrainPoints : SkipDrain(at) \/ Drain(at) \/ DrainFails(at)
  \/ Handshake \/ ChildReady \/ Confirm \/ Finish \/ Recheck \/ Cancel \/ Abort \/ ObserveFails

-----------------------------------------------------------------------------
(* The probe, its descendants, senders of signals and the clock (external) *)

Outside == UNCHANGED <<controlVars, taken, eof, shake, reaped>>

Exec ==
  /\ child = "preexec" /\ child' = "running"
  /\ Outside /\ UNCHANGED <<status, frame, writers, own, avail, signal, deadline>>

ExecFails ==
  /\ child = "preexec" /\ frame' = TRUE /\ Killed
  /\ Outside /\ UNCHANGED <<own, avail, signal, deadline>>

(* At most one chunk more than the limit. *)
Write(p, w) ==
  /\ w \in writers[p] /\ child # "preexec" /\ avail[p] + taken[p] <= StreamLimit
  /\ avail' = [avail EXCEPT ![p] = @ + 1]
  /\ own' = [own EXCEPT ![p] = IF w = "child" THEN @ + 1 ELSE @]
  /\ Outside /\ UNCHANGED <<child, status, frame, writers, signal, deadline>>

SpawnDescendant ==
  /\ child = "running" /\ \A p \in Pipes : writers[p] = {"child"}
  /\ writers' = [p \in Pipes |-> {"child", "descendant"}]
  /\ Outside /\ UNCHANGED <<child, status, frame, own, avail, signal, deadline>>

CloseEnd(p, w) ==
  /\ w \in writers[p] /\ child # "preexec"
  /\ writers' = [writers EXCEPT ![p] = @ \ {w}]
  /\ Outside /\ UNCHANGED <<child, status, frame, own, avail, signal, deadline>>

Exit ==
  /\ child = "running" /\ child' = "dead" /\ status' \in {"ok", "bad"}
  /\ writers' = [p \in Pipes |-> writers[p] \ {"child"}]
  /\ Outside /\ UNCHANGED <<frame, own, avail, signal, deadline>>

SignalArrives ==
  /\ signal = "none" /\ signal' = "pending"
  /\ Outside /\ UNCHANGED <<childVars, avail, deadline>>

DeadlineElapses ==
  /\ pc # "start" /\ ~deadline /\ deadline' = TRUE
  /\ Outside /\ UNCHANGED <<childVars, avail, signal>>

World ==
  \/ Exec \/ ExecFails \/ SpawnDescendant \/ Exit \/ SignalArrives \/ DeadlineElapses
  \/ \E p \in Pipes, w \in {"child", "descendant"} : Write(p, w) \/ CloseEnd(p, w)

Next == result = "none" /\ (Supervisor \/ World)

(* The supervisor's thread runs and time passes; nothing is assumed of the  *)
(* probe and its descendants.                                               *)
Spec == Init /\ [][Next]_vars /\ WF_vars(Supervisor) /\ WF_vars(DeadlineElapses)

-----------------------------------------------------------------------------
(* Properties *)

(* The record command goes on only from a probe that is over: completed and
   cancelled both mean that no child of it is left, a consumed signal always
   cancels, and a completed probe's output is all the child wrote, in bounds. *)
OutcomeEarned ==
  /\ result \in {"completed", "cancelled"} => child \in {"absent", "dead"} /\ (reaped \/ child = "absent")
  /\ result = "cancelled" => signal = "observed"
  /\ result = "completed" =>
       /\ signal # "observed" /\ status = "ok" /\ ~frame
       /\ \A p \in Pipes : own[p] <= taken[p] /\ taken[p] <= StreamLimit

(* The probe always ends, although the child may ignore everything, close its
   pipes early, write for ever, or leave descendants that hold them open. *)
ProbeResponds == <>(result # "none")

=============================================================================

-------------------------- MODULE VersionProbeProofs --------------------------
(***************************************************************************)
(* Proofs about VersionProbe, for every stream limit and whatever the      *)
(* probe and its descendants do.                                           *)
(*                                                                         *)
(* A completed probe's output is complete because of three things that     *)
(* hold along the way: until the probe is given up no chunk of the child   *)
(* leaves a pipe uncaptured (NothingLost), poll reports only a child that  *)
(* is dead (Observed), and a dead child writes no more, so that one drain  *)
(* after its end takes all it wrote (Phases).                              *)
(***************************************************************************)
EXTENDS VersionProbe, TLAPS

Writers == {"child", "descendant"}
Labels ==
  {"start", "launch", "loop", "poll", "timeout", "fail", "signal", "stdout", "stderr", "handshake",
   "child", "finalout", "finalerr", "confirm", "finish", "recheck", "cancel", "abort", "done"}

(* The probe is given up: from here nothing leads to a completed one. *)
Doomed == {"fail", "cancel", "abort", "done"}

(* Type correctness. *)
ProbeTypeOK ==
  /\ pc \in Labels /\ result \in {"none", "completed", "cancelled", "error"}
  /\ ready \in SUBSET (Pipes \cup {"signal", "child", "handshake"})
  /\ signal \in {"none", "pending", "observed"}
  /\ child \in {"absent", "preexec", "running", "dead"} /\ status \in {"ok", "bad"}
  /\ writers \in [Pipes -> SUBSET Writers]
  /\ own \in [Pipes -> Nat] /\ avail \in [Pipes -> Nat] /\ taken \in [Pipes -> Nat]
  /\ eof \in [Pipes -> BOOLEAN]

(* A dead child holds no pipe, and one that reported a failed exec ended badly. *)
Ended ==
  /\ child = "dead" => \A p \in Pipes : "child" \notin writers[p]
  /\ frame => child = "dead" /\ status = "bad"

(* End of file is read from an empty pipe nobody can write to any more. *)
EofIsFinal == \A p \in Pipes : eof[p] => writers[p] = {} /\ avail[p] = 0

(* What the child wrote was captured or is still in the pipe, within the limit. *)
NothingLost ==
  /\ \A p \in Pipes : taken[p] <= StreamLimit
  /\ pc \notin Doomed => \A p \in Pipes : own[p] <= taken[p] + avail[p]

(* poll reports the child only once it is dead. *)
Observed == "child" \in ready => child = "dead"

(* What each control point has established. *)
Phases ==
  /\ pc \in {"start", "launch"} => child = "absent" /\ \A p \in Pipes : ~eof[p]
  /\ pc = "cancel" => signal = "observed"
  /\ pc \in {"finalout", "finalerr", "confirm", "finish", "recheck"} => child = "dead"
  /\ pc \in {"finalerr", "confirm", "finish", "recheck"} => own["stdout"] <= taken["stdout"]
  /\ pc \in {"confirm", "finish", "recheck"} => own["stderr"] <= taken["stderr"]
  /\ pc = "recheck" => reaped = TRUE

ProbeInv ==
  /\ ProbeTypeOK /\ Ended /\ EofIsFinal /\ NothingLost /\ Observed /\ Phases /\ OutcomeEarned

USE StreamLimitAssumption DEF Pipes, Writers, Labels, Doomed, controlVars, childVars, pipeVars

-----------------------------------------------------------------------------
(* A step of the supervisor that leaves the child and the pipes alone has only its
   own control point to justify. *)
LEMMA ControlKeeps ==
  ASSUME ProbeInv, UNCHANGED <<childVars, pipeVars>>, pc' \in Doomed \/ pc \notin Doomed,
         ProbeTypeOK', Observed', Phases', OutcomeEarned'
  PROVE  ProbeInv'
BY DEF ProbeInv, Ended, EofIsFinal, NothingLost

(* Nothing has run before the first statement. *)
LEMMA ProbeInvInit == Init => ProbeInv
BY DEF Init, ProbeInv, ProbeTypeOK, Ended, EofIsFinal, NothingLost, Observed, Phases, OutcomeEarned

(* Each look at the signals goes on, or cancels with a signal observed. *)
LEMMA ObservingKeeps ==
  ASSUME ProbeInv, result = "none",
         Start \/ Loop \/ TimeOut \/ Fail \/ AfterPoll \/ Confirm \/ Recheck \/ ObserveFails
  PROVE  ProbeInv'
<1> USE DEF ProbeInv, ProbeTypeOK, Observing, Go, Return, Observed, Phases, OutcomeEarned
<1>1. CASE Start
  BY <1>1, ControlKeeps DEF Start
<1>2. CASE Loop
  BY <1>2, ControlKeeps DEF Loop
<1>3. CASE TimeOut \/ Fail
  BY <1>3, ControlKeeps DEF TimeOut, Fail
<1>4. CASE AfterPoll
  BY <1>4, ControlKeeps DEF AfterPoll
<1>5. CASE Confirm
  BY <1>5, ControlKeeps DEF Confirm
<1>6. CASE Recheck
  BY <1>6, ControlKeeps DEF Recheck, Ended, NothingLost
<1>7. CASE ObserveFails
  BY <1>7, ControlKeeps DEF ObserveFails
<1> QED
  BY <1>1, <1>2, <1>3, <1>4, <1>5, <1>6, <1>7

(* The fork gives the child both write ends of pipes nothing was read from. *)
LEMMA LaunchKeeps == ASSUME ProbeInv, result = "none", Launch \/ LaunchFails PROVE ProbeInv'
<1>1. CASE LaunchFails
  BY <1>1, ControlKeeps DEF LaunchFails, Return, ProbeInv, ProbeTypeOK, Observed, Phases, OutcomeEarned
<1>2. CASE Launch
  <2> USE <1>2 DEF Launch, Go
  <2>1. child = "absent" /\ \A p \in Pipes : ~eof[p]
    BY DEF ProbeInv, Phases
  <2>2. ProbeTypeOK'
    BY DEF ProbeInv, ProbeTypeOK
  <2>3. Ended' /\ EofIsFinal' /\ Observed'
    BY <2>1 DEF ProbeInv, Ended, EofIsFinal, Observed
  <2>4. NothingLost'
    BY DEF ProbeInv, NothingLost
  <2>5. Phases' /\ OutcomeEarned'
    BY DEF Phases, OutcomeEarned
  <2> QED
    BY <2>2, <2>3, <2>4, <2>5 DEF ProbeInv
<1> QED
  BY <1>1, <1>2

(* poll reports what is there, and the child only when it is dead. *)
LEMMA PollKeeps == ASSUME ProbeInv, result = "none", Poll \/ PollFails PROVE ProbeInv'
<1>1. ProbeTypeOK'
  BY DEF Poll, PollFails, Go, Readable, ProbeInv, ProbeTypeOK
<1>2. Observed'
  BY DEF Poll, PollFails, Go, Readable, ProbeInv, Observed
<1>3. Phases' /\ OutcomeEarned'
  BY DEF Poll, PollFails, Go, Phases, OutcomeEarned
<1> QED
  BY <1>1, <1>2, <1>3, ControlKeeps DEF Poll, PollFails, Go

-----------------------------------------------------------------------------
(* CapturedPipe::drain *)

(* The four points at which a pipe is drained. *)
LEMMA DrainTable ==
  ASSUME NEW at \in DOMAIN DrainPoints
  PROVE  \/ at = "stdout" /\ DrainPoints[at] = "stdout" /\ AfterDrain[at] = "stderr"
         \/ at = "stderr" /\ DrainPoints[at] = "stderr" /\ AfterDrain[at] = "handshake"
         \/ at = "finalout" /\ DrainPoints[at] = "stdout" /\ AfterDrain[at] = "finalerr"
         \/ at = "finalerr" /\ DrainPoints[at] = "stderr" /\ AfterDrain[at] = "confirm"
BY DEF DrainPoints, AfterDrain

(* An empty pipe has given all its writer's chunks to the capture. *)
LEMMA DrainedPhases ==
  ASSUME ProbeInv, result = "none", NEW at \in DOMAIN DrainPoints, pc = at,
         avail[DrainPoints[at]] = 0, Go(AfterDrain[at]),
         UNCHANGED <<childVars, taken, signal, reaped>>
  PROVE  Phases'
<1>1. own[DrainPoints[at]] <= taken[DrainPoints[at]]
  <2>1. DrainPoints[at] \in Pipes /\ pc \notin Doomed
    BY DrainTable
  <2> QED
    BY <2>1 DEF ProbeInv, ProbeTypeOK, NothingLost
<1> QED
  BY <1>1, DrainTable DEF Go, ProbeInv, Phases

(* A pipe whose end was read, or that was not ready, is passed over. *)
LEMMA SkipDrainKeeps ==
  ASSUME ProbeInv, result = "none", NEW at \in DOMAIN DrainPoints, SkipDrain(at) \/ DrainFails(at)
  PROVE  ProbeInv'
<1>1. CASE DrainFails(at)
  BY <1>1, ControlKeeps DEF DrainFails, Go, ProbeInv, ProbeTypeOK, Observed, Phases, OutcomeEarned
<1>2. CASE SkipDrain(at)
  <2> USE <1>2 DEF SkipDrain
  <2>1. ProbeTypeOK' /\ Observed' /\ OutcomeEarned'
    BY DrainTable DEF Go, ProbeInv, ProbeTypeOK, Observed, OutcomeEarned
  <2>2. Phases'
    <3>1. CASE eof[DrainPoints[at]]
      <4>1. avail[DrainPoints[at]] = 0
        BY <3>1, DrainTable DEF ProbeInv, EofIsFinal
      <4> QED
        BY <4>1, DrainedPhases
    <3>2. CASE at = DrainPoints[at]
      BY <3>2, DrainTable DEF Go, Phases
    <3> QED
      BY <3>1, <3>2
  <2>3. pc \notin Doomed
    BY DrainTable
  <2> QED
    BY <2>1, <2>2, <2>3, ControlKeeps
<1> QED
  BY <1>1, <1>2

(* One read: past the deadline nothing, a chunk, a chunk too many, or an empty pipe. *)
LEMMA DrainKeeps ==
  ASSUME ProbeInv, result = "none", NEW at \in DOMAIN DrainPoints, Drain(at)
  PROVE  ProbeInv'
<1> DEFINE p == DrainPoints[at]
<1>1. p \in Pipes /\ pc = at /\ pc \notin Doomed /\ ~eof[p]
  BY DrainTable DEF Drain
<1>2. UNCHANGED <<childVars, signal, shake, deadline, reaped>>
  BY DEF Drain
<1>3. CASE deadline /\ Go("fail") /\ UNCHANGED pipeVars
  BY <1>2, <1>3, ControlKeeps DEF Go, ProbeInv, ProbeTypeOK, Observed, Phases, OutcomeEarned
<1>4. CASE /\ avail[p] > 0 /\ avail' = [avail EXCEPT ![p] = @ - 1]
           /\ taken[p] + 1 > StreamLimit /\ Go("fail") /\ UNCHANGED <<taken, eof>>
  <2> USE <1>1, <1>2, <1>4 DEF Go
  <2>1. ProbeTypeOK'
    BY DEF ProbeInv, ProbeTypeOK
  <2>2. Ended' /\ Observed' /\ NothingLost' /\ Phases' /\ OutcomeEarned'
    BY DEF ProbeInv, Ended, Observed, NothingLost, Phases, OutcomeEarned
  <2>3. EofIsFinal'
    BY DEF ProbeInv, ProbeTypeOK, EofIsFinal
  <2> QED
    BY <2>1, <2>2, <2>3 DEF ProbeInv
<1>5. CASE /\ avail[p] > 0 /\ avail' = [avail EXCEPT ![p] = @ - 1]
           /\ ~(taken[p] + 1 > StreamLimit) /\ Go(at)
           /\ taken' = [taken EXCEPT ![p] = @ + 1] /\ UNCHANGED eof
  <2> USE <1>1, <1>2, <1>5 DEF Go
  <2>1. ProbeTypeOK'
    BY DEF ProbeInv, ProbeTypeOK
  <2>2. Ended' /\ Observed' /\ OutcomeEarned'
    BY DEF ProbeInv, Ended, Observed, OutcomeEarned
  <2>3. EofIsFinal'
    BY DEF ProbeInv, ProbeTypeOK, EofIsFinal
  <2>4. NothingLost'
    BY DEF ProbeInv, ProbeTypeOK, NothingLost
  <2>5. Phases'
    BY DrainTable DEF ProbeInv, ProbeTypeOK, Phases
  <2> QED
    BY <2>1, <2>2, <2>3, <2>4, <2>5 DEF ProbeInv
<1>6. CASE /\ avail[p] = 0 /\ eof' = [eof EXCEPT ![p] = writers[p] = {}]
           /\ Go(AfterDrain[at]) /\ UNCHANGED <<avail, taken>>
  <2> USE <1>1, <1>2, <1>6
  <2>1. eof' \in [Pipes -> BOOLEAN]
    BY DEF ProbeInv, ProbeTypeOK
  <2>2. ProbeTypeOK' /\ Observed' /\ OutcomeEarned'
    BY <2>1, DrainTable DEF Go, ProbeInv, ProbeTypeOK, Observed, OutcomeEarned
  <2>3. EofIsFinal'
    BY DEF ProbeInv, ProbeTypeOK, EofIsFinal
  <2>4. Ended' /\ NothingLost'
    BY DEF ProbeInv, Ended, NothingLost
  <2>5. Phases'
    BY DrainedPhases
  <2> QED
    BY <2>2, <2>3, <2>4, <2>5 DEF ProbeInv
<1> QED
  BY <1>3, <1>4, <1>5, <1>6 DEF Drain

-----------------------------------------------------------------------------
(* The handshake, and the guard *)

(* A frame gives the probe up; a child poll reported is drained once more. *)
LEMMA HandshakeKeeps == ASSUME ProbeInv, result = "none", Handshake \/ ChildReady PROVE ProbeInv'
<1>1. ProbeTypeOK' /\ Observed' /\ OutcomeEarned'
  BY DEF Handshake, ChildReady, ObserveHandshake, Go, ProbeInv, ProbeTypeOK, Observed, OutcomeEarned
<1>2. Phases'
  BY DEF Handshake, ChildReady, ObserveHandshake, Go, ProbeInv, Observed, Phases
<1> QED
  BY <1>1, <1>2, ControlKeeps DEF Handshake, ChildReady

(* finish needs a wait that succeeded. *)
LEMMA FinishKeeps == ASSUME ProbeInv, result = "none", Finish PROVE ProbeInv'
<1>1. ProbeTypeOK' /\ Observed' /\ Phases' /\ OutcomeEarned'
  BY DEF Finish, Go, Return, ProbeInv, ProbeTypeOK, Observed, Phases, OutcomeEarned
<1> QED
  BY <1>1, ControlKeeps DEF Finish

(* cancel and abort kill, or report that they could not. *)
LEMMA KillKeeps == ASSUME ProbeInv, result = "none", Cancel \/ Abort PROVE ProbeInv'
<1>1. CASE UNCHANGED <<child, status, writers, reaped>> /\ result' = "error"
  BY <1>1, ControlKeeps
     DEF Cancel, Abort, Return, ProbeInv, ProbeTypeOK, Observed, Phases, OutcomeEarned
<1>2. CASE Killed /\ reaped' = TRUE /\ (result' = "error" \/ (result' = "cancelled" /\ signal = "observed"))
  <2> USE <1>2 DEF Killed
  <2>1. pc' = "done" /\ ready' = {} /\ UNCHANGED <<frame, own, pipeVars, signal>>
    BY DEF Cancel, Abort, Return
  <2>2. ProbeTypeOK'
    BY <2>1 DEF ProbeInv, ProbeTypeOK
  <2>3. Ended' /\ EofIsFinal' /\ NothingLost'
    BY <2>1 DEF ProbeInv, Ended, EofIsFinal, NothingLost
  <2>4. Observed' /\ Phases' /\ OutcomeEarned'
    BY <2>1 DEF Observed, Phases, OutcomeEarned
  <2> QED
    BY <2>2, <2>3, <2>4 DEF ProbeInv
<1>3. pc = "cancel" => signal = "observed"
  BY DEF ProbeInv, Phases
<1>4. CASE Cancel
  BY <1>1, <1>2, <1>3, <1>4 DEF Cancel, Return
<1>5. CASE Abort
  BY <1>1, <1>2, <1>5 DEF Abort, Return
<1> QED
  BY <1>4, <1>5

-----------------------------------------------------------------------------
(* The world outside *)

(* The child's end, with or without a frame, takes its pipe ends with it. *)
LEMMA ExitKeeps == ASSUME ProbeInv, result = "none", Exec \/ ExecFails \/ Exit PROVE ProbeInv'
<1> USE DEF Outside
<1>1. UNCHANGED <<pc, ready, result, own, avail, taken, eof, signal, reaped>> /\ child # "absent"
  BY DEF Exec, ExecFails, Exit
<1>2. ProbeTypeOK'
  BY <1>1 DEF Exec, ExecFails, Exit, Killed, ProbeInv, ProbeTypeOK
<1>3. child # "dead"
  BY DEF Exec, ExecFails, Exit
<1>4. Ended'
  BY <1>3 DEF Exec, ExecFails, Exit, Killed, ProbeInv, Ended
<1>5. EofIsFinal'
  BY <1>1 DEF Exec, ExecFails, Exit, Killed, ProbeInv, EofIsFinal
<1>6. NothingLost' /\ OutcomeEarned'
  BY <1>1 DEF ProbeInv, NothingLost, OutcomeEarned
<1>7. Observed' /\ Phases'
  BY <1>1, <1>3 DEF ProbeInv, Observed, Phases
<1> QED
  BY <1>2, <1>4, <1>5, <1>6, <1>7 DEF ProbeInv

(* A chunk goes into an open pipe; a dead child writes none. *)
LEMMA WriteKeeps ==
  ASSUME ProbeInv, result = "none", NEW p \in Pipes, NEW w \in Writers, Write(p, w)
  PROVE  ProbeInv'
<1> USE DEF Write, Outside
<1>1. ProbeTypeOK'
  BY DEF ProbeInv, ProbeTypeOK
<1>2. Ended' /\ Observed' /\ OutcomeEarned'
  BY DEF ProbeInv, Ended, Observed, OutcomeEarned
<1>3. EofIsFinal'
  BY DEF ProbeInv, ProbeTypeOK, EofIsFinal
<1>4. NothingLost'
  BY DEF ProbeInv, ProbeTypeOK, NothingLost
<1>5. child = "dead" => own' = own
  BY DEF ProbeInv, ProbeTypeOK, Ended
<1>6. Phases'
  BY <1>5 DEF ProbeInv, Phases
<1> QED
  BY <1>1, <1>2, <1>3, <1>4, <1>6 DEF ProbeInv

(* Descendants inherit open pipes only; ends close. *)
LEMMA EndsKeep ==
  ASSUME ProbeInv, result = "none",
         SpawnDescendant \/ \E p \in Pipes, w \in Writers : CloseEnd(p, w)
  PROVE  ProbeInv'
<1> USE DEF Outside
<1>1. UNCHANGED <<pc, ready, result, child, status, frame, own, avail, taken, eof, signal, reaped>>
  BY DEF SpawnDescendant, CloseEnd
<1>2. ProbeTypeOK' /\ EofIsFinal' /\ Ended'
  <2>1. CASE SpawnDescendant
    BY <1>1, <2>1 DEF SpawnDescendant, ProbeInv, ProbeTypeOK, EofIsFinal, Ended
  <2>2. ASSUME NEW p \in Pipes, NEW w \in Writers, CloseEnd(p, w)
        PROVE  ProbeTypeOK' /\ EofIsFinal' /\ Ended'
    BY <1>1, <2>2 DEF CloseEnd, ProbeInv, ProbeTypeOK, EofIsFinal, Ended
  <2> QED
    BY <2>1, <2>2
<1>3. NothingLost' /\ Observed' /\ Phases' /\ OutcomeEarned'
  BY <1>1 DEF ProbeInv, NothingLost, Observed, Phases, OutcomeEarned
<1> QED
  BY <1>2, <1>3 DEF ProbeInv

(* A signal may come and the deadline may pass at any time. *)
LEMMA ClockKeeps ==
  ASSUME ProbeInv, result = "none", SignalArrives \/ DeadlineElapses
  PROVE  ProbeInv'
<1>1. ProbeTypeOK' /\ Observed' /\ Phases' /\ OutcomeEarned'
  BY DEF SignalArrives, DeadlineElapses, Outside, ProbeInv, ProbeTypeOK, Observed, Phases, OutcomeEarned
<1> QED
  BY <1>1, ControlKeeps DEF SignalArrives, DeadlineElapses, Outside

-----------------------------------------------------------------------------
(* Every step of the supervisor and of the world keeps the invariant. *)
LEMMA ProbeStep == ProbeInv /\ [Next]_vars => ProbeInv'
<1> SUFFICES ASSUME ProbeInv, [Next]_vars PROVE ProbeInv'
  OBVIOUS
<1>1. CASE UNCHANGED vars
  BY <1>1 DEF vars, ProbeInv, ProbeTypeOK, Ended, EofIsFinal, NothingLost, Observed, Phases, OutcomeEarned
<1>2. CASE result = "none" /\ Supervisor
  BY <1>2, ObservingKeeps, LaunchKeeps, PollKeeps, SkipDrainKeeps, DrainKeeps, HandshakeKeeps,
     FinishKeeps, KillKeeps
     DEF Supervisor
<1>3. CASE result = "none" /\ World
  BY <1>3, ExitKeeps, WriteKeeps, EndsKeep, ClockKeeps DEF World
<1> QED
  BY <1>1, <1>2, <1>3 DEF Next

(* The invariant holds in every reachable state of the probe. *)
THEOREM ProbeInvariant == Spec => []ProbeInv
BY ProbeInvInit, ProbeStep, PTL DEF Spec

-----------------------------------------------------------------------------
(* Theorems *)

(* For every stream limit, a completed or cancelled probe has left no child, and a
   completed one captured every chunk its child wrote, within the limit. *)
THEOREM ProbeOutcomesAreEarned == Spec => []OutcomeEarned
<1>1. ProbeInv => OutcomeEarned
  BY DEF ProbeInv
<1> QED
  BY <1>1, ProbeInvariant, PTL

=============================================================================

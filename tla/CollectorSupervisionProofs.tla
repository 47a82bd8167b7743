---------------------- MODULE CollectorSupervisionProofs ----------------------
(***************************************************************************)
(* Proofs about CollectorSupervision, for every set of control signals,    *)
(* every trace limit and trace length, and with or without an exclusive    *)
(* reaper.                                                                 *)
(*                                                                         *)
(* The safety theorems rest on four facts, each preserved by every step:   *)
(* Authority (control point, ownership, child and result agree), Exclusive *)
(* (the PID stays ours), Requested (the flags remember the requests) and   *)
(* Observed (what poll saw is not lost before the status is collected).    *)
(***************************************************************************)
EXTENDS CollectorSupervision, SequenceTheorems, TLAPS

(***************************************************************************)
(* Where control is decides who owns the child, and the result is fixed    *)
(* exactly when the guard is about to be dropped.                          *)
(***************************************************************************)
Authority ==
  /\ result = "none" <=> pc \notin {"drop", "done"}
  /\ ownership = "None" <=> child = "absent"
  /\ ownership = "Reaped" <=> child = "reaped"
  /\ pc \in {"schedule", "fork"} => ownership = "None"
  /\ pc \in {"attach", "wait", "reap"} \cup LoopPcs => ownership = "Waitable"
  /\ pc = "kill" => ownership \in {"Waitable", "Lost"}
  /\ pc \in {"drop", "done"} =>
       /\ ownership \in {"None", "Reaped", "Abandoned"}
       /\ ownership = "None" => result \in {"tool_error", "failed"}
       /\ ownership = "Reaped" => result \in {"reaped", "failed"}
       /\ ownership = "Abandoned" <=> result = "unquiesced"

(* Nobody else reaps, so the PID is ours until our own wait succeeds. *)
Exclusive ==
  ExclusiveReaper =>
    /\ child # "stolen" /\ pidfd # "stranger" /\ "stranger" \notin hit
    /\ reused => child = "reaped"

(* The handled flag and the armed grace remember the requests already made. *)
Requested ==
  /\ deadline = "unset" => requests = <<>>
  /\ ~handled => requests \in {<<>>, <<"limit">>}
  /\ OneTerminationRequest

(* Between poll and collection what poll saw is still pending or already kept. *)
Observed ==
  /\ pc \in {"schedule", "fork", "attach"} \cup LoopPcs => cleanup = "none"
  /\ atReady.signal =>
       \/ first # NoSignal
       \/ pc \in {"handshake", "observe"} /\ pending # {}
       \/ cleanup \in {"abort", "cancel"}
  /\ atReady.duration =>
       \/ "duration" \in exceeded
       \/ pc \in {"handshake", "observe", "limits"} /\ "duration" \in limited /\ durationDue
       \/ cleanup \in {"abort", "cancel"}

USE DEF config, loopVars, guardVars, endVars, history, kernel, supervisor

-----------------------------------------------------------------------------
(* Type correctness *)

(* A step of the supervisor, the kernel or the clock keeps every variable in
   its type. *)
LEMMA TypeStep == TypeOK /\ [Next]_vars => TypeOK'
<1> SUFFICES ASSUME TypeOK, [Next]_vars PROVE TypeOK'
  OBVIOUS
<1> USE LengthAssumption, SignalsAssumption DEF TypeOK, Limits, Alive, Unreaped, Pcs,
            LoopPcs, CleanupPcs
<1>1. CASE BeforeSpawn
  BY <1>1 DEF BeforeSpawn, Return
<1>2. CASE Fork
  BY <1>2 DEF Fork
<1>3. CASE Attach
  BY <1>3 DEF Attach
<1>4. CASE AttachDisowned
  BY <1>4 DEF AttachDisowned, Consume
<1>5. CASE Observe
  BY <1>5 DEF Observe
<1>6. CASE ObserveLimits
  BY <1>6 DEF ObserveLimits, DurationFacts, ByteFacts
<1>7. CASE NoSignalToHandle
  BY <1>7 DEF NoSignalToHandle
<1>8. CASE ForwardSignal
  BY <1>8 DEF ForwardSignal, Forward, Arm, Reached, SignalUnhandled
<1>9. CASE TerminateDirectly
  BY <1>9 DEF TerminateDirectly, Consume
<1>10. CASE NoLimitToHandle
  BY <1>10 DEF NoLimitToHandle
<1>11. CASE TerminateOnLimit
  BY <1>11 DEF TerminateOnLimit, Forward, Arm, Reached
<1>12. CASE NotReady
  BY <1>12 DEF NotReady
<1>13. CASE Collect
  BY <1>13 DEF Collect, Consume, CloseAtEof
<1>14. CASE CheckGrace
  BY <1>14 DEF CheckGrace, Consume
<1>15. CASE Poll
  BY <1>15 DEF Poll, PidfdReady, DurationArmed
<1>16. CASE ObserveHandshake
  BY <1>16 DEF ObserveHandshake, Consume, CloseAtEof
<1>17. CASE WaitNormally
  BY <1>17 DEF WaitNormally, Reaps, Return
<1>18. CASE WaitDisowned
  BY <1>18 DEF WaitDisowned
<1>19. CASE WaitTimesOut
  BY <1>19 DEF WaitTimesOut, FallBackToKill
<1>20. CASE Terminate
  <2>1. killError' \in BOOLEAN /\ pc' \in Pcs
    BY <1>20 DEF Terminate
  <2>2. KillReaches \subseteq {"child", "stranger"}
    BY DEF KillReaches, Reached
  <2>3. hit' \in SUBSET {"child", "stranger"}
    BY <1>20, <2>2 DEF Terminate
  <2> QED
    BY <1>20, <2>1, <2>3 DEF Terminate
<1>21. CASE SkipTermination
  BY <1>21 DEF SkipTermination, RevokeUnquiesced, Return
<1>22. CASE ReapAfterTermination
  BY <1>22 DEF ReapAfterTermination, Reaps, Return
<1>23. CASE ReapDisowned
  BY <1>23 DEF ReapDisowned, ReapFails, GiveUpReaping, RevokeUnquiesced, Return
<1>24. CASE ReapTimesOut
  BY <1>24 DEF ReapTimesOut, GiveUpReaping, RevokeUnquiesced, Return
<1>25. CASE DropGuard
  BY <1>25 DEF DropGuard, KillReaches, Reached
<1>26. CASE SpawnFails
  BY <1>26 DEF SpawnFails, Return
<1>27. CASE AttachFails
  BY <1>27 DEF AttachFails, Consume
<1>28. CASE ObserveFails
  BY <1>28 DEF ObserveFails, Consume
<1>29. CASE ObserveLimitsFails
  BY <1>29 DEF ObserveLimitsFails, Consume, DurationFacts
<1>30. CASE ForwardFails
  <2>1. handled' \in BOOLEAN
    BY <1>30 DEF ForwardFails
  <2>2. pc' \in Pcs /\ cleanup' = "abort" /\ budget' = budget
    BY <1>30 DEF ForwardFails, Consume
  <2>3. UNCHANGED <<config, guardVars, first, exceeded, deadline, newly, ready, killError,
                    lenError, result, kernel, history>>
    BY <1>30 DEF ForwardFails
  <2> QED
    BY <2>1, <2>2, <2>3
<1>31. CASE PollInterrupted
  <2>1. ready' \in BOOLEAN /\ pc' \in Pcs
    BY <1>31 DEF PollInterrupted
  <2>2. UNCHANGED <<config, guardVars, first, exceeded, handled, deadline, newly, endVars,
                    kernel, history>>
    BY <1>31 DEF PollInterrupted
  <2> QED
    BY <2>1, <2>2
<1>32. CASE PollFails
  BY <1>32 DEF PollFails, Consume
<1>33. CASE WaitFails
  BY <1>33 DEF WaitFails, FallBackToKill
<1>34. CASE ReapFails
  BY <1>34 DEF ReapFails, GiveUpReaping, RevokeUnquiesced, Return
<1>35. CASE DurationElapses
  BY <1>35 DEF DurationElapses
<1>36. CASE GraceElapses
  BY <1>36 DEF GraceElapses
<1>37. CASE BudgetElapses
  BY <1>37 DEF BudgetElapses
<1>38. CASE ChildExecs
  BY <1>38 DEF ChildExecs
<1>39. CASE ChildReports
  BY <1>39 DEF ChildReports
<1>40. CASE ChildExits
  BY <1>40 DEF ChildExits
<1>41. CASE ChildStolen
  BY <1>41 DEF ChildStolen
<1>42. CASE PidReused
  BY <1>42 DEF PidReused
<1>43. CASE SignalArrives
  BY <1>43 DEF SignalArrives
<1>44. CASE TraceGrows
  BY <1>44 DEF TraceGrows
<1>45. CASE UNCHANGED vars
  BY <1>45 DEF vars
<1> QED
  BY <1>1, <1>2, <1>3, <1>4, <1>5, <1>6, <1>7, <1>8, <1>9, <1>10, <1>11, <1>12, <1>13,
         <1>14, <1>15, <1>16, <1>17, <1>18, <1>19, <1>20, <1>21, <1>22, <1>23, <1>24,
         <1>25, <1>26, <1>27, <1>28, <1>29, <1>30, <1>31, <1>32, <1>33, <1>34, <1>35,
         <1>36, <1>37, <1>38, <1>39, <1>40, <1>41, <1>42, <1>43, <1>44, <1>45
     DEF Next, Progress, Faults, Clock, Kernel

(* Every reachable state of the supervised collector is well typed. *)
THEOREM TypeCorrect == Spec => []TypeOK
<1>1. Init => TypeOK
  <2> SUFFICES ASSUME Init PROVE TypeOK
    OBVIOUS
  <2>1. atReady \in [signal : BOOLEAN, duration : BOOLEAN] /\ requests \in Seq({"signal", "limit"})
    BY DEF Init
  <2>2. /\ handshakeOpen \in BOOLEAN /\ handled \in BOOLEAN /\ newly \in BOOLEAN
        /\ ready \in BOOLEAN /\ killError \in BOOLEAN /\ lenError \in BOOLEAN
        /\ reused \in BOOLEAN /\ durationDue \in BOOLEAN
    BY DEF Init
  <2>3. len \in 0..MaxLen /\ pc \in Pcs /\ child \in Unreaped \cup {"absent", "reaped", "stolen"}
    BY LengthAssumption DEF Init, Pcs
  <2> QED
    BY <2>1, <2>2, <2>3 DEF Init, TypeOK
<1> QED
  BY <1>1, TypeStep, PTL DEF Spec

-----------------------------------------------------------------------------
(* Ownership of the child *)

(* Each guard operation leaves ownership, child and result in agreement. *)
LEMMA AuthorityStep == TypeOK /\ Authority /\ [Next]_vars => Authority'
<1> SUFFICES ASSUME TypeOK, Authority, [Next]_vars PROVE Authority'
  OBVIOUS
<1> USE DEF TypeOK, LoopPcs, CleanupPcs, Pcs, Alive, Unreaped, Authority
<1>1. CASE BeforeSpawn \/ SpawnFails
  BY <1>1 DEF BeforeSpawn, Return, SpawnFails
<1>2. CASE Fork
  BY <1>2 DEF Fork
<1>3. CASE Attach
  BY <1>3 DEF Attach
<1>4. CASE AttachDisowned \/ AttachFails
  BY <1>4 DEF AttachDisowned, Consume, AttachFails
<1>5. CASE Observe \/ ObserveLimits \/ NoSignalToHandle \/ ForwardSignal \/
         NoLimitToHandle \/ TerminateOnLimit \/ NotReady \/ Poll \/ PollInterrupted
  BY <1>5 DEF Observe, ObserveLimits, NoSignalToHandle, ForwardSignal, Forward,
               NoLimitToHandle, TerminateOnLimit, NotReady, Poll, PollInterrupted
<1>6. CASE ObserveFails \/ ObserveLimitsFails \/ TerminateDirectly \/ ForwardFails \/
         PollFails
  BY <1>6 DEF ObserveFails, Consume, ObserveLimitsFails, TerminateDirectly,
               ForwardFails, PollFails
<1>7. CASE Collect \/ CheckGrace \/ ObserveHandshake
  BY <1>7 DEF Collect, Consume, CheckGrace, ObserveHandshake
<1>8. CASE WaitNormally
  BY <1>8 DEF WaitNormally, Reaps, Return
<1>9. CASE WaitDisowned
  BY <1>9 DEF WaitDisowned
<1>10. CASE WaitTimesOut \/ WaitFails
  BY <1>10 DEF WaitTimesOut, FallBackToKill, WaitFails
<1>11. CASE Terminate
  BY <1>11 DEF Terminate
<1>12. CASE SkipTermination
  BY <1>12 DEF SkipTermination, RevokeUnquiesced, Return
<1>13. CASE ReapAfterTermination
  BY <1>13 DEF ReapAfterTermination, Reaps, Return
<1>14. CASE ReapTimesOut \/ ReapFails \/ ReapDisowned
  BY <1>14 DEF ReapTimesOut, GiveUpReaping, RevokeUnquiesced, Return, ReapFails,
               ReapDisowned
<1>15. CASE DropGuard
  BY <1>15 DEF DropGuard
<1>16. CASE DurationElapses \/ GraceElapses \/ BudgetElapses \/ PidReused \/
         SignalArrives \/ TraceGrows \/ ChildReports
  BY <1>16 DEF DurationElapses, GraceElapses, BudgetElapses, PidReused, SignalArrives,
               TraceGrows, ChildReports
<1>17. CASE ChildExecs \/ ChildExits \/ ChildStolen
  BY <1>17 DEF ChildExecs, ChildExits, ChildStolen
<1>18. CASE UNCHANGED vars
  BY <1>18 DEF vars
<1> QED
  BY <1>1, <1>2, <1>3, <1>4, <1>5, <1>6, <1>7, <1>8, <1>9, <1>10, <1>11, <1>12, <1>13,
         <1>14, <1>15, <1>16, <1>17, <1>18
     DEF Next, Progress, Faults, Clock, Kernel

(* Ownership, child and result agree in every reachable state. *)
LEMMA AuthorityInvariant == Spec => [](TypeOK /\ Authority)
<1>1. Init => Authority
  BY DEF Init, Authority, LoopPcs
<1> QED
  BY <1>1, AuthorityStep, TypeCorrect, PTL DEF Spec

(* capture_collector returns facts only when no child can still write the trace,
   on every success, error and cleanup path. *)
THEOREM FactsAreQuiescent == Spec => []QuiescentFacts
<1>1. TypeOK /\ Authority => QuiescentFacts
  BY DEF TypeOK, Authority, QuiescentFacts
<1> QED
  BY <1>1, AuthorityInvariant, PTL

(* When the guard is dropped no authority is left, and "unquiesced" is reported
   exactly when no wait succeeded. *)
THEOREM AuthorityIsResolved == Spec => []AuthorityResolved
<1>1. TypeOK /\ Authority => AuthorityResolved
  BY DEF TypeOK, Authority, AuthorityResolved
<1> QED
  BY <1>1, AuthorityInvariant, PTL

(* No signal is sent once a wait consumed or disproved ownership. *)
THEOREM SignalsAreAuthorized == Spec => SignalsNeedAuthority
<1>1. TypeOK /\ Authority /\ [Next]_vars => [hit' # hit => ownership = "Waitable"]_vars
  <2> SUFFICES ASSUME TypeOK, Authority, Next, hit' # hit PROVE ownership = "Waitable"
    BY DEF vars
  <2>1. CASE ForwardSignal \/ TerminateOnLimit
    BY <2>1 DEF ForwardSignal, TerminateOnLimit, Authority, LoopPcs
  <2>2. CASE Terminate \/ DropGuard
    BY <2>2 DEF Terminate, DropGuard
  <2>3. CASE BeforeSpawn \/ Fork \/ Attach \/ AttachDisowned \/ Observe \/ ObserveLimits \/
            NoSignalToHandle \/ TerminateDirectly \/ NoLimitToHandle \/ NotReady \/
            Collect \/ CheckGrace \/ Poll
    BY <2>3 DEF BeforeSpawn, Fork, Attach, AttachDisowned, Observe, ObserveLimits,
                 NoSignalToHandle, TerminateDirectly, NoLimitToHandle, NotReady,
                 Collect, CheckGrace, Poll
  <2>4. CASE ObserveHandshake \/ WaitNormally \/ WaitDisowned \/ WaitTimesOut \/
            SkipTermination \/ ReapAfterTermination \/ ReapDisowned \/ ReapTimesOut \/
            SpawnFails \/ AttachFails \/ ObserveFails \/ ObserveLimitsFails \/
            ForwardFails
    BY <2>4 DEF ObserveHandshake, WaitNormally, WaitDisowned, WaitTimesOut,
                 FallBackToKill, SkipTermination, ReapAfterTermination, ReapDisowned,
                 ReapFails, GiveUpReaping, ReapTimesOut, SpawnFails, AttachFails,
                 ObserveFails, ObserveLimitsFails, ForwardFails
  <2>5. CASE PollInterrupted \/ PollFails \/ WaitFails \/ ReapFails \/ DurationElapses \/
            GraceElapses \/ BudgetElapses \/ ChildExecs \/ ChildReports \/ ChildExits \/
            ChildStolen \/ PidReused \/ SignalArrives \/ TraceGrows
    BY <2>5 DEF PollInterrupted, PollFails, WaitFails, FallBackToKill, ReapFails,
                 GiveUpReaping, DurationElapses, GraceElapses, BudgetElapses,
                 ChildExecs, ChildReports, ChildExits, ChildStolen, PidReused,
                 SignalArrives, TraceGrows
  <2> QED
    BY <2>1, <2>2, <2>3, <2>4, <2>5 DEF Next, Progress, Faults, Clock, Kernel
<1> QED
  BY <1>1, AuthorityInvariant, PTL DEF Spec, SignalsNeedAuthority

(* With an exclusive reaper the PID is not reused while it can be signalled. *)
LEMMA ExclusiveStep == TypeOK /\ Authority /\ Exclusive /\ [Next]_vars => Exclusive'
<1> SUFFICES ASSUME TypeOK, Authority, Exclusive, [Next]_vars PROVE Exclusive'
  OBVIOUS
<1> USE ReaperAssumption DEF TypeOK, LoopPcs, CleanupPcs, Pcs, Alive, Unreaped,
            Authority, Exclusive
<1>1. CASE Fork
  BY <1>1 DEF Fork
<1>2. CASE Attach
  BY <1>2 DEF Attach
<1>3. CASE ForwardSignal
  BY <1>3 DEF ForwardSignal, Forward, Reached
<1>4. CASE TerminateOnLimit
  BY <1>4 DEF TerminateOnLimit, Forward, Reached
<1>5. CASE WaitNormally
  BY <1>5 DEF WaitNormally, Reaps, Return
<1>6. CASE Terminate
  BY <1>6 DEF Terminate, KillReaches, Reached
<1>7. CASE ReapAfterTermination
  BY <1>7 DEF ReapAfterTermination, Reaps, Return
<1>8. CASE DropGuard
  BY <1>8 DEF DropGuard, KillReaches, Reached
<1>9. CASE ChildExecs \/ ChildExits
  BY <1>9 DEF ChildExecs, ChildExits
<1>10. CASE ChildStolen
  BY <1>10 DEF ChildStolen
<1>11. CASE PidReused
  BY <1>11 DEF PidReused
<1>12. CASE BeforeSpawn \/ AttachDisowned \/ Observe \/ ObserveLimits \/
         NoSignalToHandle \/ TerminateDirectly \/ NoLimitToHandle \/ NotReady \/ Collect \/
         CheckGrace \/ Poll \/ ObserveHandshake \/ WaitDisowned \/ WaitTimesOut
  BY <1>12 DEF BeforeSpawn, Return, AttachDisowned, Consume, Observe, ObserveLimits,
               NoSignalToHandle, TerminateDirectly, NoLimitToHandle, NotReady,
               Collect, CheckGrace, Poll, ObserveHandshake, WaitDisowned,
               WaitTimesOut, FallBackToKill
<1>13. CASE SkipTermination \/ ReapDisowned \/ ReapTimesOut \/ SpawnFails \/ AttachFails \/
         ObserveFails \/ ObserveLimitsFails \/ ForwardFails \/ PollInterrupted \/
         PollFails \/ WaitFails \/ ReapFails \/ DurationElapses \/ GraceElapses \/
         BudgetElapses \/ ChildReports \/ SignalArrives \/ TraceGrows
  BY <1>13 DEF SkipTermination, RevokeUnquiesced, Return, ReapDisowned, ReapFails,
               GiveUpReaping, ReapTimesOut, SpawnFails, AttachFails, Consume,
               ObserveFails, ObserveLimitsFails, ForwardFails, PollInterrupted,
               PollFails, WaitFails, FallBackToKill, DurationElapses, GraceElapses,
               BudgetElapses, ChildReports, SignalArrives, TraceGrows
<1>14. CASE UNCHANGED vars
  BY <1>14 DEF vars
<1> QED
  BY <1>1, <1>2, <1>3, <1>4, <1>5, <1>6, <1>7, <1>8, <1>9, <1>10, <1>11, <1>12, <1>13,
         <1>14
     DEF Next, Progress, Faults, Clock, Kernel

(* Under an exclusive reaper no signal reaches a process that inherited the PID. *)
THEOREM StrangersAreSafe == Spec => []NoStrangerSignalled
<1>1. Init => Exclusive
  BY DEF Init, Exclusive
<1>2. Exclusive => NoStrangerSignalled
  BY DEF Exclusive, NoStrangerSignalled
<1> QED
  BY <1>1, <1>2, ExclusiveStep, AuthorityInvariant, PTL DEF Spec

-----------------------------------------------------------------------------
(* Termination requests and the grace *)

(* The one sequence fact the requests need. *)
LEMMA AppendSignal == Append(<<"limit">>, "signal") = <<"limit", "signal">>
<1> DEFINE S == {"limit", "signal"}
           s == Append(<<"limit">>, "signal")
           t == <<"limit", "signal">>
<1>1. s \in Seq(S) /\ t \in Seq(S)
  OBVIOUS
<1>2. Len(s) = 2 /\ Len(t) = 2
  OBVIOUS
<1>3. s[1] = t[1] /\ s[2] = t[2]
  OBVIOUS
<1>4. \A i \in 1 .. Len(s) : s[i] = t[i]
  BY <1>2, <1>3
<1> HIDE DEF S, s, t
<1>5. s = t
  BY <1>1, <1>2, <1>4, SeqEqual
<1> QED
  BY <1>5 DEF s, t

(* A limit is forwarded only while no grace is armed, a signal only once. *)
LEMMA RequestedStep == TypeOK /\ Requested /\ [Next]_vars => Requested'
<1> SUFFICES ASSUME TypeOK, Requested, [Next]_vars PROVE Requested'
  OBVIOUS
<1> USE DEF TypeOK, Requested, OneTerminationRequest
<1>1. CASE ForwardSignal
  <2>1. ~handled /\ handled' = TRUE /\ deadline' # "unset"
    BY <1>1 DEF ForwardSignal, Arm, SignalUnhandled
  <2>2. requests' = Append(requests, "signal") /\ requests \in {<<>>, <<"limit">>}
    BY <1>1, <2>1 DEF ForwardSignal, Forward
  <2>3. Append(<<>>, "signal") = <<"signal">>
    OBVIOUS
  <2>4. requests' \in {<<"signal">>, <<"limit", "signal">>}
    BY <2>2, <2>3, AppendSignal
  <2> QED
    BY <2>1, <2>4
<1>2. CASE TerminateDirectly
  BY <1>2 DEF TerminateDirectly, Consume
<1>3. CASE TerminateOnLimit
  BY <1>3 DEF TerminateOnLimit, Forward, Arm, LimitUnhandled
<1>4. CASE ForwardFails
  BY <1>4 DEF ForwardFails, Consume, SignalUnhandled
<1>5. CASE GraceElapses
  BY <1>5 DEF GraceElapses
<1>6. CASE BeforeSpawn \/ Fork \/ Attach \/ AttachDisowned \/ Observe \/ ObserveLimits \/
         NoSignalToHandle \/ NoLimitToHandle \/ NotReady \/ Collect \/ CheckGrace \/ Poll \/
         ObserveHandshake
  BY <1>6 DEF BeforeSpawn, Return, Fork, Attach, AttachDisowned, Consume, Observe,
               ObserveLimits, NoSignalToHandle, NoLimitToHandle, NotReady, Collect,
               CheckGrace, Poll, ObserveHandshake
<1>7. CASE WaitNormally \/ WaitDisowned \/ WaitTimesOut \/ Terminate \/ SkipTermination \/
         ReapAfterTermination \/ ReapDisowned \/ ReapTimesOut \/ DropGuard \/ SpawnFails \/
         AttachFails \/ ObserveFails \/ ObserveLimitsFails
  BY <1>7 DEF WaitNormally, Reaps, Return, WaitDisowned, WaitTimesOut, FallBackToKill,
               Terminate, SkipTermination, RevokeUnquiesced, ReapAfterTermination,
               ReapDisowned, ReapFails, GiveUpReaping, ReapTimesOut, DropGuard,
               SpawnFails, AttachFails, Consume, ObserveFails, ObserveLimitsFails
<1>8. CASE PollInterrupted \/ PollFails \/ WaitFails \/ ReapFails \/ DurationElapses \/
         BudgetElapses \/ ChildExecs \/ ChildReports \/ ChildExits \/ ChildStolen \/
         PidReused \/ SignalArrives \/ TraceGrows
  BY <1>8 DEF PollInterrupted, PollFails, Consume, WaitFails, FallBackToKill,
               ReapFails, GiveUpReaping, RevokeUnquiesced, Return, DurationElapses,
               BudgetElapses, ChildExecs, ChildReports, ChildExits, ChildStolen,
               PidReused, SignalArrives, TraceGrows
<1>9. CASE UNCHANGED vars
  BY <1>9 DEF vars
<1> QED
  BY <1>1, <1>2, <1>3, <1>4, <1>5, <1>6, <1>7, <1>8, <1>9
     DEF Next, Progress, Faults, Clock, Kernel

(* One grace is shared: at most one limit request, then at most one signal. *)
THEOREM RequestsAreBounded == Spec => []OneTerminationRequest
<1>1. Init => Requested
  BY DEF Init, Requested, OneTerminationRequest
<1>2. Requested => OneTerminationRequest
  BY DEF Requested
<1> QED
  BY <1>1, <1>2, RequestedStep, TypeCorrect, PTL DEF Spec

(* The grace deadline is set once and, once due, stays due. *)
THEOREM GraceIsMonotonic == Spec => GraceNeverRestarts
<1>1. TypeOK /\ [Next]_vars => [deadline' # deadline => <<deadline, deadline'>> \in
        {<<"unset", "running">>, <<"running", "due">>}]_vars
  <2> SUFFICES ASSUME TypeOK, Next PROVE deadline' # deadline => <<deadline, deadline'>> \in
        {<<"unset", "running">>, <<"running", "due">>}
    BY DEF vars
  <2>1. CASE ForwardSignal
    BY <2>1 DEF ForwardSignal, Arm
  <2>2. CASE TerminateOnLimit
    BY <2>2 DEF TerminateOnLimit, Arm
  <2>3. CASE GraceElapses
    BY <2>3 DEF GraceElapses
  <2>4. CASE BeforeSpawn \/ Fork \/ Attach \/ AttachDisowned \/ Observe \/ ObserveLimits \/
            NoSignalToHandle \/ TerminateDirectly \/ NoLimitToHandle \/ NotReady \/
            Collect \/ CheckGrace \/ Poll
    BY <2>4 DEF BeforeSpawn, Fork, Attach, AttachDisowned, Observe, ObserveLimits,
                 NoSignalToHandle, TerminateDirectly, NoLimitToHandle, NotReady,
                 Collect, CheckGrace, Poll
  <2>5. CASE ObserveHandshake \/ WaitNormally \/ WaitDisowned \/ WaitTimesOut \/
            Terminate \/ SkipTermination \/ ReapAfterTermination \/ ReapDisowned \/
            ReapTimesOut \/ DropGuard \/ SpawnFails \/ AttachFails \/ ObserveFails
    BY <2>5 DEF ObserveHandshake, WaitNormally, WaitDisowned, WaitTimesOut,
                 FallBackToKill, Terminate, SkipTermination, ReapAfterTermination,
                 ReapDisowned, ReapFails, GiveUpReaping, ReapTimesOut, DropGuard,
                 SpawnFails, AttachFails, ObserveFails
  <2>6. CASE ObserveLimitsFails \/ ForwardFails \/ PollInterrupted \/ PollFails \/
            WaitFails \/ ReapFails \/ DurationElapses \/ BudgetElapses \/ ChildExecs \/
            ChildReports \/ ChildExits \/ ChildStolen \/ PidReused \/ SignalArrives \/
            TraceGrows
    BY <2>6 DEF ObserveLimitsFails, ForwardFails, PollInterrupted, PollFails,
                 WaitFails, FallBackToKill, ReapFails, GiveUpReaping, DurationElapses,
                 BudgetElapses, ChildExecs, ChildReports, ChildExits, ChildStolen,
                 PidReused, SignalArrives, TraceGrows
  <2> QED
    BY <2>1, <2>2, <2>3, <2>4, <2>5, <2>6 DEF Next, Progress, Faults, Clock, Kernel
<1> QED
  BY <1>1, TypeCorrect, PTL DEF Spec, GraceNeverRestarts

-----------------------------------------------------------------------------
(* Observation before collection *)

(* What poll saw stays pending until the step that keeps it. *)
LEMMA ObservedStep == TypeOK /\ Observed /\ [Next]_vars => Observed'
<1> SUFFICES ASSUME TypeOK, Observed, [Next]_vars PROVE Observed'
  OBVIOUS
<1> USE DEF TypeOK, LoopPcs, CleanupPcs, Pcs, Alive, Unreaped, Observed
<1>1. CASE Observe
  BY <1>1, SignalsAssumption DEF Observe
<1>2. CASE ObserveFails
  BY <1>2 DEF ObserveFails, Consume
<1>3. CASE ObserveLimits
  BY <1>3 DEF ObserveLimits, DurationFacts
<1>4. CASE ObserveLimitsFails
  BY <1>4 DEF ObserveLimitsFails, Consume, DurationFacts
<1>5. CASE Collect
  BY <1>5 DEF Collect, Consume
<1>6. CASE CheckGrace
  BY <1>6 DEF CheckGrace, Consume
<1>7. CASE Poll
  BY <1>7 DEF Poll, PidfdReady, DurationArmed
<1>8. CASE ObserveHandshake
  BY <1>8 DEF ObserveHandshake, Consume
<1>9. CASE DurationElapses
  BY <1>9 DEF DurationElapses
<1>10. CASE SignalArrives
  BY <1>10 DEF SignalArrives
<1>11. CASE PollInterrupted
  BY <1>11 DEF PollInterrupted
<1>12. CASE AttachDisowned \/ AttachFails \/ TerminateDirectly \/ ForwardFails \/
         PollFails
  BY <1>12 DEF AttachDisowned, Consume, AttachFails, TerminateDirectly, ForwardFails,
               PollFails
<1>13. CASE BeforeSpawn \/ Fork \/ Attach \/ NoSignalToHandle \/ ForwardSignal \/
         NoLimitToHandle \/ TerminateOnLimit \/ NotReady \/ WaitNormally \/ WaitDisowned \/
         WaitTimesOut \/ Terminate \/ SkipTermination
  BY <1>13 DEF BeforeSpawn, Return, Fork, Attach, NoSignalToHandle, ForwardSignal,
               Forward, NoLimitToHandle, TerminateOnLimit, NotReady, WaitNormally,
               Reaps, WaitDisowned, WaitTimesOut, FallBackToKill, Terminate,
               SkipTermination, RevokeUnquiesced
<1>14. CASE ReapAfterTermination \/ ReapDisowned \/ ReapTimesOut \/ DropGuard \/
         SpawnFails \/ WaitFails \/ ReapFails \/ GraceElapses \/ BudgetElapses \/
         ChildExecs \/ ChildReports \/ ChildExits \/ ChildStolen \/ PidReused \/
         TraceGrows
  BY <1>14 DEF ReapAfterTermination, Reaps, Return, ReapDisowned, ReapFails,
               GiveUpReaping, RevokeUnquiesced, ReapTimesOut, DropGuard, SpawnFails,
               WaitFails, FallBackToKill, GraceElapses, BudgetElapses, ChildExecs,
               ChildReports, ChildExits, ChildStolen, PidReused, TraceGrows
<1>15. CASE UNCHANGED vars
  BY <1>15 DEF vars
<1> QED
  BY <1>1, <1>2, <1>3, <1>4, <1>5, <1>6, <1>7, <1>8, <1>9, <1>10, <1>11, <1>12, <1>13,
         <1>14, <1>15
     DEF Next, Progress, Faults, Clock, Kernel

(* Facts observable when poll reported the exit are kept before the status. *)
THEOREM FactsPrecedeStatus == Spec => []StatusAfterObservation
<1>1. Init => Observed
  BY DEF Init, Observed
<1>2. TypeOK /\ Authority /\ Observed => StatusAfterObservation
  BY DEF TypeOK, Authority, Observed, StatusAfterObservation
<1> QED
  BY <1>1, <1>2, ObservedStep, AuthorityInvariant, PTL DEF Spec

-----------------------------------------------------------------------------
(* Refinement *)

(* Every step is a step of EvidenceLifetime or leaves its state alone. *)
LEMMA EvidenceStep == TypeOK /\ Authority /\ [Next]_vars => [Evidence!Next]_(Evidence!evidenceVars)
<1> SUFFICES ASSUME TypeOK, Authority, [Next]_vars
             PROVE  [Evidence!Next]_(Evidence!evidenceVars)
  OBVIOUS
<1> USE DEF TypeOK, Authority, Alive, Unreaped, LoopPcs, Evidence!evidenceVars
<1>1. CASE BeforeSpawn
  BY <1>1 DEF BeforeSpawn, Return, Evidence!Next, Evidence!Refuse
<1>2. CASE SpawnFails
  BY <1>2 DEF SpawnFails, Return, Evidence!Next, Evidence!Publish
<1>3. CASE Fork
  BY <1>3 DEF Fork, Evidence!Next, Evidence!Start
<1>4. CASE WaitNormally
  BY <1>4 DEF WaitNormally, Reaps, Return, Evidence!Next, Evidence!Publish
<1>5. CASE ReapAfterTermination
  BY <1>5 DEF ReapAfterTermination, Reaps, Return, Evidence!Next, Evidence!Publish
<1>6. CASE SkipTermination
  BY <1>6 DEF SkipTermination, RevokeUnquiesced, Return, Evidence!Next,
               Evidence!Refuse
<1>7. CASE ReapTimesOut \/ ReapFails \/ ReapDisowned
  BY <1>7 DEF ReapTimesOut, GiveUpReaping, RevokeUnquiesced, Return, ReapFails,
               ReapDisowned, Evidence!Next, Evidence!Refuse
<1>8. CASE DropGuard
  BY <1>8 DEF DropGuard
<1>9. CASE ChildExits
  BY <1>9 DEF ChildExits, Evidence!Next, Evidence!End
<1>10. CASE ChildExecs \/ ChildStolen
  BY <1>10 DEF ChildExecs, ChildStolen
<1>11. CASE TraceGrows
  BY <1>11 DEF TraceGrows, Evidence!Next, Evidence!Write
<1>12. CASE Attach \/ AttachDisowned \/ Observe \/ ObserveLimits \/ NoSignalToHandle \/
         ForwardSignal \/ TerminateDirectly \/ NoLimitToHandle \/ TerminateOnLimit \/
         NotReady \/ Collect \/ CheckGrace \/ Poll \/ ObserveHandshake
  BY <1>12 DEF Attach, AttachDisowned, Observe, ObserveLimits, NoSignalToHandle,
               ForwardSignal, Forward, TerminateDirectly, NoLimitToHandle,
               TerminateOnLimit, NotReady, Collect, CheckGrace, Poll, ObserveHandshake
<1>13. CASE WaitDisowned \/ WaitTimesOut \/ Terminate \/ AttachFails \/ ObserveFails \/
         ObserveLimitsFails \/ ForwardFails \/ PollInterrupted \/ PollFails \/ WaitFails \/
         DurationElapses \/ GraceElapses \/ BudgetElapses \/ ChildReports \/ PidReused \/
         SignalArrives
  BY <1>13 DEF WaitDisowned, WaitTimesOut, FallBackToKill, Terminate, AttachFails,
               ObserveFails, ObserveLimitsFails, ForwardFails, PollInterrupted,
               PollFails, WaitFails, DurationElapses, GraceElapses, BudgetElapses,
               ChildReports, PidReused, SignalArrives
<1>14. CASE UNCHANGED vars
  BY <1>14 DEF vars
<1> QED
  BY <1>1, <1>2, <1>3, <1>4, <1>5, <1>6, <1>7, <1>8, <1>9, <1>10, <1>11, <1>12, <1>13,
         <1>14
     DEF Next, Progress, Faults, Clock, Kernel

(* The supervised collector keeps the promise of EvidenceLifetime: the raw trace
   cannot change once facts about it were handed out. *)
THEOREM EvidenceRefinement == Spec => KeepsEvidencePromise
<1>1. Init => Evidence!Init
  BY DEF Init, Evidence!Init, Alive
<1> QED
  BY <1>1, EvidenceStep, AuthorityInvariant, PTL DEF Spec, KeepsEvidencePromise, Evidence!Spec

=============================================================================

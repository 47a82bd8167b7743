----------------------------- MODULE TaskTimeline -----------------------------
(***************************************************************************)
(* Task lifetimes derived from a trace, from TaskTimeline and              *)
(* bind_task_generations in src/parse/mod.rs and Completion in             *)
(* src/capture/completion.rs.                                              *)
(*                                                                         *)
(* First real tasks run and strace writes one event per call: numeric PIDs *)
(* are reused, a spawn is entered before its child exists and reported     *)
(* after the child may have acted, and lines can be missing.  Then the     *)
(* code replays the events in evidence order.  Every event carries, as     *)
(* history the code cannot see, the real lifetimes it is about.            *)
(***************************************************************************)
EXTENDS Naturals, Sequences, FiniteSets, SequencesExt, TLC

CONSTANTS
  Pids,        \* numeric task IDs
  NoPid,       \* no task
  MaxEvents,   \* bound on the events that happen, written or not
  MaxLost      \* bound on the events missing from the trace

ASSUME TimelineAssumption ==
  /\ NoPid \notin Pids /\ Pids # {} /\ IsFiniteSet(Pids)
  /\ MaxEvents \in Nat /\ MaxLost \in Nat

VARIABLES
  \* the traced tasks
  life,        \* real lifetime now behind a PID, 0 if there is none
  lives,       \* lifetimes so far
  calls,       \* the spawn a PID is inside: entry line (0 if none), child, child's lifetime
  freed,       \* line at which a PID was last freed, 0 if never
  line,        \* lines of the trace so far
  lost,        \* events missing from it
  raced,       \* a child got a PID that was freed after its spawn was entered
  events,      \* normalized events, in the order of their returns
  \* from_observations
  phase,       \* "tracing" or "replaying"
  position,    \* events of the evidence order handled so far
  generations, \* Vec<TaskGeneration>
  actor, child,\* event_generations and spawned_generations (0 is None)
  active       \* live generation of a PID (0 is None)

worldVars == <<life, lives, calls, freed, line, lost, raced, events>>
replayVars == <<position, generations, actor, child, active>>
timelineVars == <<worldVars, phase, replayVars>>

NoCall == [line |-> 0, child |-> NoPid, life |-> 0]

TimelineInit ==
  /\ \E root \in Pids : life = [p \in Pids |-> IF p = root THEN 1 ELSE 0]
  /\ lives = 1 /\ calls = [p \in Pids |-> NoCall] /\ freed = [p \in Pids |-> 0]
  /\ line = 0 /\ lost = 0 /\ raced = FALSE /\ events = <<>>
  /\ phase = "tracing" /\ position = 0
  /\ generations = <<>> /\ actor = <<>> /\ child = <<>>
  /\ active = [p \in Pids |-> 0]

-----------------------------------------------------------------------------
(* The traced tasks and strace (external) *)

Event(p, kind, call) ==
  [pid |-> p, kind |-> kind, life |-> life[p],
   line |-> IF call = NoCall THEN line + 1 ELSE call.line, end |-> line + 1,
   childPid |-> call.child, childLife |-> call.life]

(* The next line carries the event, or is missing together with it; `also` *)
(* events are missing whatever happens.                                    *)
Write(event, also) ==
  /\ Len(events) + lost + also < MaxEvents
  /\ lost + also <= MaxLost
  /\ line' = line + 1
  /\ \/ events' = Append(events, event) /\ lost' = lost + also
     \/ events' = events /\ lost + also < MaxLost /\ lost' = lost + also + 1

Running(p) == phase = "tracing" /\ life[p] # 0

(* A successful exec, or a call without a role in task identity. *)
Call(p, kind) ==
  /\ Running(p) /\ calls[p] = NoCall
  /\ Write(Event(p, kind, NoCall), 0)
  /\ UNCHANGED <<life, lives, calls, freed, raced, phase, replayVars>>

EnterSpawn(p) ==
  /\ Running(p) /\ calls[p] = NoCall
  /\ Len(events) + lost < MaxEvents
  /\ line' = line + 1
  /\ calls' = [calls EXCEPT ![p].line = line + 1]
  /\ UNCHANGED <<life, lives, freed, lost, raced, events, phase, replayVars>>

(* The kernel gives the child a free PID; it may act before p returns. *)
Fork(p, q) ==
  /\ Running(p) /\ calls[p].line # 0 /\ calls[p].child = NoPid
  /\ life[q] = 0
  /\ life' = [life EXCEPT ![q] = lives + 1]
  /\ lives' = lives + 1
  /\ calls' = [calls EXCEPT ![p].child = q, ![p].life = lives + 1]
  /\ raced' = (raced \/ calls[p].line < freed[q])
  /\ UNCHANGED <<freed, line, lost, events, phase, replayVars>>

(* By now the child may have exited and its PID may belong to another task. *)
ReturnFromSpawn(p) ==
  /\ Running(p) /\ calls[p].child # NoPid
  /\ Write(Event(p, "spawn", calls[p]), 0)
  /\ calls' = [calls EXCEPT ![p] = NoCall]
  /\ UNCHANGED <<life, lives, freed, raced, phase, replayVars>>

(* A task ends by itself, or is killed inside a spawn whose child then has *)
(* no event.                                                               *)
Exit(p) ==
  /\ Running(p)
  /\ Write(Event(p, "exit", NoCall), IF calls[p].child = NoPid THEN 0 ELSE 1)
  /\ life' = [life EXCEPT ![p] = 0]
  /\ freed' = [freed EXCEPT ![p] = line + 1]
  /\ calls' = [calls EXCEPT ![p] = NoCall]
  /\ UNCHANGED <<lives, raced, phase, replayVars>>

-----------------------------------------------------------------------------
(* TaskTimeline::from_observations *)

(* The trace is read when its producer is gone, whatever the tasks did; a  *)
(* spawn still unreported then is one more missing event.                  *)
Unreported == {p \in Pids : calls[p].child # NoPid}
EndTrace ==
  /\ phase = "tracing" /\ events # <<>>
  /\ lost + Cardinality(Unreported) <= MaxLost
  /\ phase' = "replaying"
  /\ lost' = lost + Cardinality(Unreported)
  /\ actor' = [i \in DOMAIN events |-> 0]
  /\ child' = [i \in DOMAIN events |-> 0]
  /\ UNCHANGED <<life, lives, calls, freed, line, raced, events, position, generations, active>>

(* Variant: the order in which calls returned. *)
BeforeByReturn(i, j) == i < j

Before(i, j) ==
  \/ events[i].line < events[j].line
  \/ events[i].line = events[j].line /\ events[i].end < events[j].end
  \/ events[i].line = events[j].line /\ events[i].end = events[j].end /\ i < j

(* event_order: by entry line, return line and insertion. *)
EventOrder ==
  [k \in DOMAIN events |->
     CHOOSE i \in DOMAIN events : Cardinality({j \in DOMAIN events : Before(j, i)}) = k - 1]

PushGeneration(gens, pid, origin) ==
  Append(gens, [pid |-> pid, origin |-> origin, exit |-> 0,
                ordinal |-> Cardinality({g \in DOMAIN gens : gens[g].pid = pid}) + 1])

(* The origin of an actor nobody introduced. *)
ActorOrigin(pid) ==
  CASE generations = <<>> -> "Initial"
    [] \E g \in DOMAIN generations : generations[g].pid = pid -> "Reappeared"
    [] OTHER -> "Unintroduced"

(* Generations and live map after the actor, its exit and its child. *)
WithActor(e) ==
  IF active[e.pid] # 0
  THEN [id |-> active[e.pid], gens |-> generations, live |-> active]
  ELSE [id |-> Len(generations) + 1,
        gens |-> PushGeneration(generations, e.pid, ActorOrigin(e.pid)),
        live |-> [active EXCEPT ![e.pid] = Len(generations) + 1]]

WithExit(e, i, r) ==
  IF e.kind = "exit"
  THEN [id |-> r.id, gens |-> [r.gens EXCEPT ![r.id].exit = i],
        live |-> [r.live EXCEPT ![e.pid] = 0]]
  ELSE r

(* Variant: a spawn of a live PID reuses its generation. *)
WithChildReusing(e, r) ==
  IF e.childPid = NoPid
  THEN [id |-> r.id, spawned |-> 0, gens |-> r.gens, live |-> r.live]
  ELSE IF r.live[e.childPid] # 0
  THEN [id |-> r.id, spawned |-> r.live[e.childPid], gens |-> r.gens, live |-> r.live]
  ELSE [id |-> r.id, spawned |-> Len(r.gens) + 1,
        gens |-> PushGeneration(r.gens, e.childPid, "Spawned"),
        live |-> [r.live EXCEPT ![e.childPid] = Len(r.gens) + 1]]

(* A spawn always allocates, also when the PID is still live. *)
WithChild(e, r) ==
  IF e.childPid = NoPid
  THEN [id |-> r.id, spawned |-> 0, gens |-> r.gens, live |-> r.live]
  ELSE [id |-> r.id, spawned |-> Len(r.gens) + 1,
        gens |-> PushGeneration(r.gens, e.childPid,
                   IF r.live[e.childPid] = 0 THEN "Spawned" ELSE "LiveCollision"),
        live |-> [r.live EXCEPT ![e.childPid] = Len(r.gens) + 1]]

ObserveEvent ==
  /\ phase = "replaying" /\ position < Len(events)
  /\ LET i == EventOrder[position + 1]
         r == WithChild(events[i], WithExit(events[i], i, WithActor(events[i])))
     IN /\ generations' = r.gens
        /\ active' = r.live
        /\ actor' = [actor EXCEPT ![i] = r.id]
        /\ child' = [child EXCEPT ![i] = r.spawned]
  /\ position' = position + 1
  /\ UNCHANGED <<worldVars, phase>>

TimelineNext ==
  \/ \E p \in Pids :
       \/ \E kind \in {"call", "exec"} : Call(p, kind)
       \/ EnterSpawn(p)
       \/ \E q \in Pids : Fork(p, q)
       \/ ReturnFromSpawn(p)
       \/ Exit(p)
  \/ EndTrace
  \/ ObserveEvent

TimelineSpec == TimelineInit /\ [][TimelineNext]_timelineVars

-----------------------------------------------------------------------------
(* What the finished timeline says *)

Finished == phase = "replaying" /\ position = Len(events)

IsUntrusted(g) == generations[g].origin \in {"Unintroduced", "Reappeared", "LiveCollision"}

(* bind_task_generations: the identity stored with an event. *)
TaskGeneration(i) == <<events[i].pid, generations[actor[i]].ordinal>>
ChildGeneration(i) == <<events[i].childPid, generations[child[i]].ordinal>>

(* Completion::from_timeline: first successful exec in evidence order, and *)
(* the exit of exactly its generation (0 is None).                         *)
Execs == {k \in DOMAIN events : events[EventOrder[k]].kind = "exec"}
RootExec == IF Execs = {} THEN 0 ELSE EventOrder[CHOOSE k \in Execs : \A l \in Execs : k <= l]
(* Variant: any exit of the root's numeric PID. *)
RootExitByPid ==
  LET exits == {i \in DOMAIN events : /\ RootExec # 0 /\ events[i].kind = "exit"
                                      /\ events[i].pid = events[RootExec].pid}
  IN IF exits = {} THEN 0 ELSE CHOOSE i \in exits : \A j \in exits : j <= i

RootExit == IF RootExec = 0 THEN 0 ELSE generations[actor[RootExec]].exit
(* Variant: an exit of any generation of the PID will do. *)
MissingExitsByPid ==
  {g \in DOMAIN generations :
     \A h \in DOMAIN generations :
       generations[h].pid = generations[g].pid => generations[h].exit = 0}

MissingExits == {g \in DOMAIN generations : generations[g].exit = 0}

(***************************************************************************)
(* Properties                                                              *)
(***************************************************************************)

(* A reported target completion is the end of the task that ran the first  *)
(* exec: unless the trace carries an identity finding, the exit chosen by  *)
(* Completion belongs to the same real lifetime as the root exec, although *)
(* PIDs are reused, spawns overlap and one line is missing.                *)
RootCompletionSound ==
  Finished /\ RootExit # 0 /\ (\A g \in DOMAIN generations : ~IsUntrusted(g))
  => events[RootExit].life = events[RootExec].life

(* One missing line never makes the timeline quietly attribute two tasks'  *)
(* calls to one stored identity, trusted or not.  Only when it comes with  *)
(* a PID freed and reused inside a spawn may two lifetimes be merged, even *)
(* in a generation of trusted origin, and then the trace carries an        *)
(* identity finding.                                                       *)
NoSilentMerge ==
  Finished /\ (raced /\ lost > 0 => \A g \in DOMAIN generations : ~IsUntrusted(g)) =>
    \A i, j \in DOMAIN events :
      TaskGeneration(i) = TaskGeneration(j) => events[i].life = events[j].life

(* When no event is missing and no child got a PID freed during its spawn, *)
(* the stored identities are exactly the real lifetimes, nothing flagged.  *)
ExactWhenComplete ==
  Finished /\ lost = 0 /\ ~raced =>
    /\ \A g \in DOMAIN generations : ~IsUntrusted(g)
    /\ \A i, j \in DOMAIN events :
         TaskGeneration(i) = TaskGeneration(j) <=> events[i].life = events[j].life
    /\ \A i, j \in DOMAIN events :
         events[i].childPid # NoPid =>
           (ChildGeneration(i) = TaskGeneration(j) <=> events[i].childLife = events[j].life)

(* A trace that reports no missing exit and no identity finding accounts   *)
(* for every task: each reported child's end is in it, so `complete` is    *)
(* never claimed while a reported task was still running, unless a missing *)
(* event and a PID freed and reused inside a spawn come together.          *)
NoMissingMeansEnded ==
  Finished /\ ~(raced /\ lost > 0) /\ MissingExits = {} /\ (\A g \in DOMAIN generations : ~IsUntrusted(g))
  => \A i \in DOMAIN events : \A p \in Pids :
       life[p] # 0 => life[p] \notin {events[i].life, events[i].childLife}
==============================================================================

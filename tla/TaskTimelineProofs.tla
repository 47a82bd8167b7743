-------------------------- MODULE TaskTimelineProofs --------------------------
(***************************************************************************)
(* Proofs about TaskTimeline and TraceContract, for any number of PIDs,    *)
(* lifetimes and events and any number missing.                            *)
(*                                                                         *)
(* The trace's own order of lines does not show who lived when, so the     *)
(* world's half of the invariant asserts that some history exists that the *)
(* trace was told from: for every lifetime its PID, the line at which the  *)
(* spawn that created it was entered and the line at which it exited       *)
(* (WorldInv).  Traced is what is left of it once tracing is over.  The    *)
(* replay's half says which handled events share a generation: a spawn or  *)
(* exit of a PID separates its events (Separated), and when no birth is    *)
(* missing and nothing is flagged, generations are lifetimes (Exact).      *)
(* A missing event spoils only one of the two arguments, which is why the  *)
(* theorems about incomplete traces allow one.                             *)
(*                                                                         *)
(* The reader of the saved events follows the writer's replay: after every *)
(* handled event its state and the table of generations agree (TraceInv),  *)
(* so it accepts each row where it stands and refuses any other ordinal or *)
(* a lost mark there.                                                      *)
(***************************************************************************)
EXTENDS TraceContract, FiniteSetTheorems, TLAPS

(* The types of events, pending calls and generations. *)
Kinds == {"call", "exec", "spawn", "exit"}
Origins == {"Initial", "Spawned", "Unintroduced", "Reappeared", "LiveCollision"}
EventType ==
  [pid : Pids, kind : Kinds, life : Nat, line : Nat, end : Nat,
   childPid : Pids \cup {NoPid}, childLife : Nat]
CallType == [line : Nat, child : Pids \cup {NoPid}, life : Nat]
GenerationType == [pid : Pids, origin : Origins, exit : Nat, ordinal : Nat]

(* Type correctness of the traced tasks and of the trace. *)
WorldTypeOK ==
  /\ life \in [Pids -> Nat] /\ lives \in Nat
  /\ calls \in [Pids -> CallType] /\ freed \in [Pids -> Nat]
  /\ line \in Nat /\ lost \in Nat /\ lost <= MaxLost /\ raced \in BOOLEAN
  /\ events \in Seq(EventType)
  /\ phase \in {"tracing", "replaying"}

(* The lifetimes of the traced tasks: own[L] is the PID of lifetime L,     *)
(* birth[L] the line at which the spawn that created it was entered (0 for *)
(* the first task) and gone[L] the line at which it exited (0 if it did    *)
(* not).                                                                   *)
Lifetimes(own, birth, gone) ==
  /\ lives >= 1
  /\ \A L \in 1..lives :
       /\ own[L] \in Pids
       /\ birth[L] <= line /\ gone[L] <= line /\ gone[L] <= freed[own[L]]
       /\ gone[L] # 0 => birth[L] < gone[L]
       /\ gone[L] = 0 => life[own[L]] = L
       /\ birth[L] = 0 <=> L = 1
  /\ \A p \in Pids : freed[p] <= line
  /\ \A p \in Pids :
       life[p] # 0 => life[p] \in 1..lives /\ own[life[p]] = p /\ gone[life[p]] = 0

(* A PID has one task after the other. *)
Succession(own, birth, gone) ==
  \A K, L \in 1..lives :
    K < L /\ own[K] = own[L] =>
      /\ gone[K] # 0
      /\ gone[L] # 0 => gone[K] < gone[L]
      /\ ~raced => gone[K] <= birth[L]

(* A spawn under way was entered after its task's birth, on a line of no  *)
(* event; once it has forked, that line is the birth of its child.         *)
PendingCalls(own, birth, gone) ==
  /\ \A p \in Pids : calls[p].line # 0 =>
       /\ life[p] # 0 /\ birth[life[p]] < calls[p].line /\ calls[p].line <= line
       /\ freed[p] < calls[p].line
       /\ \A i \in DOMAIN events : events[i].line # calls[p].line
       /\ \A q \in Pids : calls[q].line = calls[p].line => p = q
  /\ \A p \in Pids : calls[p].line = 0 => calls[p] = NoCall
  /\ \A p \in Pids : calls[p].child = NoPid <=> calls[p].life = 0
  /\ \A p \in Pids : calls[p].life # 0 =>
       /\ calls[p].life \in 1..lives
       /\ own[calls[p].life] = calls[p].child
       /\ birth[calls[p].life] = calls[p].line

(* An event lies within its lifetime and after the earlier ones of its     *)
(* PID; a spawn's entry is the birth of its child.                         *)
EventTold(e, own, birth, gone) ==
  /\ e.line \in 1..line
  /\ e.life \in 1..lives /\ own[e.life] = e.pid
  /\ birth[e.life] < e.line
  /\ gone[e.life] # 0 => e.line <= gone[e.life]
  /\ \A K \in 1..lives : K < e.life /\ own[K] = e.pid => gone[K] < e.line
  /\ e.kind = "exit" => gone[e.life] = e.line
  /\ e.kind = "spawn" <=> e.childPid # NoPid
  /\ e.childPid = NoPid <=> e.childLife = 0
  /\ e.childLife # 0 =>
       /\ e.childLife \in 1..lives
       /\ own[e.childLife] = e.childPid /\ birth[e.childLife] = e.line

(* The events, each on its own line, are told from the lifetimes. *)
Written(own, birth, gone) ==
  /\ \A i, j \in DOMAIN events : events[i].line = events[j].line => i = j
  /\ \A i \in DOMAIN events : EventTold(events[i], own, birth, gone)

(* No exit is missing; no birth is missing (a spawn that has not returned  *)
(* may still be written); a single missing event cannot spoil both.        *)
ExitsTold(gone) ==
  \A L \in 1..lives : gone[L] # 0 =>
    \E i \in DOMAIN events : events[i].kind = "exit" /\ events[i].life = L
BirthsTold ==
  \A L \in 2..lives :
    \/ \E i \in DOMAIN events : events[i].childLife = L
    \/ phase = "tracing" /\ \E p \in Pids : calls[p].life = L
Losses(gone) ==
  /\ lost = 0 => ExitsTold(gone) /\ BirthsTold
  /\ lost <= 1 => ExitsTold(gone) \/ BirthsTold

Told(own, birth, gone) ==
  /\ Lifetimes(own, birth, gone) /\ Succession(own, birth, gone)
  /\ PendingCalls(own, birth, gone) /\ Written(own, birth, gone)
  /\ Losses(gone)

(* Some lifetimes explain the trace. *)
WorldInv ==
  \E own \in [Nat -> Pids], birth, gone \in [Nat -> Nat] : Told(own, birth, gone)

-----------------------------------------------------------------------------
(* What a line adds to the events, if it is not missing. *)
Extended(e) ==
  /\ events' \in Seq(EventType)
  /\ \A i \in DOMAIN events : i \in DOMAIN events' /\ events'[i] = events[i]
  /\ \A i \in DOMAIN events' : i \notin DOMAIN events => events'[i] = e
  /\ \A i, j \in DOMAIN events' : i \notin DOMAIN events /\ j \notin DOMAIN events => i = j

(* Append adds one index. *)
LEMMA AppendExtends ==
  ASSUME NEW S, NEW s \in Seq(S), NEW e \in S
  PROVE  /\ Append(s, e) \in Seq(S)
         /\ Len(Append(s, e)) = Len(s) + 1
         /\ \A i \in DOMAIN s : i \in DOMAIN Append(s, e) /\ Append(s, e)[i] = s[i]
         /\ DOMAIN Append(s, e) = DOMAIN s \cup {Len(s) + 1}
         /\ Len(s) + 1 \notin DOMAIN s
         /\ Append(s, e)[Len(s) + 1] = e
  OBVIOUS

(* A line leaves the earlier events as they are. *)
LEMMA WriteExtends ==
  ASSUME WorldTypeOK, NEW e \in EventType, NEW also \in {0, 1}, Write(e, also)
  PROVE  /\ Extended(e) /\ line' = line + 1 /\ lost' \in Nat /\ lost' <= MaxLost
         /\ lost' >= lost + also
         /\ \/ lost' = lost + also /\ \E i \in DOMAIN events' : events'[i] = e
            \/ lost' = lost + also + 1
  <1>1. line' = line + 1 /\ lost' \in Nat /\ lost' <= MaxLost /\ lost' >= lost + also
    BY TimelineAssumption DEF WorldTypeOK, Write
  <1>2. CASE events' = Append(events, e) /\ lost' = lost + also
    <2>1. events \in Seq(EventType)  BY DEF WorldTypeOK
    <2>2. Extended(e) /\ Len(events) + 1 \in DOMAIN events' /\ events'[Len(events) + 1] = e
      BY <1>2, <2>1, AppendExtends DEF Extended
    <2>3. QED  BY <1>1, <1>2, <2>2
  <1>3. CASE events' = events /\ lost' = lost + also + 1
    <2>1. Extended(e)  BY <1>3 DEF WorldTypeOK, Extended
    <2>2. QED  BY <1>1, <1>3, <2>1
  <1>4. QED  BY <1>2, <1>3 DEF Write

(* The event of a running task is well-formed. *)
LEMMA EventTyped ==
  ASSUME WorldTypeOK, NEW p \in Pids, NEW kind \in Kinds, NEW c \in CallType
  PROVE  /\ Event(p, kind, c) \in EventType
         /\ Event(p, kind, c).pid = p /\ Event(p, kind, c).kind = kind
         /\ Event(p, kind, c).life = life[p]
         /\ Event(p, kind, c).line = IF c = NoCall THEN line + 1 ELSE c.line
         /\ Event(p, kind, c).childPid = c.child /\ Event(p, kind, c).childLife = c.life
  BY DEF WorldTypeOK, Event, EventType, CallType

(* No call is a call. *)
LEMMA NoCallTyped ==
  NoCall \in CallType /\ NoCall.line = 0 /\ NoCall.child = NoPid /\ NoCall.life = 0
  BY DEF NoCall, CallType

-----------------------------------------------------------------------------
(* The world's types *)

(* Initially. *)
LEMMA WorldTypeInit == TimelineInit => WorldTypeOK
  <1> SUFFICES ASSUME TimelineInit PROVE WorldTypeOK
    OBVIOUS
  <1>1. life \in [Pids -> Nat] /\ calls \in [Pids -> CallType] /\ freed \in [Pids -> Nat]
    BY NoCallTyped DEF TimelineInit
  <1>2. events \in Seq(EventType)
    BY DEF TimelineInit
  <1>3. raced \in BOOLEAN /\ phase \in {"tracing", "replaying"}
    BY Zenon DEF TimelineInit
  <1>4. lives \in Nat /\ line \in Nat /\ lost \in Nat /\ lost <= MaxLost
    BY TimelineAssumption DEF TimelineInit
  <1>5. QED
    BY <1>1, <1>2, <1>3, <1>4 DEF WorldTypeOK

(* The calls under way after a spawn is entered. *)
LEMMA EnterFacts ==
  ASSUME WorldTypeOK, NEW p \in Pids, EnterSpawn(p)
  PROVE  /\ calls' \in [Pids -> CallType]
         /\ calls'[p].line = line + 1
         /\ calls'[p].child = NoPid /\ calls'[p].life = 0
         /\ \A q \in Pids \ {p} : calls'[q] = calls[q]
  <1>1. calls[p] \in CallType /\ line + 1 \in Nat  BY DEF WorldTypeOK
  <1>2. PICK c \in CallType : c = [calls[p] EXCEPT !.line = line + 1]
    BY <1>1 DEF CallType
  <1>3. c.line = line + 1 /\ c.child = NoPid /\ c.life = 0
    BY <1>1, <1>2 DEF CallType, EnterSpawn, NoCall
  <1>4. calls' = [calls EXCEPT ![p] = c]
    BY <1>2 DEF EnterSpawn, WorldTypeOK
  <1>5. QED  BY <1>3, <1>4 DEF WorldTypeOK

(* The calls under way after a fork. *)
LEMMA ForkFacts ==
  ASSUME WorldTypeOK, NEW p \in Pids, NEW q \in Pids, Fork(p, q)
  PROVE  /\ calls' \in [Pids -> CallType]
         /\ calls'[p].line = calls[p].line
         /\ calls'[p].child = q /\ calls'[p].life = lives + 1
         /\ \A r \in Pids \ {p} : calls'[r] = calls[r]
  <1>1. calls[p] \in CallType /\ lives + 1 \in Nat  BY DEF WorldTypeOK
  <1>2. PICK c \in CallType : c = [calls[p] EXCEPT !.child = q, !.life = lives + 1]
    BY <1>1 DEF CallType
  <1>3. c.line = calls[p].line /\ c.child = q /\ c.life = lives + 1
    BY <1>1, <1>2 DEF CallType
  <1>4. calls' = [calls EXCEPT ![p] = c]
    BY <1>2 DEF Fork, WorldTypeOK
  <1>5. QED  BY <1>3, <1>4 DEF WorldTypeOK

(* Every step keeps the world's types. *)
LEMMA WorldTypeStep ==
  ASSUME WorldTypeOK, [TimelineNext]_timelineVars
  PROVE  WorldTypeOK'
  <1> USE DEF Kinds
  <1>1. ASSUME NEW p \in Pids, NEW kind \in {"call", "exec"}, Call(p, kind)
        PROVE  WorldTypeOK'
    <2>1. Event(p, kind, NoCall) \in EventType
      BY EventTyped, NoCallTyped
    <2>2. Extended(Event(p, kind, NoCall)) /\ line' = line + 1 /\ lost' \in Nat /\ lost' <= MaxLost
      BY <1>1, <2>1, WriteExtends DEF Call
    <2>3. QED
      BY <1>1, <2>2 DEF Call, WorldTypeOK, Extended, replayVars
  <1>2. ASSUME NEW p \in Pids, EnterSpawn(p)
        PROVE  WorldTypeOK'
    <2>1. calls' \in [Pids -> CallType]
      BY <1>2, EnterFacts
    <2>2. QED
      BY <1>2, <2>1 DEF EnterSpawn, WorldTypeOK
  <1>3. ASSUME NEW p \in Pids, NEW q \in Pids, Fork(p, q)
        PROVE  WorldTypeOK'
    <2>1. calls' \in [Pids -> CallType]
      BY <1>3, ForkFacts
    <2>2. life' \in [Pids -> Nat] /\ lives' \in Nat
      BY <1>3 DEF Fork, WorldTypeOK
    <2>3. raced' \in BOOLEAN
      BY <1>3 DEF Fork
    <2>4. QED
      BY <1>3, <2>1, <2>2, <2>3 DEF Fork, WorldTypeOK
  <1>4. ASSUME NEW p \in Pids, ReturnFromSpawn(p)
        PROVE  WorldTypeOK'
    <2>1. calls[p] \in CallType
      BY DEF WorldTypeOK
    <2>2. Event(p, "spawn", calls[p]) \in EventType
      BY <2>1, EventTyped
    <2>3. /\ Extended(Event(p, "spawn", calls[p])) /\ line' = line + 1
          /\ lost' \in Nat /\ lost' <= MaxLost
      BY <1>4, <2>2, WriteExtends DEF ReturnFromSpawn
    <2>4. calls' \in [Pids -> CallType]
      BY <1>4, NoCallTyped DEF ReturnFromSpawn, WorldTypeOK
    <2>5. QED
      BY <1>4, <2>3, <2>4 DEF ReturnFromSpawn, WorldTypeOK, Extended
  <1>5. ASSUME NEW p \in Pids, Exit(p)
        PROVE  WorldTypeOK'
    <2>1. Event(p, "exit", NoCall) \in EventType
      BY EventTyped, NoCallTyped
    <2>2. PICK also \in {0, 1} : Write(Event(p, "exit", NoCall), also)
      BY <1>5 DEF Exit
    <2>3. /\ Extended(Event(p, "exit", NoCall)) /\ line' = line + 1
          /\ lost' \in Nat /\ lost' <= MaxLost
      BY <2>1, <2>2, WriteExtends
    <2>4. calls' \in [Pids -> CallType]
      BY <1>5, NoCallTyped DEF Exit, WorldTypeOK
    <2>5. life' \in [Pids -> Nat] /\ freed' \in [Pids -> Nat]
      BY <1>5 DEF Exit, WorldTypeOK
    <2>6. QED
      BY <1>5, <2>3, <2>4, <2>5 DEF Exit, WorldTypeOK, Extended
  <1>6. ASSUME EndTrace
        PROVE  WorldTypeOK'
    <2>1. IsFiniteSet(Unreported)
      BY TimelineAssumption, FS_Subset DEF Unreported
    <2>2. Cardinality(Unreported) \in Nat
      BY <2>1, FS_CardinalityType
    <2>3. QED
      BY <1>6, <2>2 DEF EndTrace, WorldTypeOK
  <1>7. ASSUME ObserveEvent
        PROVE  WorldTypeOK'
    BY <1>7 DEF ObserveEvent, WorldTypeOK, worldVars
  <1>8. ASSUME UNCHANGED timelineVars
        PROVE  WorldTypeOK'
    BY <1>8 DEF timelineVars, WorldTypeOK, worldVars
  <1>9. QED
    BY <1>1, <1>2, <1>3, <1>4, <1>5, <1>6, <1>7, <1>8 DEF TimelineNext


-----------------------------------------------------------------------------
(* The lifetimes behind a trace *)

(* One task, no line. *)
LEMMA WorldInit == TimelineInit => WorldInv
  <1> SUFFICES ASSUME TimelineInit PROVE WorldInv
    OBVIOUS
  <1>1. PICK root \in Pids : life = [p \in Pids |-> IF p = root THEN 1 ELSE 0]
    BY DEF TimelineInit
  <1>2. PICK own \in [Nat -> Pids] : own = [n \in Nat |-> root]
    OBVIOUS
  <1>3. PICK none \in [Nat -> Nat] : none = [n \in Nat |-> 0]
    OBVIOUS
  <1>4. Lifetimes(own, none, none)
    BY <1>1, <1>2, <1>3 DEF TimelineInit, Lifetimes
  <1>5. Succession(own, none, none)
    BY DEF TimelineInit, Succession
  <1>6. PendingCalls(own, none, none)
    BY NoCallTyped DEF TimelineInit, PendingCalls
  <1>7. Written(own, none, none) /\ Losses(none)
    BY <1>3 DEF TimelineInit, Written, Losses, ExitsTold, BirthsTold
  <1>8. QED
    BY <1>2, <1>3, <1>4, <1>5, <1>6, <1>7 DEF WorldInv, Told

(* A new line leaves the lifetimes as they are. *)
LEMMA LifetimesNextLine ==
  ASSUME NEW own \in [Nat -> Pids], NEW birth \in [Nat -> Nat], NEW gone \in [Nat -> Nat],
         Lifetimes(own, birth, gone), line \in Nat, line' = line + 1,
         lives \in Nat, freed \in [Pids -> Nat], UNCHANGED <<life, lives, freed>>
  PROVE  Lifetimes(own, birth, gone)'
  <1>1. ASSUME NEW L \in 1..lives
        PROVE  birth[L] <= line + 1 /\ gone[L] <= line + 1
    <2>1. birth[L] \in Nat /\ gone[L] \in Nat  OBVIOUS
    <2>2. birth[L] <= line /\ gone[L] <= line  BY DEF Lifetimes
    <2>3. QED  BY <2>1, <2>2
  <1>2. ASSUME NEW p \in Pids
        PROVE  freed[p] <= line + 1
    <2>1. freed[p] \in Nat /\ freed[p] <= line  BY DEF Lifetimes
    <2>2. QED  BY <2>1
  <1>3. QED  BY <1>1, <1>2 DEF Lifetimes

(* A new line leaves what is known of an event as it is. *)
LEMMA ToldNextLine ==
  ASSUME NEW own \in [Nat -> Pids], NEW birth \in [Nat -> Nat], NEW gone \in [Nat -> Nat],
         NEW e \in EventType, EventTold(e, own, birth, gone),
         line \in Nat, line' = line + 1, UNCHANGED lives
  PROVE  EventTold(e, own, birth, gone)'
  <1>1. e.line \in 1 .. line'
    <2>1. e.line \in 1 .. line  BY DEF EventTold
    <2>2. QED  BY <2>1
  <1>2. QED  BY <1>1 DEF EventTold

(* An event with a line of its own joins the events. *)
LEMMA WrittenExtends ==
  ASSUME WorldTypeOK, NEW own, NEW birth, NEW gone,
         NEW e \in EventType, Extended(e),
         \A i \in DOMAIN events : events[i].line # e.line,
         \A i, j \in DOMAIN events : events[i].line = events[j].line => i = j,
         EventTold(e, own, birth, gone)',
         \A i \in DOMAIN events : \A f \in EventType :
           f = events[i] => EventTold(f, own, birth, gone)'
  PROVE  Written(own, birth, gone)'
  <1>1. ASSUME NEW i \in DOMAIN events', NEW j \in DOMAIN events', events'[i].line = events'[j].line
        PROVE  i = j
    BY <1>1 DEF Extended
  <1>2. ASSUME NEW i \in DOMAIN events'
        PROVE  EventTold(events[i], own, birth, gone)'
    <2>1. PICK f \in EventType : f = events'[i]
      BY DEF Extended
    <2>2. EventTold(f, own, birth, gone)'
      <3>1. CASE i \in DOMAIN events
        BY <2>1, <3>1 DEF Extended
      <3>2. CASE i \notin DOMAIN events
        BY <2>1, <3>2 DEF Extended
      <3>3. QED  BY <3>1, <3>2
    <2>3. QED  BY <2>1, <2>2 DEF EventTold
  <1>3. QED  BY <1>1, <1>2 DEF Written

(* A call of a running task, reported or missing. *)
LEMMA CallTold ==
  ASSUME WorldTypeOK, NEW own \in [Nat -> Pids],
         NEW birth \in [Nat -> Nat], NEW gone \in [Nat -> Nat],
         Told(own, birth, gone),
         NEW p \in Pids, NEW kind \in {"call", "exec"}, Call(p, kind)
  PROVE  Told(own, birth, gone)'
  <1>1. PICK e \in EventType : e = Event(p, kind, NoCall)
    BY EventTyped, NoCallTyped DEF Kinds
  <1>2. /\ e.pid = p /\ e.kind = kind /\ e.life = life[p] /\ e.line = line + 1
        /\ e.childPid = NoPid /\ e.childLife = 0
    BY <1>1, EventTyped, NoCallTyped DEF Kinds
  <1>3. Extended(e) /\ line' = line + 1 /\ lost' \in Nat /\ lost' >= lost + 0
    <2>1. Write(e, 0)  BY <1>1 DEF Call
    <2>2. QED  BY <2>1, WriteExtends
  <1>4. life[p] # 0 /\ UNCHANGED <<life, lives, calls, freed, raced, phase>>
    BY DEF Call, Running
  <1>t. /\ lives \in Nat /\ line \in Nat /\ lost \in Nat /\ life \in [Pids -> Nat]
        /\ freed \in [Pids -> Nat]
    BY DEF WorldTypeOK
  <1>e. events \in Seq(EventType) /\ calls \in [Pids -> CallType]
    BY DEF WorldTypeOK
  <1>i. /\ Lifetimes(own, birth, gone) /\ Succession(own, birth, gone)
        /\ PendingCalls(own, birth, gone) /\ Written(own, birth, gone) /\ Losses(gone)
    BY DEF Told
  <1>5. Lifetimes(own, birth, gone)'
    BY <1>3, <1>4, <1>i, <1>t, LifetimesNextLine
  <1>6. Succession(own, birth, gone)'
    BY <1>4, <1>i DEF Succession
  <1>7. PendingCalls(own, birth, gone)'
    <2>1. ASSUME NEW q \in Pids, calls[q].line # 0
          PROVE  /\ calls[q].line <= line + 1
                 /\ \A i \in DOMAIN events' : events'[i].line # calls[q].line
      <3>1. calls[q].line \in Nat /\ calls[q].line <= line
        BY <1>e, <1>i, <2>1 DEF PendingCalls, CallType
      <3>2. \A i \in DOMAIN events : events[i].line # calls[q].line
        BY <1>i, <2>1 DEF PendingCalls
      <3>3. calls[q].line # line + 1 /\ calls[q].line <= line + 1
        BY <1>t, <3>1
      <3>4. QED
        BY <1>2, <1>3, <3>2, <3>3 DEF Extended
    <2>2. QED  BY <1>3, <1>4, <1>i, <2>1 DEF PendingCalls
  <1>8. Written(own, birth, gone)'
    <2>1. \A i \in DOMAIN events : events[i].line # e.line
      BY <1>2, <1>i, <1>t DEF Written, EventTold
    <2>2. EventTold(e, own, birth, gone)'
      <3>1. PICK L \in 1..lives : /\ L = life[p] /\ own[L] = p /\ gone[L] = 0
                                  /\ birth[L] <= line /\ birth[L] \in Nat
        BY <1>4, <1>i DEF Lifetimes
      <3>2. /\ e.line \in 1 .. (line + 1) /\ birth[L] < e.line
        BY <1>2, <1>t, <3>1
      <3>3. \A K \in 1..lives : gone[K] < e.line
        <4>1. ASSUME NEW K \in 1..lives  PROVE gone[K] < e.line
          <5>1. gone[K] \in Nat /\ gone[K] <= line  BY <1>i DEF Lifetimes
          <5>2. QED  BY <1>2, <1>t, <5>1
        <4>2. QED  BY <4>1
      <3>4. e.kind # "exit" /\ e.kind # "spawn"  BY <1>2
      <3>5. QED  BY <1>2, <1>3, <1>4, <3>1, <3>2, <3>3, <3>4 DEF EventTold
    <2>3. \A i \in DOMAIN events : \A f \in EventType :
            f = events[i] => EventTold(f, own, birth, gone)'
      BY <1>3, <1>4, <1>i, <1>t, ToldNextLine DEF Written
    <2>4. QED  BY <1>3, <1>i, <2>1, <2>2, <2>3, WrittenExtends DEF Written
  <1>9. Losses(gone)'
    <2>1. ExitsTold(gone) => ExitsTold(gone)'
      BY <1>3, <1>4 DEF ExitsTold, Extended
    <2>2. BirthsTold => BirthsTold'
      BY <1>3, <1>4 DEF BirthsTold, Extended
    <2>3. QED  BY <1>3, <1>t, <1>i, <2>1, <2>2 DEF Losses
  <1>10. QED
    BY <1>5, <1>6, <1>7, <1>8, <1>9 DEF Told

(* A spawn is entered: its line belongs to no event yet. *)
LEMMA EnterTold ==
  ASSUME WorldTypeOK, NEW own \in [Nat -> Pids],
         NEW birth \in [Nat -> Nat], NEW gone \in [Nat -> Nat],
         Told(own, birth, gone), NEW p \in Pids, EnterSpawn(p)
  PROVE  Told(own, birth, gone)'
  <1>4. /\ life[p] # 0 /\ line' = line + 1
        /\ UNCHANGED <<life, lives, freed, lost, raced, events, phase>>
    BY DEF EnterSpawn, Running
  <1>t. /\ lives \in Nat /\ line \in Nat /\ lost \in Nat /\ life \in [Pids -> Nat]
        /\ freed \in [Pids -> Nat]
    BY DEF WorldTypeOK
  <1>e. events \in Seq(EventType) /\ calls \in [Pids -> CallType]
    BY DEF WorldTypeOK
  <1>i. /\ Lifetimes(own, birth, gone) /\ Succession(own, birth, gone)
        /\ PendingCalls(own, birth, gone) /\ Written(own, birth, gone) /\ Losses(gone)
    BY DEF Told
  <1>c. /\ calls' \in [Pids -> CallType] /\ calls'[p].line = line + 1
        /\ calls'[p].child = NoPid /\ calls'[p].life = 0
        /\ \A q \in Pids \ {p} : calls'[q] = calls[q]
    BY EnterFacts
  <1>n. calls[p].life = 0
    BY NoCallTyped DEF EnterSpawn
  <1>5. Lifetimes(own, birth, gone)'
    BY <1>4, <1>i, <1>t, LifetimesNextLine
  <1>6. Succession(own, birth, gone)'
    BY <1>4, <1>i DEF Succession
  <1>7. PendingCalls(own, birth, gone)'
    <2>0. ASSUME NEW q \in Pids \ {p}, calls[q].line # 0
          PROVE  calls[q].line \in Nat /\ calls[q].line <= line
      BY <1>e, <1>i, <2>0 DEF PendingCalls, CallType
    <2>1. ASSUME NEW q \in Pids, calls'[q].line # 0
          PROVE  /\ life[q] # 0 /\ birth[life[q]] < calls'[q].line /\ calls'[q].line <= line + 1
                 /\ freed[q] < calls'[q].line
                 /\ \A i \in DOMAIN events : events[i].line # calls'[q].line
                 /\ \A r \in Pids : calls'[r].line = calls'[q].line => q = r
      <3>1. CASE q = p
        <4>1. \A r \in Pids : calls'[r].line = calls'[q].line => q = r
          <5>1. ASSUME NEW r \in Pids \ {p}  PROVE calls[r].line # line + 1
            <6>1. CASE calls[r].line = 0  BY <1>t, <6>1
            <6>2. CASE calls[r].line # 0  BY <1>t, <2>0, <6>2
            <6>3. QED  BY <6>1, <6>2
          <5>2. QED  BY <1>c, <3>1, <5>1
        <4>2. birth[life[p]] \in Nat /\ birth[life[p]] <= line /\ freed[p] \in Nat /\ freed[p] <= line
          BY <1>4, <1>t, <1>i DEF Lifetimes
        <4>3. \A i \in DOMAIN events : events[i].line # line + 1
          BY <1>i, <1>t DEF Written, EventTold
        <4>4. QED  BY <1>4, <1>c, <1>t, <3>1, <4>1, <4>2, <4>3
      <3>2. CASE q # p
        <4>1. \A r \in Pids : calls'[r].line = calls'[q].line => q = r
          <5>1. calls'[q] = calls[q] /\ calls[q].line # 0 /\ calls[q].line # line + 1
            <6>1. calls'[q] = calls[q] /\ calls[q].line # 0  BY <1>c, <2>1, <3>2
            <6>2. QED  BY <1>t, <2>0, <3>2, <6>1
          <5>2. \A r \in Pids : calls[r].line = calls[q].line => q = r
            BY <1>i, <5>1 DEF PendingCalls
          <5>3. QED  BY <1>c, <5>1, <5>2
        <4>2. QED  BY <1>c, <1>i, <1>t, <2>0, <2>1, <3>2, <4>1 DEF PendingCalls
      <3>3. QED  BY <3>1, <3>2
    <2>2. ASSUME NEW q \in Pids
          PROVE  /\ calls'[q].line = 0 => calls'[q] = NoCall
                 /\ calls'[q].child = NoPid <=> calls'[q].life = 0
                 /\ calls'[q].life # 0 =>
                      /\ calls'[q].life \in 1..lives
                      /\ own[calls'[q].life] = calls'[q].child
                      /\ birth[calls'[q].life] = calls'[q].line
      <3>1. CASE q = p
        <4>1. calls'[q].line # 0  BY <1>t, <1>c, <3>1
        <4>2. QED  BY <1>c, <3>1, <4>1
      <3>2. CASE q # p
        BY <1>i, <1>c, <3>2 DEF PendingCalls
      <3>3. QED  BY <3>1, <3>2
    <2>3. QED  BY <1>4, <2>1, <2>2 DEF PendingCalls
  <1>8. Written(own, birth, gone)'
    <2>1. ASSUME NEW i \in DOMAIN events
          PROVE  EventTold(events[i], own, birth, gone)'
      <3>1. PICK f \in EventType : f = events[i]  BY <1>e
      <3>2. EventTold(f, own, birth, gone)  BY <3>1, <1>i DEF Written
      <3>3. EventTold(f, own, birth, gone)'  BY <3>2, <1>4, <1>t, ToldNextLine
      <3>4. QED  BY <1>4, <3>1, <3>3 DEF EventTold
    <2>2. QED  BY <1>4, <1>i, <2>1 DEF Written
  <1>9. Losses(gone)'
    <2>1. ExitsTold(gone) => ExitsTold(gone)'
      BY <1>4 DEF ExitsTold
    <2>2. BirthsTold => BirthsTold'
      <3>1. ASSUME NEW q \in Pids, NEW L \in 2..lives, calls[q].life = L
            PROVE  calls'[q].life = L
        BY <1>c, <1>n, <3>1
      <3>2. QED  BY <1>4, <3>1 DEF BirthsTold
    <2>3. QED  BY <1>4, <1>i, <2>1, <2>2 DEF Losses
  <1>10. QED
    BY <1>5, <1>6, <1>7, <1>8, <1>9 DEF Told

(* A fork gives a lifetime to a free PID: its birth is the line at which   *)
(* the spawn was entered.                                                  *)
LEMMA ForkTold ==
  ASSUME WorldTypeOK, NEW own \in [Nat -> Pids],
         NEW birth \in [Nat -> Nat], NEW gone \in [Nat -> Nat],
         Told(own, birth, gone), NEW p \in Pids, NEW q \in Pids, Fork(p, q)
  PROVE  WorldInv'
  <1>t. /\ lives \in Nat /\ line \in Nat /\ lost \in Nat /\ life \in [Pids -> Nat]
        /\ freed \in [Pids -> Nat]
    BY DEF WorldTypeOK
  <1>e. events \in Seq(EventType) /\ calls \in [Pids -> CallType]
    BY DEF WorldTypeOK
  <1>i. /\ Lifetimes(own, birth, gone) /\ Succession(own, birth, gone)
        /\ PendingCalls(own, birth, gone) /\ Written(own, birth, gone) /\ Losses(gone)
    BY DEF Told
  <1>c. /\ calls' \in [Pids -> CallType] /\ calls'[p].line = calls[p].line
        /\ calls'[p].child = q /\ calls'[p].life = lives + 1
        /\ \A r \in Pids \ {p} : calls'[r] = calls[r]
    BY ForkFacts
  <1>a. /\ phase = "tracing" /\ life[p] # 0 /\ calls[p].line # 0 /\ calls[p].child = NoPid
        /\ life[q] = 0 /\ life' = [life EXCEPT ![q] = lives + 1] /\ lives' = lives + 1
        /\ raced' = (raced \/ calls[p].line < freed[q])
        /\ UNCHANGED <<freed, line, lost, events, phase>>
    BY DEF Fork, Running
  <1>1. PICK n \in Nat : n = lives + 1
    BY <1>t
  <1>2. PICK c \in Nat : c = calls[p].line
    BY <1>e DEF CallType
  <1>3. c # 0 /\ c <= line
    BY <1>2, <1>a, <1>i DEF PendingCalls
  <1>4. PICK o \in [Nat -> Pids] : o = [own EXCEPT ![n] = q]
    OBVIOUS
  <1>5. PICK b \in [Nat -> Nat] : b = [birth EXCEPT ![n] = c]
    OBVIOUS
  <1>6. PICK g \in [Nat -> Nat] : g = [gone EXCEPT ![n] = 0]
    OBVIOUS
  <1>7. o[n] = q /\ b[n] = c /\ g[n] = 0
    BY <1>4, <1>5, <1>6
  <1>8. \A L \in 1..lives : L \in Nat /\ L < n /\ o[L] = own[L] /\ b[L] = birth[L] /\ g[L] = gone[L]
    BY <1>t, <1>1, <1>4, <1>5, <1>6
  <1>9. lives' = n /\ 1..n = (1..lives) \cup {n} /\ n > 1
    <2>1. lives >= 1  BY <1>i DEF Lifetimes
    <2>2. 1..n = (1..lives) \cup {n} /\ n > 1  BY <2>1, <1>t, <1>1
    <2>3. QED  BY <2>2, <1>1, <1>a
  <1>10. Lifetimes(o, b, g)'
    <2>1. ASSUME NEW L \in 1..lives
          PROVE  /\ o[L] \in Pids
                 /\ b[L] <= line /\ g[L] <= line /\ g[L] <= freed[o[L]]
                 /\ g[L] # 0 => b[L] < g[L]
                 /\ g[L] = 0 => life'[o[L]] = L
                 /\ b[L] = 0 <=> L = 1
      <3>1. g[L] = 0 => life[o[L]] = L
        <4>1. gone[L] = 0 => life[own[L]] = L  BY <1>i DEF Lifetimes
        <4>2. QED  BY <1>8, <4>1
      <3>2. g[L] = 0 => o[L] # q
        BY <1>a, <3>1
      <3>3. g[L] = 0 => life'[o[L]] = L
        BY <1>a, <1>t, <3>1, <3>2
      <3>4. QED  BY <1>8, <1>i, <3>3 DEF Lifetimes
    <2>2. /\ o[n] \in Pids
          /\ b[n] <= line /\ g[n] <= line /\ g[n] <= freed[o[n]]
          /\ g[n] # 0 => b[n] < g[n]
          /\ g[n] = 0 => life'[o[n]] = n
          /\ b[n] = 0 <=> n = 1
      BY <1>t, <1>a, <1>1, <1>3, <1>7, <1>9
    <2>3. ASSUME NEW r \in Pids, life'[r] # 0
          PROVE  life'[r] \in 1..n /\ o[life'[r]] = r /\ g[life'[r]] = 0
      <3>1. CASE r = q
        BY <1>t, <1>a, <1>1, <1>7, <1>9, <3>1
      <3>2. CASE r # q
        <4>1. life'[r] = life[r] /\ life[r] \in 1..lives /\ own[life[r]] = r /\ gone[life[r]] = 0
          BY <1>t, <1>a, <1>i, <2>3, <3>2 DEF Lifetimes
        <4>2. QED  BY <1>8, <1>9, <4>1
      <3>3. QED  BY <3>1, <3>2
    <2>4. n >= 1  BY <1>9
    <2>5. \A r \in Pids : freed[r] <= line  BY <1>i DEF Lifetimes
    <2>6. QED  BY <1>a, <1>9, <2>1, <2>2, <2>3, <2>4, <2>5 DEF Lifetimes
  <1>11. Succession(o, b, g)'
    <2>1. ASSUME NEW K \in 1..lives, NEW L \in 1..lives, K < L, o[K] = o[L]
          PROVE  /\ g[K] # 0
                 /\ g[L] # 0 => g[K] < g[L]
                 /\ ~raced' => g[K] <= b[L]
      <3>1. ~raced' => ~raced  BY <1>a
      <3>2. QED  BY <1>8, <1>i, <2>1, <3>1 DEF Succession
    <2>2. ASSUME NEW K \in 1..lives, o[K] = o[n]
          PROVE  /\ g[K] # 0
                 /\ g[n] # 0 => g[K] < g[n]
                 /\ ~raced' => g[K] <= b[n]
      <3>1. own[K] = q  BY <1>7, <1>8, <2>2
      <3>2. K # 0  BY <1>t
      <3>3. gone[K] # 0 /\ gone[K] <= freed[q]  BY <1>i, <1>a, <3>1, <3>2 DEF Lifetimes
      <3>4. gone[K] \in Nat /\ freed[q] \in Nat  BY <1>t
      <3>5. ~raced' => freed[q] <= c
        <4>1. ~raced' => ~(c < freed[q])  BY <1>a, <1>2, Zenon
        <4>2. QED  BY <3>4, <4>1
      <3>6. QED  BY <1>7, <1>8, <3>3, <3>4, <3>5
    <2>3. ASSUME NEW K \in 1..n, n < K  PROVE FALSE
      BY <2>3
    <2>4. QED  BY <1>9, <2>1, <2>2, <2>3 DEF Succession
  <1>12. PendingCalls(o, b, g)'
    <2>1. ASSUME NEW r \in Pids, calls[r].line # 0
          PROVE  /\ life'[r] # 0 /\ b[life'[r]] < calls[r].line /\ calls[r].line <= line
                 /\ freed[r] < calls[r].line
                 /\ \A i \in DOMAIN events : events[i].line # calls[r].line
                 /\ \A s \in Pids : calls[s].line = calls[r].line => r = s
      <3>1. life[r] # 0 /\ r # q
        BY <1>i, <1>a, <2>1 DEF PendingCalls
      <3>2. life'[r] = life[r] /\ life[r] \in 1..lives
        BY <1>a, <1>t, <1>i, <3>1 DEF Lifetimes
      <3>3. b[life[r]] = birth[life[r]]
        BY <1>8, <3>2
      <3>4. QED  BY <1>i, <2>1, <3>1, <3>2, <3>3 DEF PendingCalls
    <2>2. \A r \in Pids : calls'[r].line = calls[r].line
      BY <1>c
    <2>3. ASSUME NEW r \in Pids
          PROVE  /\ calls'[r].line = 0 => calls'[r] = NoCall
                 /\ calls'[r].child = NoPid <=> calls'[r].life = 0
                 /\ calls'[r].life # 0 =>
                      /\ calls'[r].life \in 1..n
                      /\ o[calls'[r].life] = calls'[r].child
                      /\ b[calls'[r].life] = calls'[r].line
      <3>1. CASE r = p
        <4>1. q # NoPid  BY TimelineAssumption
        <4>2. n # 0 /\ n \in 1..n  BY <1>9
        <4>3. calls'[r].line # 0  BY <1>c, <1>a, <3>1
        <4>4. QED  BY <1>c, <1>1, <1>2, <1>7, <3>1, <4>1, <4>2, <4>3
      <3>2. CASE r # p
        <4>1. calls'[r] = calls[r]  BY <1>c, <3>2
        <4>2. /\ calls[r].line = 0 => calls[r] = NoCall
              /\ calls[r].child = NoPid <=> calls[r].life = 0
              /\ calls[r].life # 0 => /\ calls[r].life \in 1..lives
                                      /\ own[calls[r].life] = calls[r].child
                                      /\ birth[calls[r].life] = calls[r].line
          BY <1>i DEF PendingCalls
        <4>3. calls[r].life # 0 =>
                /\ calls[r].life \in 1..n /\ o[calls[r].life] = calls[r].child
                /\ b[calls[r].life] = calls[r].line
          BY <1>8, <1>9, <4>2
        <4>4. QED  BY <4>1, <4>2, <4>3
      <3>3. QED  BY <3>1, <3>2
    <2>4. ASSUME NEW r \in Pids, calls'[r].line # 0
          PROVE  /\ life'[r] # 0 /\ b[life'[r]] < calls'[r].line /\ calls'[r].line <= line
                 /\ freed[r] < calls'[r].line
                 /\ \A i \in DOMAIN events : events[i].line # calls'[r].line
                 /\ \A s \in Pids : calls'[s].line = calls'[r].line => r = s
      BY <2>1, <2>2, <2>4
    <2>5. QED  BY <1>a, <1>9, <2>3, <2>4 DEF PendingCalls
  <1>13. Written(o, b, g)'
    <2>1. ASSUME NEW i \in DOMAIN events
          PROVE  EventTold(events[i], o, b, g)'
      <3>1. PICK e \in EventType : e = events[i] /\ EventTold(e, own, birth, gone)
        BY <1>e, <1>i DEF Written
      <3>2. e.life \in 1..lives /\ e.life \in 1..n /\ ~(n < e.life)
        BY <1>9, <1>8, <3>1 DEF EventTold
      <3>3. e.childLife # 0 => e.childLife \in 1..lives /\ e.childLife \in 1..n
        BY <1>9, <3>1 DEF EventTold
      <3>4. \A K \in 1..n : K < e.life /\ o[K] = e.pid => g[K] < e.line
        BY <1>9, <1>8, <3>1, <3>2 DEF EventTold
      <3>5. /\ o[e.life] = e.pid /\ b[e.life] < e.line
            /\ g[e.life] # 0 => e.line <= g[e.life]
            /\ e.kind = "exit" => g[e.life] = e.line
        BY <1>8, <3>1, <3>2 DEF EventTold
      <3>6. e.childLife # 0 => o[e.childLife] = e.childPid /\ b[e.childLife] = e.line
        BY <1>8, <3>1, <3>3 DEF EventTold
      <3>7. QED  BY <1>a, <1>9, <3>1, <3>2, <3>3, <3>4, <3>5, <3>6 DEF EventTold
    <2>2. QED  BY <1>a, <1>i, <2>1 DEF Written
  <1>14. Losses(g)'
    <2>1. ExitsTold(gone) => ExitsTold(g)'
      BY <1>a, <1>7, <1>8, <1>9 DEF ExitsTold
    <2>2. BirthsTold => BirthsTold'
      <3>1. ASSUME BirthsTold, NEW L \in 2..lives
            PROVE  \/ \E i \in DOMAIN events : events[i].childLife = L
                   \/ \E r \in Pids : calls'[r].life = L
        <4>1. ASSUME NEW r \in Pids, calls[r].life = L
              PROVE  calls'[r].life = L
          <5>1. calls[p].life = 0  BY <1>i, <1>a DEF PendingCalls
          <5>2. L # 0  OBVIOUS
          <5>3. r # p  BY <4>1, <5>1, <5>2
          <5>4. QED  BY <1>c, <4>1, <5>3
        <4>2. QED  BY <3>1, <4>1 DEF BirthsTold
      <3>2. \E r \in Pids : calls'[r].life = n  BY <1>c, <1>1
      <3>3. 2..n = (2..lives) \cup {n}  BY <1>t, <1>9, <1>1
      <3>4. QED  BY <1>a, <1>9, <3>1, <3>2, <3>3 DEF BirthsTold
    <2>3. QED  BY <1>a, <1>i, <2>1, <2>2 DEF Losses
  <1>15. QED
    BY <1>10, <1>11, <1>12, <1>13, <1>14 DEF WorldInv, Told

(* A spawn returns: its event carries the line at which it was entered. *)
LEMMA ReturnTold ==
  ASSUME WorldTypeOK, NEW own \in [Nat -> Pids],
         NEW birth \in [Nat -> Nat], NEW gone \in [Nat -> Nat],
         Told(own, birth, gone), NEW p \in Pids, ReturnFromSpawn(p)
  PROVE  Told(own, birth, gone)'
  <1>t. /\ lives \in Nat /\ line \in Nat /\ lost \in Nat /\ life \in [Pids -> Nat]
        /\ freed \in [Pids -> Nat]
    BY DEF WorldTypeOK
  <1>e. events \in Seq(EventType) /\ calls \in [Pids -> CallType]
    BY DEF WorldTypeOK
  <1>i. /\ Lifetimes(own, birth, gone) /\ Succession(own, birth, gone)
        /\ PendingCalls(own, birth, gone) /\ Written(own, birth, gone) /\ Losses(gone)
    BY DEF Told
  <1>a. /\ phase = "tracing" /\ life[p] # 0 /\ calls[p].child # NoPid
        /\ calls' = [calls EXCEPT ![p] = NoCall]
        /\ UNCHANGED <<life, lives, freed, raced, phase>>
    BY DEF ReturnFromSpawn, Running
  <1>b. calls[p] # NoCall /\ calls[p].line # 0 /\ calls[p].life # 0
    BY <1>a, <1>i, NoCallTyped DEF PendingCalls
  <1>1. PICK e \in EventType : e = Event(p, "spawn", calls[p])
    BY <1>e, EventTyped DEF Kinds
  <1>2. /\ e.pid = p /\ e.kind = "spawn" /\ e.life = life[p] /\ e.line = calls[p].line
        /\ e.childPid = calls[p].child /\ e.childLife = calls[p].life
    <2>1. calls[p] \in CallType /\ "spawn" \in Kinds  BY <1>e DEF Kinds
    <2>2. QED  BY <1>1, <1>b, <2>1, EventTyped
  <1>3. /\ Extended(e) /\ line' = line + 1 /\ lost' \in Nat /\ lost' >= lost + 0
        /\ \/ lost' = lost + 0 /\ \E i \in DOMAIN events' : events'[i] = e
           \/ lost' = lost + 0 + 1
    <2>1. Write(e, 0)  BY <1>1 DEF ReturnFromSpawn
    <2>2. QED  BY <2>1, WriteExtends
  <1>5. Lifetimes(own, birth, gone)'
    BY <1>3, <1>a, <1>i, <1>t, LifetimesNextLine
  <1>6. Succession(own, birth, gone)'
    BY <1>a, <1>i DEF Succession
  <1>c. calls'[p] = NoCall /\ \A q \in Pids \ {p} : calls'[q] = calls[q]
    BY <1>a, <1>e
  <1>7. PendingCalls(own, birth, gone)'
    <2>1. ASSUME NEW q \in Pids \ {p}, calls[q].line # 0
          PROVE  /\ life[q] # 0 /\ birth[life[q]] < calls[q].line /\ calls[q].line <= line + 1
                 /\ freed[q] < calls[q].line
                 /\ \A i \in DOMAIN events' : events'[i].line # calls[q].line
                 /\ \A r \in Pids \ {p} : calls[r].line = calls[q].line => q = r
      <3>1. calls[q].line \in Nat /\ calls[q].line <= line
        BY <1>e, <1>i, <2>1 DEF PendingCalls, CallType
      <3>2. calls[q].line <= line + 1
        BY <1>t, <3>1
      <3>3. e.line # calls[q].line
        BY <1>2, <1>i, <2>1 DEF PendingCalls
      <3>4. \A i \in DOMAIN events' : events'[i].line # calls[q].line
        <4>1. \A i \in DOMAIN events : events[i].line # calls[q].line
          BY <1>i, <2>1 DEF PendingCalls
        <4>2. QED  BY <1>3, <3>3, <4>1 DEF Extended
      <3>5. QED  BY <1>i, <2>1, <3>2, <3>4 DEF PendingCalls
    <2>2. ASSUME NEW q \in Pids
          PROVE  /\ calls'[q].line = 0 => calls'[q] = NoCall
                 /\ calls'[q].child = NoPid <=> calls'[q].life = 0
                 /\ calls'[q].life # 0 =>
                      /\ calls'[q].life \in 1..lives
                      /\ own[calls'[q].life] = calls'[q].child
                      /\ birth[calls'[q].life] = calls'[q].line
      <3>1. CASE q = p  BY <1>c, <3>1, NoCallTyped
      <3>2. CASE q # p  BY <1>c, <1>i, <3>2 DEF PendingCalls
      <3>3. QED  BY <3>1, <3>2
    <2>3. ASSUME NEW q \in Pids, calls'[q].line # 0
          PROVE  /\ q \in Pids \ {p} /\ calls'[q] = calls[q] /\ calls[q].line # 0
      BY <1>c, <2>3, NoCallTyped
    <2>4. ASSUME NEW q \in Pids, calls'[q].line # 0
          PROVE  /\ life'[q] # 0 /\ birth[life'[q]] < calls'[q].line /\ calls'[q].line <= line'
                 /\ freed'[q] < calls'[q].line
                 /\ \A i \in DOMAIN events' : events'[i].line # calls'[q].line
      BY <1>3, <1>a, <2>1, <2>3, <2>4
    <2>5. ASSUME NEW q \in Pids, calls'[q].line # 0, NEW r \in Pids, calls'[r].line = calls'[q].line
          PROVE  q = r
      <3>1. calls'[r].line # 0  BY <2>5
      <3>2. QED  BY <2>1, <2>3, <2>5, <3>1
    <2>6. QED  BY <1>a, <2>2, <2>4, <2>5 DEF PendingCalls
  <1>8. Written(own, birth, gone)'
    <2>1. \A i \in DOMAIN events : events[i].line # e.line
      BY <1>2, <1>b, <1>i DEF PendingCalls
    <2>2. EventTold(e, own, birth, gone)'
      <3>1. e.line \in Nat /\ e.line # 0 /\ e.line <= line
        BY <1>2, <1>b, <1>e, <1>i DEF PendingCalls, CallType
      <3>2. e.line \in 1..line'  BY <1>3, <1>t, <3>1
      <3>3. e.life \in 1..lives /\ own[e.life] = e.pid /\ gone[e.life] = 0
        BY <1>2, <1>a, <1>i DEF Lifetimes
      <3>4. birth[e.life] < e.line
        BY <1>2, <1>b, <1>i DEF PendingCalls
      <3>5. ASSUME NEW K \in 1..lives, own[K] = e.pid
            PROVE  gone[K] < e.line
        <4>1. gone[K] <= freed[p] /\ freed[p] < e.line
          BY <1>2, <1>b, <1>i, <3>5 DEF PendingCalls, Lifetimes
        <4>2. gone[K] \in Nat /\ freed[p] \in Nat  BY <1>t
        <4>3. QED  BY <3>1, <4>1, <4>2
      <3>6. /\ e.childLife # 0 /\ e.childPid # NoPid /\ e.childLife \in 1..lives
            /\ own[e.childLife] = e.childPid /\ birth[e.childLife] = e.line
        BY <1>2, <1>a, <1>b, <1>i DEF PendingCalls
      <3>7. QED  BY <1>2, <1>a, <3>2, <3>3, <3>4, <3>5, <3>6 DEF EventTold
    <2>3. \A i \in DOMAIN events : \A f \in EventType :
            f = events[i] => EventTold(f, own, birth, gone)'
      BY <1>3, <1>a, <1>i, <1>t, ToldNextLine DEF Written
    <2>4. QED  BY <1>3, <1>i, <2>1, <2>2, <2>3, WrittenExtends DEF Written
  <1>9. Losses(gone)'
    <2>1. ExitsTold(gone) => ExitsTold(gone)'
      BY <1>3, <1>a DEF ExitsTold, Extended
    <2>2. ASSUME lost' = lost, BirthsTold
          PROVE  BirthsTold'
      <3>1. \E i \in DOMAIN events' : events'[i] = e
        BY <1>3, <1>t, <2>2
      <3>2. ASSUME NEW q \in Pids, NEW L \in 2..lives, calls[q].life = L
            PROVE  (\E i \in DOMAIN events' : events'[i].childLife = L) \/ calls'[q].life = L
        <4>1. CASE q = p  BY <1>2, <3>1, <3>2, <4>1
        <4>2. CASE q # p  BY <1>c, <3>2, <4>2
        <4>3. QED  BY <4>1, <4>2
      <3>3. QED  BY <1>3, <1>a, <2>2, <3>2 DEF BirthsTold, Extended
    <2>3. CASE lost' = lost  BY <1>i, <2>1, <2>2, <2>3 DEF Losses
    <2>4. CASE lost' = lost + 1
      <3>1. lost' <= 1 => lost = 0  BY <1>t, <2>4
      <3>2. lost' # 0  BY <1>t, <2>4
      <3>3. QED  BY <1>i, <2>1, <3>1, <3>2 DEF Losses
    <2>5. QED  BY <1>3, <1>t, <2>3, <2>4
  <1>10. QED
    BY <1>5, <1>6, <1>7, <1>8, <1>9 DEF Told

(* A task exits: its lifetime ends with this line, whether it is written   *)
(* or missing, and a spawn it was inside loses its event.                  *)
LEMMA ExitTold ==
  ASSUME WorldTypeOK, NEW own \in [Nat -> Pids],
         NEW birth \in [Nat -> Nat], NEW gone \in [Nat -> Nat],
         Told(own, birth, gone), NEW p \in Pids, Exit(p)
  PROVE  WorldInv'
  <1>t. /\ lives \in Nat /\ line \in Nat /\ lost \in Nat /\ life \in [Pids -> Nat]
        /\ freed \in [Pids -> Nat]
    BY DEF WorldTypeOK
  <1>e. events \in Seq(EventType) /\ calls \in [Pids -> CallType]
    BY DEF WorldTypeOK
  <1>i. /\ Lifetimes(own, birth, gone) /\ Succession(own, birth, gone)
        /\ PendingCalls(own, birth, gone) /\ Written(own, birth, gone) /\ Losses(gone)
    BY DEF Told
  <1>a. /\ phase = "tracing" /\ life[p] # 0
        /\ life' = [life EXCEPT ![p] = 0]
        /\ freed' = [freed EXCEPT ![p] = line + 1]
        /\ calls' = [calls EXCEPT ![p] = NoCall]
        /\ UNCHANGED <<lives, raced, phase>>
    BY DEF Exit, Running
  <1>1. PICK e \in EventType : e = Event(p, "exit", NoCall)
    BY EventTyped, NoCallTyped DEF Kinds
  <1>2. /\ e.pid = p /\ e.kind = "exit" /\ e.life = life[p] /\ e.line = line + 1
        /\ e.childPid = NoPid /\ e.childLife = 0
    BY <1>1, EventTyped, NoCallTyped DEF Kinds
  <1>b. PICK also \in {0, 1} :
          Write(e, also) /\ (also = 0 <=> calls[p].child = NoPid)
    BY <1>1 DEF Exit
  <1>3. /\ Extended(e) /\ line' = line + 1 /\ lost' \in Nat
        /\ \/ lost' = lost + also /\ \E i \in DOMAIN events' : events'[i] = e
           \/ lost' = lost + also + 1
    BY <1>b, WriteExtends
  <1>c. calls'[p] = NoCall /\ \A q \in Pids \ {p} : calls'[q] = calls[q]
    BY <1>a, <1>e
  <1>l. /\ life'[p] = 0 /\ \A q \in Pids \ {p} : life'[q] = life[q]
        /\ freed'[p] = line + 1 /\ \A q \in Pids \ {p} : freed'[q] = freed[q]
    BY <1>a, <1>t
  <1>4. PICK m \in 1..lives : m = life[p]
    BY <1>a, <1>i DEF Lifetimes
  <1>5. m \in Nat /\ own[m] = p /\ gone[m] = 0
    BY <1>a, <1>i, <1>t, <1>4 DEF Lifetimes
  <1>6. PICK d \in Nat : d = line + 1
    BY <1>t
  <1>7. PICK g \in [Nat -> Nat] : g = [gone EXCEPT ![m] = d]
    BY <1>5
  <1>8. g[m] = d /\ \A L \in 1..lives : L # m => g[L] = gone[L]
    BY <1>5, <1>7, <1>t
  <1>9. /\ d > 0 /\ \A L \in 1..lives : birth[L] \in Nat /\ birth[L] < d /\ gone[L] \in Nat /\ gone[L] < d
    <2>1. \A L \in 1..lives : birth[L] \in Nat /\ gone[L] \in Nat  OBVIOUS
    <2>2. \A L \in 1..lives : birth[L] <= line /\ gone[L] <= line  BY <1>i DEF Lifetimes
    <2>3. QED  BY <1>t, <1>6, <2>1, <2>2
  <1>10. Lifetimes(own, birth, g)'
    <2>1. ASSUME NEW L \in 1..lives, L # m
          PROVE  /\ own[L] \in Pids
                 /\ birth[L] <= d /\ g[L] <= d /\ g[L] <= freed'[own[L]]
                 /\ g[L] # 0 => birth[L] < g[L]
                 /\ g[L] = 0 => life'[own[L]] = L
                 /\ birth[L] = 0 <=> L = 1
      <3>1. g[L] = gone[L]  BY <1>8, <2>1
      <3>2. birth[L] <= d /\ gone[L] <= d  BY <1>9
      <3>3. own[L] \in Pids  OBVIOUS
      <3>4. gone[L] <= freed'[own[L]]
        <4>1. CASE own[L] = p  BY <1>l, <1>6, <3>2, <4>1
        <4>2. CASE own[L] # p  BY <1>l, <1>i, <3>3, <4>2 DEF Lifetimes
        <4>3. QED  BY <4>1, <4>2
      <3>5. gone[L] = 0 => life'[own[L]] = L
        <4>1. CASE own[L] = p
          <5>1. gone[L] # 0  BY <1>i, <1>4, <2>1, <4>1 DEF Lifetimes
          <5>2. QED  BY <5>1
        <4>2. CASE own[L] # p  BY <1>l, <1>i, <3>3, <4>2 DEF Lifetimes
        <4>3. QED  BY <4>1, <4>2
      <3>6. QED  BY <1>i, <3>1, <3>2, <3>3, <3>4, <3>5 DEF Lifetimes
    <2>2. /\ own[m] \in Pids
          /\ birth[m] <= d /\ g[m] <= d /\ g[m] <= freed'[own[m]]
          /\ g[m] # 0 => birth[m] < g[m]
          /\ g[m] # 0
          /\ birth[m] = 0 <=> m = 1
      <3>1. birth[m] = 0 <=> m = 1  BY <1>i DEF Lifetimes
      <3>2. g[m] = d /\ d <= d /\ freed'[own[m]] = d  BY <1>5, <1>6, <1>8, <1>l
      <3>3. QED  BY <1>5, <1>9, <3>1, <3>2
    <2>3. ASSUME NEW r \in Pids, life'[r] # 0
          PROVE  life'[r] \in 1..lives /\ own[life'[r]] = r /\ g[life'[r]] = 0
      <3>1. r # p /\ life'[r] = life[r]  BY <1>l, <2>3
      <3>2. life[r] \in 1..lives /\ own[life[r]] = r /\ gone[life[r]] = 0
        BY <1>i, <2>3, <3>1 DEF Lifetimes
      <3>3. life[r] # m  BY <1>5, <3>1, <3>2
      <3>4. QED  BY <1>8, <3>1, <3>2, <3>3
    <2>4. ASSUME NEW r \in Pids
          PROVE  freed'[r] <= d
      <3>1. CASE r = p  BY <1>l, <1>6, <3>1
      <3>2. CASE r # p
        <4>1. freed'[r] = freed[r] /\ freed[r] \in Nat /\ freed[r] <= line
          BY <1>l, <1>t, <1>i, <3>2 DEF Lifetimes
        <4>2. QED  BY <1>6, <1>t, <4>1
      <3>3. QED  BY <3>1, <3>2
    <2>5. line' = d /\ lives' = lives /\ lives >= 1  BY <1>3, <1>6, <1>a, <1>i DEF Lifetimes
    <2>6. ASSUME NEW L \in 1..lives
          PROVE  /\ own[L] \in Pids
                 /\ birth[L] <= d /\ g[L] <= d /\ g[L] <= freed'[own[L]]
                 /\ g[L] # 0 => birth[L] < g[L]
                 /\ g[L] = 0 => life'[own[L]] = L
                 /\ birth[L] = 0 <=> L = 1
      <3>1. CASE L = m  BY <2>2, <3>1
      <3>2. CASE L # m  BY <2>1, <3>2
      <3>3. QED  BY <3>1, <3>2
    <2>7. QED  BY <2>3, <2>4, <2>5, <2>6 DEF Lifetimes
  <1>11. Succession(own, birth, g)'
    <2>1. ASSUME NEW K \in 1..lives, NEW L \in 1..lives, K < L, own[K] = own[L]
          PROVE  /\ g[K] # 0
                 /\ g[L] # 0 => g[K] < g[L]
                 /\ ~raced => g[K] <= birth[L]
      <3>1. gone[K] # 0 /\ (gone[L] # 0 => gone[K] < gone[L]) /\ (~raced => gone[K] <= birth[L])
        BY <1>i, <2>1 DEF Succession
      <3>2. K # m  BY <1>5, <3>1
      <3>3. CASE L = m  BY <1>8, <1>9, <3>1, <3>2, <3>3
      <3>4. CASE L # m  BY <1>8, <3>1, <3>2, <3>4
      <3>5. QED  BY <3>3, <3>4
    <2>2. QED  BY <1>a, <2>1 DEF Succession
  <1>12. PendingCalls(own, birth, g)'
    <2>1. ASSUME NEW q \in Pids, calls'[q].line # 0
          PROVE  /\ q \in Pids \ {p} /\ calls'[q] = calls[q] /\ calls[q].line # 0
      BY <1>c, <2>1, NoCallTyped
    <2>2. ASSUME NEW q \in Pids, calls'[q].line # 0
          PROVE  /\ life'[q] # 0 /\ birth[life'[q]] < calls'[q].line /\ calls'[q].line <= line'
                 /\ freed'[q] < calls'[q].line
                 /\ \A i \in DOMAIN events' : events'[i].line # calls'[q].line
      <3>1. q \in Pids \ {p} /\ calls'[q] = calls[q] /\ calls[q].line # 0  BY <2>1, <2>2
      <3>2. calls[q].line \in Nat /\ calls[q].line <= line
        BY <1>e, <1>i, <3>1 DEF PendingCalls, CallType
      <3>3. calls[q].line <= line' /\ calls[q].line # e.line
        BY <1>2, <1>3, <1>t, <3>2
      <3>4. \A i \in DOMAIN events : events[i].line # calls[q].line
        BY <1>i, <3>1 DEF PendingCalls
      <3>5. \A i \in DOMAIN events' : events'[i].line # calls[q].line
        BY <1>3, <3>3, <3>4 DEF Extended
      <3>6. life'[q] = life[q] /\ freed'[q] = freed[q]  BY <1>l, <3>1
      <3>7. life[q] # 0 /\ birth[life[q]] < calls[q].line /\ freed[q] < calls[q].line
        BY <1>i, <3>1 DEF PendingCalls
      <3>8. QED  BY <3>1, <3>3, <3>5, <3>6, <3>7
    <2>3. ASSUME NEW q \in Pids, calls'[q].line # 0, NEW r \in Pids, calls'[r].line = calls'[q].line
          PROVE  q = r
      <3>1. calls'[r].line # 0  BY <2>3
      <3>2. calls'[q] = calls[q] /\ calls'[r] = calls[r] /\ calls[q].line # 0
        BY <2>1, <2>3, <3>1
      <3>3. QED  BY <1>i, <2>3, <3>2 DEF PendingCalls
    <2>4. ASSUME NEW q \in Pids
          PROVE  /\ calls'[q].line = 0 => calls'[q] = NoCall
                 /\ calls'[q].child = NoPid <=> calls'[q].life = 0
                 /\ calls'[q].life # 0 =>
                      /\ calls'[q].life \in 1..lives
                      /\ own[calls'[q].life] = calls'[q].child
                      /\ birth[calls'[q].life] = calls'[q].line
      <3>1. CASE q = p  BY <1>c, <3>1, NoCallTyped
      <3>2. CASE q # p  BY <1>c, <1>i, <3>2 DEF PendingCalls
      <3>3. QED  BY <3>1, <3>2
    <2>5. QED  BY <1>a, <2>2, <2>3, <2>4 DEF PendingCalls
  <1>13. Written(own, birth, g)'
    <2>1. \A i \in DOMAIN events : events[i].line # e.line
      BY <1>2, <1>i, <1>t DEF Written, EventTold
    <2>2. EventTold(e, own, birth, g)'
      <3>1. e.line \in 1..line'  BY <1>2, <1>3, <1>t
      <3>2. e.life = m /\ e.line = d  BY <1>2, <1>4, <1>6
      <3>3. \A K \in 1..lives : K < m => g[K] < d
        BY <1>8, <1>9
      <3>4. QED  BY <1>2, <1>5, <1>8, <1>9, <1>a, <3>1, <3>2, <3>3 DEF EventTold
    <2>3. ASSUME NEW i \in DOMAIN events, NEW f \in EventType, f = events[i]
          PROVE  EventTold(f, own, birth, g)'
      <3>1. EventTold(f, own, birth, gone)  BY <1>i, <2>3 DEF Written
      <3>2. f.line \in 1..line /\ f.line \in 1..line' /\ f.line <= d
        <4>1. f.line \in 1..line  BY <3>1 DEF EventTold
        <4>2. QED  BY <4>1, <1>3, <1>6, <1>t
      <3>3. f.life \in 1..lives /\ own[f.life] = f.pid /\ birth[f.life] < f.line
        BY <3>1 DEF EventTold
      <3>4. g[f.life] # 0 => f.line <= g[f.life]
        <4>1. CASE f.life = m  BY <1>8, <3>2, <4>1
        <4>2. CASE f.life # m  BY <1>8, <3>1, <3>3, <4>2 DEF EventTold
        <4>3. QED  BY <4>1, <4>2
      <3>5. ASSUME NEW K \in 1..lives, K < f.life, own[K] = f.pid
            PROVE  g[K] < f.line
        <4>1. gone[K] # 0  BY <1>i, <3>3, <3>5 DEF Succession
        <4>2. K # m  BY <1>5, <4>1
        <4>3. QED  BY <1>8, <3>1, <3>5, <4>2 DEF EventTold
      <3>6. f.kind = "exit" => g[f.life] = f.line
        <4>1. ASSUME f.kind = "exit" PROVE f.life # m
          <5>1. gone[f.life] = f.line  BY <3>1, <4>1 DEF EventTold
          <5>2. f.line # 0  BY <3>2
          <5>3. QED  BY <1>5, <5>1, <5>2
        <4>2. QED  BY <1>8, <3>1, <3>3, <4>1 DEF EventTold
      <3>7. QED  BY <1>a, <3>1, <3>2, <3>3, <3>4, <3>5, <3>6 DEF EventTold
    <2>4. QED  BY <1>3, <1>i, <2>1, <2>2, <2>3, WrittenExtends DEF Written
  <1>14. Losses(g)'
    <2>1. ASSUME ExitsTold(gone), \E i \in DOMAIN events' : events'[i] = e
          PROVE  ExitsTold(g)'
      <3>1. ASSUME NEW L \in 1..lives, g[L] # 0
            PROVE  \E i \in DOMAIN events' : events'[i].kind = "exit" /\ events'[i].life = L
        <4>1. CASE L = m  BY <1>2, <1>4, <2>1, <4>1
        <4>2. CASE L # m
          <5>1. gone[L] # 0  BY <1>8, <3>1, <4>2
          <5>2. QED  BY <1>3, <2>1, <5>1 DEF ExitsTold, Extended
        <4>3. QED  BY <4>1, <4>2
      <3>2. QED  BY <1>a, <3>1 DEF ExitsTold
    <2>2. ASSUME BirthsTold, also = 0
          PROVE  BirthsTold'
      <3>1. calls[p].life = 0  BY <1>b, <1>i, <2>2 DEF PendingCalls
      <3>2. ASSUME NEW q \in Pids, NEW L \in 2..lives, calls[q].life = L
            PROVE  calls'[q].life = L
        <4>1. L # 0  OBVIOUS
        <4>2. q # p  BY <3>1, <3>2, <4>1
        <4>3. QED  BY <1>c, <3>2, <4>2
      <3>3. QED  BY <1>3, <1>a, <2>2, <3>2 DEF BirthsTold, Extended
    <2>3. CASE lost' = lost + also /\ \E i \in DOMAIN events' : events'[i] = e
      <3>1. CASE also = 0
        <4>1. lost' = lost  BY <1>t, <2>3, <3>1
        <4>2. QED  BY <1>i, <2>1, <2>2, <2>3, <3>1, <4>1 DEF Losses
      <3>2. CASE also = 1
        <4>1. lost' # 0 /\ (lost' <= 1 => lost = 0)  BY <1>t, <2>3, <3>2
        <4>2. QED  BY <1>i, <2>1, <2>3, <4>1 DEF Losses
      <3>3. QED  BY <3>1, <3>2
    <2>4. CASE lost' = lost + also + 1
      <3>1. lost' # 0 /\ (lost' <= 1 => lost = 0 /\ also = 0)  BY <1>t, <2>4
      <3>2. QED  BY <1>i, <2>2, <3>1 DEF Losses
    <2>5. QED  BY <1>3, <2>3, <2>4
  <1>15. QED
    BY <1>10, <1>11, <1>12, <1>13, <1>14 DEF WorldInv, Told

(* The trace ends: a spawn still unreported has no event. *)
LEMMA EndTold ==
  ASSUME WorldTypeOK, NEW own \in [Nat -> Pids],
         NEW birth \in [Nat -> Nat], NEW gone \in [Nat -> Nat],
         Told(own, birth, gone), EndTrace
  PROVE  Told(own, birth, gone)'
  <1>a. /\ lost' = lost + Cardinality(Unreported)
        /\ UNCHANGED <<life, lives, calls, freed, line, raced, events>>
    BY DEF EndTrace
  <1>i. /\ Lifetimes(own, birth, gone) /\ Succession(own, birth, gone)
        /\ PendingCalls(own, birth, gone) /\ Written(own, birth, gone) /\ Losses(gone)
    BY DEF Told
  <1>1. Lifetimes(own, birth, gone)'  BY <1>a, <1>i DEF Lifetimes
  <1>2. Succession(own, birth, gone)'  BY <1>a, <1>i DEF Succession
  <1>3. PendingCalls(own, birth, gone)'  BY <1>a, <1>i DEF PendingCalls
  <1>4. Written(own, birth, gone)'  BY <1>a, <1>i DEF Written, EventTold
  <1>5. IsFiniteSet(Unreported)
    BY TimelineAssumption, FS_Subset DEF Unreported
  <1>6. Cardinality(Unreported) \in Nat /\ (Cardinality(Unreported) = 0 <=> Unreported = {})
    BY <1>5, FS_CardinalityType, FS_EmptySet
  <1>7. ExitsTold(gone) => ExitsTold(gone)'
    BY <1>a DEF ExitsTold
  <1>8. ASSUME BirthsTold, Unreported = {}
        PROVE  BirthsTold'
    <2>1. ASSUME NEW L \in 2..lives, NEW p \in Pids, calls[p].life = L
          PROVE  FALSE
      <3>1. L # 0  OBVIOUS
      <3>2. QED  BY <1>8, <1>i, <2>1, <3>1 DEF Unreported, PendingCalls
    <2>2. QED  BY <1>a, <1>8, <2>1 DEF BirthsTold
  <1>9. lost \in Nat  BY DEF WorldTypeOK
  <1>10. CASE Unreported = {}
    <2>1. lost' = lost  BY <1>a, <1>6, <1>9, <1>10
    <2>2. Losses(gone)'  BY <1>i, <1>7, <1>8, <1>10, <2>1 DEF Losses
    <2>3. QED  BY <1>1, <1>2, <1>3, <1>4, <2>2 DEF Told
  <1>11. CASE Unreported # {}
    <2>1. lost' # 0 /\ (lost' <= 1 => lost = 0)  BY <1>a, <1>6, <1>9, <1>11
    <2>2. Losses(gone)'  BY <1>i, <1>7, <2>1 DEF Losses
    <2>3. QED  BY <1>1, <1>2, <1>3, <1>4, <2>2 DEF Told
  <1>12. QED  BY <1>10, <1>11

(* Every step keeps some lifetimes behind the trace. *)
LEMMA WorldStep ==
  ASSUME WorldTypeOK, WorldInv, [TimelineNext]_timelineVars
  PROVE  WorldInv'
  <1>1. PICK own \in [Nat -> Pids], birth \in [Nat -> Nat], gone \in [Nat -> Nat] :
          Told(own, birth, gone)
    BY DEF WorldInv
  <1>2. ASSUME NEW p \in Pids, NEW kind \in {"call", "exec"}, Call(p, kind)
        PROVE  WorldInv'
    <2>1. Told(own, birth, gone)'  BY <1>1, <1>2, CallTold
    <2>2. QED  BY <2>1 DEF WorldInv
  <1>3. ASSUME NEW p \in Pids, EnterSpawn(p)
        PROVE  WorldInv'
    <2>1. Told(own, birth, gone)'  BY <1>1, <1>3, EnterTold
    <2>2. QED  BY <2>1 DEF WorldInv
  <1>4. ASSUME NEW p \in Pids, NEW q \in Pids, Fork(p, q)
        PROVE  WorldInv'
    BY <1>1, <1>4, ForkTold
  <1>5. ASSUME NEW p \in Pids, ReturnFromSpawn(p)
        PROVE  WorldInv'
    <2>1. Told(own, birth, gone)'  BY <1>1, <1>5, ReturnTold
    <2>2. QED  BY <2>1 DEF WorldInv
  <1>6. ASSUME NEW p \in Pids, Exit(p)
        PROVE  WorldInv'
    BY <1>1, <1>6, ExitTold
  <1>7. ASSUME EndTrace
        PROVE  WorldInv'
    <2>1. Told(own, birth, gone)'  BY <1>1, <1>7, EndTold
    <2>2. QED  BY <2>1 DEF WorldInv
  <1>8. ASSUME UNCHANGED <<worldVars, phase>>
        PROVE  WorldInv'
    <2>1. UNCHANGED <<life, lives, calls, freed, line, lost, raced, events, phase>>
      BY <1>8 DEF worldVars
    <2>2. Lifetimes(own, birth, gone)' /\ Succession(own, birth, gone)'
      BY <1>1, <2>1 DEF Told, Lifetimes, Succession
    <2>3. PendingCalls(own, birth, gone)'
      BY <1>1, <2>1 DEF Told, PendingCalls
    <2>4. Written(own, birth, gone)'
      BY <1>1, <2>1 DEF Told, Written, EventTold
    <2>5. Losses(gone)'
      BY <1>1, <2>1 DEF Told, Losses, ExitsTold, BirthsTold
    <2>6. QED  BY <2>2, <2>3, <2>4, <2>5 DEF Told, WorldInv
  <1>9. QED
    BY <1>2, <1>3, <1>4, <1>5, <1>6, <1>7, <1>8 DEF TimelineNext, ObserveEvent, timelineVars

-----------------------------------------------------------------------------
(* What the events say of each other *)

(* Facts about the events of a finished trace that hold whatever is        *)
(* missing: lines are distinct, a lifetime has one PID, at most one birth, *)
(* before its events, and no event after its exit.                         *)
Traced ==
  /\ \A i, j \in DOMAIN events : events[i].line = events[j].line => i = j
  /\ \A i \in DOMAIN events :
       /\ events[i].kind = "exit" => events[i].childPid = NoPid
       /\ events[i].childPid = NoPid <=> events[i].childLife = 0
  /\ \A i, j \in DOMAIN events : events[i].life = events[j].life => events[i].pid = events[j].pid
  /\ \A s, i \in DOMAIN events : events[s].childLife = events[i].life =>
       events[s].childPid = events[i].pid /\ events[s].line < events[i].line
  /\ \A s, t \in DOMAIN events :
       events[s].childLife # 0 /\ events[s].childLife = events[t].childLife => s = t
  /\ \A i, k \in DOMAIN events :
       events[k].kind = "exit" /\ events[k].life = events[i].life => events[i].line <= events[k].line

(* The lifetimes behind a trace give these facts. *)
LEMMA TraceOfWorld ==
  ASSUME WorldTypeOK, WorldInv
  PROVE  Traced
  <1>1. PICK own \in [Nat -> Pids], birth \in [Nat -> Nat], gone \in [Nat -> Nat] :
          Told(own, birth, gone)
    BY DEF WorldInv
  <1>2. /\ \A i, j \in DOMAIN events : events[i].line = events[j].line => i = j
        /\ \A i \in DOMAIN events : EventTold(events[i], own, birth, gone)
    BY <1>1 DEF Told, Written
  <1>3. ASSUME NEW i \in DOMAIN events
        PROVE  /\ events[i].kind = "exit" => events[i].childPid = NoPid
               /\ events[i].childPid = NoPid <=> events[i].childLife = 0
               /\ events[i].life # 0 /\ own[events[i].life] = events[i].pid
               /\ birth[events[i].life] < events[i].line
               /\ events[i].kind = "exit" => gone[events[i].life] = events[i].line
               /\ gone[events[i].life] # 0 => events[i].line <= gone[events[i].life]
               /\ events[i].line # 0
               /\ events[i].childLife # 0 =>
                    own[events[i].childLife] = events[i].childPid /\ birth[events[i].childLife] = events[i].line
    <2>1. EventTold(events[i], own, birth, gone)  BY <1>2
    <2>2. events[i].life # 0 /\ events[i].line # 0  BY <2>1 DEF EventTold
    <2>3. events[i].kind = "exit" => events[i].childPid = NoPid  BY <2>1 DEF EventTold
    <2>4. QED  BY <2>1, <2>2, <2>3 DEF EventTold
  <1>4. \A i, j \in DOMAIN events : events[i].life = events[j].life => events[i].pid = events[j].pid
    BY <1>3
  <1>5. \A s, i \in DOMAIN events : events[s].childLife = events[i].life =>
          events[s].childPid = events[i].pid /\ events[s].line < events[i].line
    BY <1>3
  <1>6. \A s, t \in DOMAIN events :
          events[s].childLife # 0 /\ events[s].childLife = events[t].childLife => s = t
    BY <1>2, <1>3
  <1>7. \A i, k \in DOMAIN events :
          events[k].kind = "exit" /\ events[k].life = events[i].life => events[i].line <= events[k].line
    BY <1>3
  <1>8. QED  BY <1>2, <1>3, <1>4, <1>5, <1>6, <1>7 DEF Traced

-----------------------------------------------------------------------------
(* The evidence order *)

(* An event's place in the replay order: how many events precede it. *)
Rank(i) == Cardinality({j \in DOMAIN events : Before(j, i)})

(* As no two events share an entry line, the order is that of the lines. *)
LEMMA RankOrder ==
  ASSUME WorldTypeOK, Traced
  PROVE  /\ \A i \in DOMAIN events : Rank(i) \in 0 .. Len(events) - 1
         /\ \A i, j \in DOMAIN events : events[i].line < events[j].line => Rank(i) < Rank(j)
         /\ \A i, j \in DOMAIN events : Rank(i) = Rank(j) => i = j
         /\ \A i, j \in DOMAIN events : Rank(i) < Rank(j) => events[i].line < events[j].line
  <1> DEFINE Earlier(i) == {j \in DOMAIN events : events[j].line < events[i].line}
  <1>1. events \in Seq(EventType) /\ Len(events) \in Nat /\ DOMAIN events = 1 .. Len(events)
    BY DEF WorldTypeOK
  <1>2. \A i \in DOMAIN events : events[i].line \in Nat /\ events[i].end \in Nat
    <2>1. \A i \in DOMAIN events : events[i] \in EventType  BY <1>1
    <2>2. QED  BY <2>1 DEF EventType
  <1>3. IsFiniteSet(DOMAIN events) /\ Cardinality(DOMAIN events) = Len(events)
    BY <1>1, FS_Interval
  <1>4. ASSUME NEW i \in DOMAIN events
        PROVE  Rank(i) = Cardinality(Earlier(i))
    <2>1. ASSUME NEW j \in DOMAIN events
          PROVE  Before(j, i) <=> events[j].line < events[i].line
      <3>1. CASE i = j
        <4>1. ~(events[i].line < events[i].line) /\ ~(events[i].end < events[i].end) /\ ~(i < i)
          BY <1>1, <1>2
        <4>2. QED  BY <3>1, <4>1 DEF Before
      <3>2. CASE i # j
        <4>1. events[i].line # events[j].line  BY <3>2 DEF Traced
        <4>2. QED  BY <4>1 DEF Before
      <3>3. QED  BY <3>1, <3>2
    <2>2. {j \in DOMAIN events : Before(j, i)} = Earlier(i)  BY <2>1
    <2>3. QED  BY <2>2 DEF Rank
  <1>5. ASSUME NEW i \in DOMAIN events
        PROVE  /\ IsFiniteSet(Earlier(i)) /\ Cardinality(Earlier(i)) \in Nat
               /\ Cardinality(Earlier(i)) < Len(events)
    <2>1. Earlier(i) \in SUBSET DOMAIN events /\ Earlier(i) # DOMAIN events
      BY <1>2
    <2>2. /\ IsFiniteSet(Earlier(i)) /\ Cardinality(Earlier(i)) <= Len(events)
          /\ Cardinality(Earlier(i)) # Len(events)
      BY <1>3, <2>1, FS_Subset
    <2>3. Cardinality(Earlier(i)) \in Nat  BY <2>2, FS_CardinalityType
    <2>4. QED  BY <1>1, <2>2, <2>3
  <1>6. ASSUME NEW i \in DOMAIN events, NEW j \in DOMAIN events, events[i].line < events[j].line
        PROVE  Rank(i) < Rank(j)
    <2>1. Earlier(i) \in SUBSET Earlier(j) /\ i \in Earlier(j) /\ i \notin Earlier(i)
      BY <1>2, <1>6
    <2>2. /\ Cardinality(Earlier(i)) <= Cardinality(Earlier(j))
          /\ Cardinality(Earlier(i)) # Cardinality(Earlier(j))
      BY <1>5, <2>1, FS_Subset
    <2>3. Rank(i) = Cardinality(Earlier(i)) /\ Rank(j) = Cardinality(Earlier(j))  BY <1>4
    <2>4. Cardinality(Earlier(i)) \in Nat /\ Cardinality(Earlier(j)) \in Nat  BY <1>5
    <2> HIDE DEF Earlier
    <2>5. QED  BY <2>2, <2>3, <2>4
  <1>7. ASSUME NEW i \in DOMAIN events
        PROVE  Rank(i) \in 0 .. Len(events) - 1
    <2>1. Rank(i) = Cardinality(Earlier(i))  BY <1>4
    <2>2. Cardinality(Earlier(i)) \in Nat /\ Cardinality(Earlier(i)) < Len(events)  BY <1>5
    <2> HIDE DEF Earlier
    <2>3. QED  BY <1>1, <2>1, <2>2
  <1>8. ASSUME NEW i \in DOMAIN events, NEW j \in DOMAIN events
        PROVE  events[i].line < events[j].line \/ events[j].line < events[i].line \/ i = j
    BY <1>2 DEF Traced
  <1>9. ASSUME NEW i \in DOMAIN events, NEW j \in DOMAIN events
        PROVE  /\ Rank(i) = Rank(j) => i = j
               /\ Rank(i) < Rank(j) => events[i].line < events[j].line
    <2>1. Rank(i) \in Int /\ Rank(j) \in Int  BY <1>7
    <2>2. CASE events[i].line < events[j].line  BY <1>6, <2>1, <2>2
    <2>3. CASE events[j].line < events[i].line
      <3>1. Rank(j) < Rank(i)  BY <1>6, <2>3
      <3>2. QED  BY <2>1, <3>1
    <2>4. CASE i = j  BY <2>1, <2>4
    <2>5. QED  BY <1>8, <2>2, <2>3, <2>4
  <1>10. QED  BY <1>6, <1>7, <1>9

(* Ranks are distinct numbers below the number of events, so each of them  *)
(* is the rank of an event: the replay visits them one after the other.    *)
LEMMA OrderIsTotal ==
  ASSUME WorldTypeOK, Traced, NEW k \in DOMAIN events
  PROVE  EventOrder[k] \in DOMAIN events /\ Rank(EventOrder[k]) = k - 1
  <1> DEFINE R == [i \in DOMAIN events |-> Rank(i)]
             T == 0 .. Len(events) - 1
  <1>1. Len(events) \in Nat /\ DOMAIN events = 1 .. Len(events) /\ k \in 1 .. Len(events)
    BY DEF WorldTypeOK
  <1>2. IsFiniteSet(DOMAIN events) /\ Cardinality(DOMAIN events) = Len(events)
    <2>1. Len(events) \in Int /\ 1 \in Int /\ ~(1 > Len(events))  BY <1>1
    <2>2. IsFiniteSet(1 .. Len(events)) /\ Cardinality(1 .. Len(events)) = Len(events) - 1 + 1
      BY <2>1, FS_Interval
    <2>3. QED  BY <1>1, <2>2
  <1>3. IsFiniteSet(T) /\ Cardinality(T) = Len(events)
    <2>1. Len(events) - 1 \in Int /\ 0 \in Int /\ ~(0 > Len(events) - 1)  BY <1>1
    <2>2. IsFiniteSet(T) /\ Cardinality(T) = (Len(events) - 1) - 0 + 1
      BY <2>1, FS_Interval
    <2>3. QED  BY <1>1, <2>2
  <1>4. R \in Injection(DOMAIN events, T)
    <2>1. R \in [DOMAIN events -> T]  BY RankOrder
    <2>2. \A i, j \in DOMAIN events : R[i] = R[j] => i = j  BY RankOrder
    <2>3. QED  BY <2>1, <2>2 DEF Injection, IsInjective
  <1>5. R \in Surjection(DOMAIN events, T)
    BY <1>2, <1>3, <1>4, FS_Injection
  <1>6. k - 1 \in T  BY <1>1
  <1>7. \E i \in DOMAIN events : Rank(i) = k - 1
    BY <1>5, <1>6 DEF Surjection
  <1>8. EventOrder[k] =
          CHOOSE i \in DOMAIN events : Cardinality({j \in DOMAIN events : Before(j, i)}) = k - 1
    BY DEF EventOrder
  <1>9. QED  BY <1>7, <1>8 DEF Rank

-----------------------------------------------------------------------------
(* One step of the replay *)

(* Type correctness of the replay. *)
ReplayTypeOK ==
  /\ position \in Nat
  /\ generations \in Seq(GenerationType)
  /\ active \in [Pids -> Nat]
  /\ \A p \in Pids : active[p] # 0 => active[p] \in DOMAIN generations
  /\ phase = "tracing" =>
       position = 0 /\ generations = <<>> /\ \A p \in Pids : active[p] = 0
  /\ phase = "replaying" =>
       /\ position <= Len(events)
       /\ actor \in [DOMAIN events -> Nat] /\ child \in [DOMAIN events -> Nat]

(* Ordinals count the generations of a PID in the order of the table. *)
Numbered(gens) ==
  \A g \in DOMAIN gens :
    gens[g].ordinal =
      Cardinality({h \in DOMAIN gens : h < g /\ gens[h].pid = gens[g].pid}) + 1

(* A generation added to the table. *)
Pushed(pushed, gens, pid, origin) ==
  /\ pushed \in Seq(GenerationType)
  /\ DOMAIN pushed = DOMAIN gens \cup {Len(gens) + 1}
  /\ Len(gens) + 1 \notin DOMAIN gens /\ Len(gens) + 1 # 0
  /\ \A h \in DOMAIN gens : pushed[h] = gens[h]
  /\ pushed[Len(gens) + 1].pid = pid /\ pushed[Len(gens) + 1].exit = 0
  /\ pushed[Len(gens) + 1].origin = origin
  /\ Numbered(gens) => Numbered(pushed)

(* PushGeneration does that. *)
LEMMA PushFacts ==
  ASSUME NEW gens \in Seq(GenerationType), NEW pid \in Pids, NEW origin \in Origins
  PROVE  Pushed(PushGeneration(gens, pid, origin), gens, pid, origin)
  <1> DEFINE same == {g \in DOMAIN gens : gens[g].pid = pid}
  <1>1. Len(gens) \in Nat /\ DOMAIN gens = 1 .. Len(gens)
    OBVIOUS
  <1>2. IsFiniteSet(DOMAIN gens)  BY <1>1, FS_Interval
  <1>3. same \in SUBSET DOMAIN gens  OBVIOUS
  <1>4. Cardinality(same) \in Nat  BY <1>2, <1>3, FS_Subset, FS_CardinalityType
  <1>5. PICK new \in GenerationType :
          new = [pid |-> pid, origin |-> origin, exit |-> 0, ordinal |-> Cardinality(same) + 1]
    <2> HIDE DEF same
    <2>1. PICK m \in Nat : m = Cardinality(same) + 1  BY <1>4
    <2>2. [pid |-> pid, origin |-> origin, exit |-> 0, ordinal |-> m] \in GenerationType
      BY DEF GenerationType
    <2>3. QED  BY <2>1, <2>2
  <1>6. new.pid = pid /\ new.origin = origin /\ new.exit = 0 /\ new.ordinal = Cardinality(same) + 1
    BY <1>5
  <1>7. PICK pushed \in Seq(GenerationType) : pushed = Append(gens, new)
    BY AppendExtends
  <1>8. PushGeneration(gens, pid, origin) = pushed
    BY <1>5, <1>7 DEF PushGeneration
  <1>9. /\ DOMAIN pushed = DOMAIN gens \cup {Len(gens) + 1}
        /\ Len(gens) + 1 \notin DOMAIN gens /\ Len(pushed) = Len(gens) + 1
        /\ \A h \in DOMAIN gens : pushed[h] = gens[h]
        /\ pushed[Len(gens) + 1] = new
    BY <1>7, AppendExtends
  <1>10. ASSUME Numbered(gens)
         PROVE  Numbered(pushed)
    <2>1. ASSUME NEW g \in DOMAIN gens
          PROVE  pushed[g].ordinal =
                   Cardinality({h \in DOMAIN pushed : h < g /\ pushed[h].pid = pushed[g].pid}) + 1
      <3>1. ~(Len(gens) + 1 < g)  BY <1>1
      <3>2. {h \in DOMAIN pushed : h < g /\ pushed[h].pid = pushed[g].pid}
              = {h \in DOMAIN gens : h < g /\ gens[h].pid = gens[g].pid}
        BY <1>9, <3>1
      <3>3. QED  BY <1>9, <1>10, <3>2 DEF Numbered
    <2>2. /\ \A h \in DOMAIN gens : h < Len(gens) + 1
          /\ ~(Len(gens) + 1 < Len(gens) + 1)
      BY <1>1
    <2>3. {h \in DOMAIN pushed : h < Len(gens) + 1 /\ pushed[h].pid = pid} = same
      BY <1>9, <2>2
    <2>4. QED  BY <1>6, <1>9, <2>1, <2>3 DEF Numbered
  <1>11. Len(gens) + 1 # 0  BY <1>1
  <1>12. QED  BY <1>6, <1>8, <1>9, <1>10, <1>11 DEF Pushed

(* One entry of a sequence replaced. *)
LEMMA ReplaceEntry ==
  ASSUME NEW S, NEW s \in Seq(S), NEW c \in DOMAIN s, NEW e \in S
  PROVE  /\ [s EXCEPT ![c] = e] \in Seq(S) /\ Len([s EXCEPT ![c] = e]) = Len(s)
         /\ DOMAIN [s EXCEPT ![c] = e] = DOMAIN s /\ [s EXCEPT ![c] = e][c] = e
         /\ \A k \in DOMAIN s : k # c => [s EXCEPT ![c] = e][k] = s[k]
  OBVIOUS

(* An exit noted in the table. *)
Noted(noted, gens, g, n) ==
  /\ noted \in Seq(GenerationType)
  /\ DOMAIN noted = DOMAIN gens /\ Len(noted) = Len(gens)
  /\ \A h \in DOMAIN gens : /\ noted[h].pid = gens[h].pid
                            /\ noted[h].origin = gens[h].origin
                            /\ h # g => noted[h] = gens[h]
  /\ noted[g].exit = n
  /\ Numbered(gens) => Numbered(noted)

(* Replacing one field does that. *)
LEMMA ExitFacts ==
  ASSUME NEW gens \in Seq(GenerationType), NEW g \in DOMAIN gens, NEW n \in Nat
  PROVE  Noted([gens EXCEPT ![g].exit = n], gens, g, n)
  <1>0. gens[g] \in GenerationType  OBVIOUS
  <1>1. PICK new \in GenerationType : new = [gens[g] EXCEPT !.exit = n]
    BY <1>0 DEF GenerationType
  <1>2. /\ new.pid = gens[g].pid /\ new.origin = gens[g].origin
        /\ new.exit = n /\ new.ordinal = gens[g].ordinal
    BY <1>0, <1>1 DEF GenerationType
  <1>3. PICK noted \in Seq(GenerationType) : noted = [gens EXCEPT ![g] = new]
    BY ReplaceEntry
  <1>4. [gens EXCEPT ![g].exit = n] = noted
    BY <1>1, <1>3
  <1>5. /\ DOMAIN noted = DOMAIN gens /\ Len(noted) = Len(gens) /\ noted[g] = new
        /\ \A h \in DOMAIN gens : h # g => noted[h] = gens[h]
    BY <1>3, ReplaceEntry
  <1>6. \A h \in DOMAIN gens : noted[h].pid = gens[h].pid /\ noted[h].ordinal = gens[h].ordinal
                               /\ noted[h].origin = gens[h].origin
    BY <1>2, <1>5
  <1>7. ASSUME Numbered(gens)
        PROVE  Numbered(noted)
    <2>1. ASSUME NEW f \in DOMAIN gens
          PROVE  {h \in DOMAIN noted : h < f /\ noted[h].pid = noted[f].pid}
                   = {h \in DOMAIN gens : h < f /\ gens[h].pid = gens[f].pid}
      BY <1>5, <1>6
    <2>2. QED  BY <1>5, <1>6, <1>7, <2>1 DEF Numbered
  <1>8. QED  BY <1>2, <1>4, <1>5, <1>6, <1>7 DEF Noted

(* What handling the event n does: `id` is its actor's generation and `c`  *)
(* its child's, 0 if there is none.                                        *)
Observed(n, id, c) ==
  /\ id # 0 /\ id \in DOMAIN generations' /\ generations' \in Seq(GenerationType)
  /\ active' \in [Pids -> Nat]
  /\ actor' = [actor EXCEPT ![n] = id] /\ child' = [child EXCEPT ![n] = c]
  /\ \A h \in DOMAIN generations :
       /\ h \in DOMAIN generations'
       /\ generations'[h].pid = generations[h].pid /\ generations'[h].origin = generations[h].origin
       /\ ~(events[n].kind = "exit" /\ h = id) => generations'[h].exit = generations[h].exit
  /\ \A h \in DOMAIN generations' : h \in DOMAIN generations \/ h = id \/ (h = c /\ h # 0)
  /\ active[events[n].pid] # 0 => id = active[events[n].pid]
  /\ active[events[n].pid] = 0 =>
       /\ id \notin DOMAIN generations /\ generations'[id].pid = events[n].pid
       /\ generations'[id].origin = ActorOrigin(events[n].pid)
       /\ events[n].kind # "exit" => generations'[id].exit = 0
  /\ events[n].kind = "exit" => generations'[id].exit = n
  /\ events[n].childPid = NoPid => c = 0
  /\ events[n].childPid # NoPid =>
       /\ c \in DOMAIN generations' /\ c \notin DOMAIN generations /\ c # id /\ c # 0
       /\ generations'[c].pid = events[n].childPid /\ generations'[c].exit = 0
       /\ generations'[c].origin =
            IF events[n].childPid # events[n].pid /\ active[events[n].childPid] = 0
            THEN "Spawned" ELSE "LiveCollision"
       /\ active'[events[n].childPid] = c
  /\ events[n].childPid # events[n].pid =>
       active'[events[n].pid] = IF events[n].kind = "exit" THEN 0 ELSE id
  /\ \A q \in Pids \ {events[n].pid, events[n].childPid} : active'[q] = active[q]
  /\ Numbered(generations) => Numbered(generations')

(* The actor's generation, found live or added. *)
ActorFound(r, e) ==
  /\ r.gens \in Seq(GenerationType) /\ r.live \in [Pids -> Nat]
  /\ r.id \in Nat /\ r.id # 0 /\ r.id \in DOMAIN r.gens
  /\ \A h \in DOMAIN generations : h \in DOMAIN r.gens /\ r.gens[h] = generations[h]
  /\ \A h \in DOMAIN r.gens : h \in DOMAIN generations \/ h = r.id
  /\ active[e.pid] # 0 => r.id = active[e.pid]
  /\ active[e.pid] = 0 =>
       /\ r.id \notin DOMAIN generations /\ r.gens[r.id].pid = e.pid
       /\ r.gens[r.id].origin = ActorOrigin(e.pid) /\ r.gens[r.id].exit = 0
  /\ r.live[e.pid] = r.id
  /\ \A q \in Pids \ {e.pid} : r.live[q] = active[q]
  /\ Numbered(generations) => Numbered(r.gens)

(* WithActor does that. *)
LEMMA ActorStep ==
  ASSUME ReplayTypeOK, NEW e \in EventType
  PROVE  ActorFound(WithActor(e), e)
  <1>1. e.pid \in Pids  BY DEF EventType
  <1>2. generations \in Seq(GenerationType) /\ active \in [Pids -> Nat]  BY DEF ReplayTypeOK
  <1>3. ActorOrigin(e.pid) \in Origins
    BY DEF ActorOrigin, Origins
  <1>4. CASE active[e.pid] # 0
    <2>1. WithActor(e) = [id |-> active[e.pid], gens |-> generations, live |-> active]
      BY <1>4 DEF WithActor
    <2>2. active[e.pid] \in DOMAIN generations  BY <1>1, <1>4 DEF ReplayTypeOK
    <2>3. QED  BY <1>1, <1>2, <1>4, <2>1, <2>2 DEF ActorFound
  <1>5. CASE active[e.pid] = 0
    <2>1. PICK pushed : pushed = PushGeneration(generations, e.pid, ActorOrigin(e.pid))
      OBVIOUS
    <2>2. Pushed(pushed, generations, e.pid, ActorOrigin(e.pid))
      BY <1>1, <1>2, <1>3, <2>1, PushFacts
    <2>3. PICK m \in Nat : m = Len(generations) + 1  BY <1>2
    <2>4. PICK lv \in [Pids -> Nat] : lv = [active EXCEPT ![e.pid] = m]  BY <1>2
    <2>5. WithActor(e) = [id |-> m, gens |-> pushed, live |-> lv]
      BY <1>5, <2>1, <2>3, <2>4 DEF WithActor
    <2>6. lv[e.pid] = m /\ \A q \in Pids \ {e.pid} : lv[q] = active[q]
      BY <1>1, <1>2, <2>4
    <2>7. QED  BY <1>5, <2>2, <2>3, <2>5, <2>6 DEF ActorFound, Pushed
  <1>6. QED  BY <1>4, <1>5

(* The exit noted, if the event is one, and the PID free. *)
ExitNoted(r, s, e, n) ==
  /\ s.gens \in Seq(GenerationType) /\ s.live \in [Pids -> Nat] /\ s.id = r.id
  /\ DOMAIN s.gens = DOMAIN r.gens /\ Len(s.gens) = Len(r.gens)
  /\ \A h \in DOMAIN r.gens :
       /\ s.gens[h].pid = r.gens[h].pid /\ s.gens[h].origin = r.gens[h].origin
       /\ ~(e.kind = "exit" /\ h = r.id) => s.gens[h].exit = r.gens[h].exit
  /\ e.kind = "exit" => s.gens[r.id].exit = n
  /\ s.live[e.pid] = IF e.kind = "exit" THEN 0 ELSE r.live[e.pid]
  /\ \A q \in Pids \ {e.pid} : s.live[q] = r.live[q]
  /\ Numbered(r.gens) => Numbered(s.gens)

(* WithExit does that. *)
LEMMA ExitStep ==
  ASSUME NEW e \in EventType, NEW n \in Nat, NEW r,
         r.gens \in Seq(GenerationType), r.live \in [Pids -> Nat], r.id \in DOMAIN r.gens
  PROVE  ExitNoted(r, WithExit(e, n, r), e, n)
  <1>1. e.pid \in Pids  BY DEF EventType
  <1>2. CASE e.kind = "exit"
    <2>1. PICK noted : noted = [r.gens EXCEPT ![r.id].exit = n]
      OBVIOUS
    <2>2. Noted(noted, r.gens, r.id, n)
      BY <2>1, ExitFacts
    <2>3. PICK lv \in [Pids -> Nat] : lv = [r.live EXCEPT ![e.pid] = 0]  OBVIOUS
    <2>4. lv[e.pid] = 0 /\ \A q \in Pids \ {e.pid} : lv[q] = r.live[q]
      BY <1>1, <2>3
    <2>5. WithExit(e, n, r) = [id |-> r.id, gens |-> noted, live |-> lv]
      BY <1>2, <2>1, <2>3 DEF WithExit
    <2>6. QED  BY <1>2, <2>2, <2>4, <2>5 DEF ExitNoted, Noted
  <1>3. CASE e.kind # "exit"
    <2>1. WithExit(e, n, r) = r  BY <1>3 DEF WithExit
    <2>2. QED  BY <1>3, <2>1 DEF ExitNoted
  <1>4. QED  BY <1>2, <1>3

(* The child's generation, added whether its PID is live or not. *)
ChildAdded(r, s, e) ==
  /\ s.gens \in Seq(GenerationType) /\ s.live \in [Pids -> Nat] /\ s.id = r.id
  /\ \A h \in DOMAIN r.gens : h \in DOMAIN s.gens /\ s.gens[h] = r.gens[h]
  /\ \A h \in DOMAIN s.gens : h \in DOMAIN r.gens \/ (h = s.spawned /\ h # 0)
  /\ e.childPid = NoPid => s.spawned = 0 /\ s.live = r.live
  /\ e.childPid # NoPid =>
       /\ s.spawned \in DOMAIN s.gens /\ s.spawned \notin DOMAIN r.gens /\ s.spawned # 0
       /\ s.gens[s.spawned].pid = e.childPid /\ s.gens[s.spawned].exit = 0
       /\ s.gens[s.spawned].origin = IF r.live[e.childPid] = 0 THEN "Spawned" ELSE "LiveCollision"
       /\ s.live[e.childPid] = s.spawned
       /\ \A q \in Pids \ {e.childPid} : s.live[q] = r.live[q]
  /\ Numbered(r.gens) => Numbered(s.gens)

(* WithChild does that. *)
LEMMA ChildStep ==
  ASSUME NEW e \in EventType, NEW r, r.gens \in Seq(GenerationType), r.live \in [Pids -> Nat]
  PROVE  ChildAdded(r, WithChild(e, r), e)
  <1>2. CASE e.childPid = NoPid
    <2>1. WithChild(e, r) = [id |-> r.id, spawned |-> 0, gens |-> r.gens, live |-> r.live]
      BY <1>2 DEF WithChild
    <2>2. QED  BY <1>2, <2>1 DEF ChildAdded
  <1>3. CASE e.childPid # NoPid
    <2>0. e.childPid \in Pids  BY <1>3 DEF EventType
    <2>1. PICK origin \in Origins : origin = IF r.live[e.childPid] = 0 THEN "Spawned" ELSE "LiveCollision"
      BY DEF Origins
    <2>2. PICK pushed : pushed = PushGeneration(r.gens, e.childPid, origin)
      OBVIOUS
    <2>3. Pushed(pushed, r.gens, e.childPid, origin)
      BY <2>0, <2>1, <2>2, PushFacts
    <2>4. PICK m \in Nat : m = Len(r.gens) + 1  OBVIOUS
    <2>5. PICK lv \in [Pids -> Nat] : lv = [r.live EXCEPT ![e.childPid] = m]  OBVIOUS
    <2>6. lv[e.childPid] = m /\ \A q \in Pids \ {e.childPid} : lv[q] = r.live[q]
      BY <2>0, <2>5
    <2>7. WithChild(e, r) = [id |-> r.id, spawned |-> m, gens |-> pushed, live |-> lv]
      BY <1>3, <2>1, <2>2, <2>4, <2>5 DEF WithChild
    <2>8. QED  BY <1>3, <2>1, <2>3, <2>4, <2>6, <2>7 DEF ChildAdded, Pushed
  <1>4. QED  BY <1>2, <1>3

(* Handling an event is these three steps. *)
LEMMA ObserveFacts ==
  ASSUME WorldTypeOK, ReplayTypeOK, Traced, ObserveEvent
  PROVE  \E n \in DOMAIN events, id, c \in Nat :
           n = EventOrder[position + 1] /\ Rank(n) = position /\ Observed(n, id, c)
  <1>1. position \in Nat /\ position < Len(events) /\ events \in Seq(EventType)
    BY DEF ObserveEvent, WorldTypeOK, ReplayTypeOK
  <1>2. position + 1 \in DOMAIN events /\ (position + 1) - 1 = position
    BY <1>1
  <1>3. PICK n \in DOMAIN events : n = EventOrder[position + 1] /\ Rank(n) = position
    BY <1>2, OrderIsTotal
  <1>4. PICK e \in EventType : e = events[n]
    BY <1>1
  <1>n. n \in Nat  BY <1>1
  <1>5. PICK r : r = WithActor(e)  OBVIOUS
  <1>6. PICK s : s = WithExit(e, n, r)  OBVIOUS
  <1>7. PICK t : t = WithChild(e, s)  OBVIOUS
  <1>8. ActorFound(r, e)  BY <1>5, ActorStep
  <1>9. ExitNoted(r, s, e, n)  BY <1>6, <1>8, <1>n, ExitStep DEF ActorFound
  <1>10. ChildAdded(s, t, e)  BY <1>7, <1>9, ChildStep DEF ExitNoted
  <1>11. /\ generations' = t.gens /\ active' = t.live
         /\ actor' = [actor EXCEPT ![n] = t.id] /\ child' = [child EXCEPT ![n] = t.spawned]
    BY <1>3, <1>4, <1>5, <1>6, <1>7 DEF ObserveEvent
  <1>12. PICK id \in Nat : id = t.id /\ id = s.id /\ id = r.id
    BY <1>8, <1>9, <1>10 DEF ActorFound, ExitNoted, ChildAdded
  <1>13. PICK c \in Nat : c = t.spawned
    <2>1. t.gens \in Seq(GenerationType)  BY <1>10 DEF ChildAdded
    <2>2. t.spawned \in DOMAIN t.gens \/ t.spawned = 0  BY <1>10 DEF ChildAdded
    <2>3. QED  BY <2>1, <2>2
  <1>p. /\ e.pid \in Pids /\ (e.childPid # NoPid => e.childPid \in Pids)
        /\ (e.kind = "exit" => e.childPid = NoPid) /\ NoPid \notin Pids
    BY <1>4, TimelineAssumption DEF EventType, Traced
  <1>14. /\ id # 0 /\ id \in DOMAIN generations' /\ generations' \in Seq(GenerationType)
         /\ active' \in [Pids -> Nat]
         /\ actor' = [actor EXCEPT ![n] = id] /\ child' = [child EXCEPT ![n] = c]
    BY <1>8, <1>9, <1>10, <1>11, <1>12, <1>13 DEF ActorFound, ExitNoted, ChildAdded
  <1>15. ASSUME NEW h \in DOMAIN generations
         PROVE  /\ h \in DOMAIN generations'
                /\ generations'[h].pid = generations[h].pid
                /\ generations'[h].origin = generations[h].origin
                /\ ~(e.kind = "exit" /\ h = id) => generations'[h].exit = generations[h].exit
    <2>1. h \in DOMAIN r.gens /\ r.gens[h] = generations[h]  BY <1>8 DEF ActorFound
    <2>2. /\ h \in DOMAIN s.gens /\ s.gens[h].pid = r.gens[h].pid /\ s.gens[h].origin = r.gens[h].origin
          /\ ~(e.kind = "exit" /\ h = id) => s.gens[h].exit = r.gens[h].exit
      BY <1>9, <1>12, <2>1 DEF ExitNoted
    <2>3. h \in DOMAIN t.gens /\ t.gens[h] = s.gens[h]  BY <1>10, <2>2 DEF ChildAdded
    <2>4. QED  BY <1>11, <2>1, <2>2, <2>3
  <1>16. \A h \in DOMAIN generations' : h \in DOMAIN generations \/ h = id \/ (h = c /\ h # 0)
    BY <1>8, <1>9, <1>10, <1>11, <1>12, <1>13 DEF ActorFound, ExitNoted, ChildAdded
  <1>17. /\ active[e.pid] # 0 => id = active[e.pid]
         /\ active[e.pid] = 0 => id \notin DOMAIN generations
    BY <1>8, <1>12 DEF ActorFound
  <1>18. id \in DOMAIN r.gens /\ id \in DOMAIN s.gens /\ t.gens[id] = s.gens[id]
    BY <1>8, <1>9, <1>10, <1>12 DEF ActorFound, ExitNoted, ChildAdded
  <1>19. active[e.pid] = 0 =>
           /\ generations'[id].pid = e.pid
           /\ generations'[id].origin = ActorOrigin(e.pid)
           /\ e.kind # "exit" => generations'[id].exit = 0
    BY <1>8, <1>9, <1>11, <1>12, <1>18 DEF ActorFound, ExitNoted
  <1>20. e.kind = "exit" => generations'[id].exit = n
    BY <1>9, <1>11, <1>12, <1>18 DEF ExitNoted
  <1>21. e.childPid = NoPid => c = 0
    BY <1>10, <1>13 DEF ChildAdded
  <1>22. ASSUME e.childPid # NoPid
         PROVE  /\ c \in DOMAIN generations' /\ c \notin DOMAIN generations /\ c # id /\ c # 0
                /\ generations'[c].pid = e.childPid /\ generations'[c].exit = 0
                /\ generations'[c].origin =
                     IF e.childPid # e.pid /\ active[e.childPid] = 0
                     THEN "Spawned" ELSE "LiveCollision"
                /\ active'[e.childPid] = c
    <2>1. /\ c \in DOMAIN generations' /\ c \notin DOMAIN s.gens /\ c # 0
          /\ generations'[c].pid = e.childPid /\ generations'[c].exit = 0
          /\ generations'[c].origin = IF s.live[e.childPid] = 0 THEN "Spawned" ELSE "LiveCollision"
          /\ active'[e.childPid] = c
      BY <1>10, <1>11, <1>13, <1>22 DEF ChildAdded
    <2>2. c \notin DOMAIN generations /\ c # id
      BY <1>8, <1>9, <1>18, <2>1 DEF ActorFound, ExitNoted
    <2>3. s.live[e.childPid] = 0 <=> e.childPid # e.pid /\ active[e.childPid] = 0
      <3>1. CASE e.childPid = e.pid
        <4>1. s.live[e.pid] = id /\ id # 0
          BY <1>8, <1>9, <1>12, <1>14, <1>p, <1>22 DEF ActorFound, ExitNoted
        <4>2. QED  BY <3>1, <4>1
      <3>2. CASE e.childPid # e.pid
        <4>1. s.live[e.childPid] = active[e.childPid]
          BY <1>8, <1>9, <1>p, <1>22, <3>2 DEF ActorFound, ExitNoted
        <4>2. QED  BY <3>2, <4>1
      <3>3. QED  BY <3>1, <3>2
    <2>4. QED  BY <2>1, <2>2, <2>3
  <1>23. ASSUME NEW q \in Pids, q # e.childPid
         PROVE  active'[q] = s.live[q]
    <2>1. CASE e.childPid = NoPid  BY <1>10, <1>11, <2>1 DEF ChildAdded
    <2>2. CASE e.childPid # NoPid  BY <1>10, <1>11, <1>23, <2>2 DEF ChildAdded
    <2>3. QED  BY <2>1, <2>2
  <1>24. e.childPid # e.pid => active'[e.pid] = IF e.kind = "exit" THEN 0 ELSE id
    BY <1>8, <1>9, <1>12, <1>23, <1>p DEF ActorFound, ExitNoted
  <1>25. \A q \in Pids \ {e.pid, e.childPid} : active'[q] = active[q]
    BY <1>8, <1>9, <1>23 DEF ActorFound, ExitNoted
  <1>26. Numbered(generations) => Numbered(generations')
    BY <1>8, <1>9, <1>10, <1>11 DEF ActorFound, ExitNoted, ChildAdded
  <1>27. Observed(n, id, c)
    BY <1>4, <1>14, <1>15, <1>16, <1>17, <1>19, <1>20, <1>21, <1>22, <1>24, <1>25, <1>26 DEF Observed
  <1>28. QED  BY <1>3, <1>27

-----------------------------------------------------------------------------
(* The replay's invariant *)

(* The events the replay has attributed. *)
Handled == {i \in DOMAIN events : Rank(i) < position}

(* Generations have the PIDs of their events, every generation has a       *)
(* handled event, an exit is that of its actor's generation, only live     *)
(* generations are active, and no event of a generation precedes the spawn *)
(* that allocated it.                                                      *)
Attributed ==
  /\ \A i \in Handled :
       /\ actor[i] \in DOMAIN generations
       /\ generations[actor[i]].pid = events[i].pid
       /\ events[i].kind = "exit" => generations[actor[i]].exit # 0
       /\ events[i].childPid = NoPid => child[i] = 0
       /\ events[i].childPid # NoPid =>
            child[i] \in DOMAIN generations /\ generations[child[i]].pid = events[i].childPid
  /\ \A g \in DOMAIN generations :
       (\E i \in Handled : actor[i] = g) \/ (\E i \in Handled : child[i] = g)
  /\ \A g \in DOMAIN generations : generations[g].exit # 0 =>
       /\ generations[g].exit \in Handled
       /\ events[generations[g].exit].kind = "exit" /\ actor[generations[g].exit] = g
  /\ \A p \in Pids : active[p] # 0 =>
       generations[active[p]].pid = p /\ generations[active[p]].exit = 0
  /\ \A s, i \in Handled : child[s] = actor[i] => events[s].line < events[i].line

(* An exit of a PID and a spawn that reports it separate its events: no    *)
(* generation has events on both sides.                                    *)
Ends(k, p) == events[k].childPid = p \/ (events[k].kind = "exit" /\ events[k].pid = p)
Separated ==
  /\ \A i, k \in Handled :
       Ends(k, events[i].pid) /\ events[i].line <= events[k].line
       => active[events[i].pid] # actor[i]
  /\ \A i, j, k \in Handled :
       /\ events[i].pid = events[j].pid /\ Ends(k, events[i].pid)
       /\ events[i].line <= events[k].line /\ events[k].line < events[j].line
       => actor[i] # actor[j]

(* Every task but the first has its birth in the trace. *)
Introduced ==
  \A i \in DOMAIN events : events[i].life # 1 =>
    \E s \in DOMAIN events : events[s].childLife = events[i].life

(* When a spawn reports a PID, every earlier task of that PID has exited   *)
(* on an earlier line of the trace.                                        *)
Sequential ==
  \A n \in DOMAIN events : events[n].childPid # NoPid =>
    /\ events[n].childPid # events[n].pid
    /\ \A i \in DOMAIN events : events[i].line < events[n].line =>
         /\ events[i].pid = events[n].childPid =>
              \E k \in DOMAIN events : /\ events[k].kind = "exit" /\ events[k].life = events[i].life
                                       /\ events[k].line < events[n].line
         /\ events[i].childPid = events[n].childPid =>
              \E k \in DOMAIN events : /\ events[k].kind = "exit" /\ events[k].life = events[i].childLife
                                       /\ events[k].line < events[n].line

(* No generation carries an identity finding. *)
AllTrusted == \A g \in DOMAIN generations : ~IsUntrusted(g)

(* Generations are lifetimes. *)
Exact ==
  /\ \A i, j \in Handled : actor[i] = actor[j] <=> events[i].life = events[j].life
  /\ \A s, i \in Handled : events[s].childPid # NoPid =>
       (child[s] = actor[i] <=> events[s].childLife = events[i].life)
  /\ \A s, t \in Handled : events[s].childPid # NoPid /\ child[s] = child[t] => s = t
  /\ \A g \in DOMAIN generations :
       generations[g].exit = 0 => active[generations[g].pid] = g
  /\ Handled # {} => \E i \in Handled : events[i].life = 1

(* The first successful exec, once one is handled. *)
ExecFound ==
  (\E k \in Execs : k <= position) => \E m \in Execs : \A l \in Execs : m <= l

(* The replay's invariant, from the first handled event on. *)
ReplayParts ==
  /\ Attributed /\ Numbered(generations) /\ Separated
  /\ Introduced /\ AllTrusted => Exact
  /\ Introduced /\ Sequential => AllTrusted
  /\ ExecFound

(* Before the first event is handled. *)
Begun == position = 0 /\ generations = <<>> /\ \A p \in Pids : active[p] = 0

(* The event n joins the handled ones, which all precede it. *)
NextHandled(n, id, c) ==
  /\ n \in DOMAIN events /\ n \notin Handled /\ n # 0
  /\ Handled \subseteq DOMAIN events
  /\ Handled' = Handled \cup {n} /\ events' = events
  /\ \A i \in Handled : events[i].line < events[n].line
  /\ \A i \in DOMAIN events : events[i].line < events[n].line => i \in Handled
  /\ ~(events[n].line < events[n].line)
  /\ \A i \in Handled : ~(events[n].line <= events[i].line) /\ ~(events[n].line < events[i].line)
  /\ actor'[n] = id /\ child'[n] = c
  /\ \A i \in Handled : actor'[i] = actor[i] /\ child'[i] = child[i]
  /\ events[n].pid \in Pids /\ NoPid \notin Pids
  /\ 0 \notin DOMAIN generations
  /\ \A p \in Pids : active[p] # 0 => active[p] \in DOMAIN generations

(* The replay handles the events one after the other in their order. *)
LEMMA HandledStep ==
  ASSUME WorldTypeOK, ReplayTypeOK, Traced, ObserveEvent,
         NEW n \in DOMAIN events, NEW id \in Nat, NEW c \in Nat, Rank(n) = position, Observed(n, id, c)
  PROVE  NextHandled(n, id, c)
  <1>1. events' = events /\ position' = position + 1 /\ phase = "replaying"
    BY DEF ObserveEvent, worldVars
  <1>2. position \in Nat /\ events \in Seq(EventType) /\ generations \in Seq(GenerationType)
    BY DEF WorldTypeOK, ReplayTypeOK
  <1>3. \A i \in DOMAIN events : Rank(i) \in Int
    BY RankOrder
  <1>4. ASSUME NEW i \in DOMAIN events'
        PROVE  Rank(i)' = Rank(i)
    BY <1>1 DEF Rank, Before
  <1>5. Handled' = {i \in DOMAIN events : Rank(i) < position + 1}
    BY <1>1, <1>4 DEF Handled
  <1>6. \A i \in DOMAIN events : Rank(i) < position + 1 <=> Rank(i) < position \/ Rank(i) = Rank(n)
    BY <1>2, <1>3
  <1>7. Handled' = Handled \cup {n}
    BY <1>5, <1>6, RankOrder DEF Handled
  <1>8. n \notin Handled /\ Handled \subseteq DOMAIN events
    BY <1>2 DEF Handled
  <1>9. \A i \in DOMAIN events : events[i].line \in Nat
    <2>1. \A i \in DOMAIN events : events[i] \in EventType  BY <1>2
    <2>2. QED  BY <2>1 DEF EventType
  <1>10. /\ \A i \in Handled : events[i].line < events[n].line
         /\ \A i \in DOMAIN events : events[i].line < events[n].line => i \in Handled
    BY RankOrder DEF Handled
  <1>11. /\ ~(events[n].line < events[n].line)
         /\ \A i \in Handled : ~(events[n].line <= events[i].line) /\ ~(events[n].line < events[i].line)
    BY <1>8, <1>9, <1>10
  <1>12. /\ actor'[n] = id /\ child'[n] = c
         /\ \A i \in Handled : actor'[i] = actor[i] /\ child'[i] = child[i]
    BY <1>1, <1>8 DEF Observed, ReplayTypeOK
  <1>13. events[n].pid \in Pids /\ NoPid \notin Pids /\ n # 0 /\ 0 \notin DOMAIN generations
    <2>1. events[n] \in EventType  BY <1>2
    <2>2. events[n].pid \in Pids  BY <2>1 DEF EventType
    <2>3. n # 0 /\ 0 \notin DOMAIN generations  BY <1>2
    <2>4. QED  BY <2>2, <2>3, TimelineAssumption
  <1>14. \A p \in Pids : active[p] # 0 => active[p] \in DOMAIN generations
    BY DEF ReplayTypeOK
  <1>15. QED
    BY <1>1, <1>7, <1>8, <1>10, <1>11, <1>12, <1>13, <1>14 DEF NextHandled

(* Attribution is kept. *)
LEMMA AttributedStep ==
  ASSUME NEW n, NEW id, NEW c, Observed(n, id, c), NextHandled(n, id, c), Attributed
  PROVE  Attributed'
  <1>1. ASSUME NEW i \in Handled'
        PROVE  /\ actor'[i] \in DOMAIN generations'
               /\ generations'[actor'[i]].pid = events[i].pid
               /\ events[i].kind = "exit" => generations'[actor'[i]].exit # 0
               /\ events[i].childPid = NoPid => child'[i] = 0
               /\ events[i].childPid # NoPid =>
                    child'[i] \in DOMAIN generations' /\ generations'[child'[i]].pid = events[i].childPid
    <2>1. CASE i = n
      <3>1. generations'[id].pid = events[n].pid
        BY DEF Observed, NextHandled, Attributed
      <3>2. QED  BY <2>1, <3>1 DEF Observed, NextHandled
    <2>2. CASE i \in Handled
      <3>1. actor'[i] = actor[i] /\ child'[i] = child[i] /\ actor[i] \in DOMAIN generations
        BY <2>2 DEF NextHandled, Attributed
      <3>2. generations'[actor[i]].pid = events[i].pid /\ actor[i] \in DOMAIN generations'
        BY <2>2, <3>1 DEF Observed, Attributed
      <3>3. events[i].kind = "exit" => generations'[actor[i]].exit # 0
        BY <2>2, <3>1 DEF Observed, Attributed, NextHandled
      <3>4. /\ events[i].childPid = NoPid => child[i] = 0
            /\ events[i].childPid # NoPid =>
                 child[i] \in DOMAIN generations' /\ generations'[child[i]].pid = events[i].childPid
        BY <2>2 DEF Observed, Attributed
      <3>5. QED  BY <3>1, <3>2, <3>3, <3>4
    <2>3. QED  BY <2>1, <2>2 DEF NextHandled
  <1>2. ASSUME NEW g \in DOMAIN generations'
        PROVE  (\E i \in Handled' : actor'[i] = g) \/ (\E i \in Handled' : child'[i] = g)
    <2>1. CASE g \in DOMAIN generations  BY <2>1 DEF Attributed, NextHandled
    <2>2. CASE g = id \/ g = c  BY <2>2 DEF NextHandled
    <2>3. QED  BY <2>1, <2>2 DEF Observed
  <1>3. ASSUME NEW g \in DOMAIN generations', generations'[g].exit # 0
        PROVE  /\ generations'[g].exit \in Handled'
               /\ events[generations'[g].exit].kind = "exit" /\ actor'[generations'[g].exit] = g
    <2>1. CASE events[n].kind = "exit" /\ g = id
      BY <2>1 DEF Observed, NextHandled
    <2>2. CASE g \in DOMAIN generations /\ ~(events[n].kind = "exit" /\ g = id)
      <3>1. generations'[g].exit = generations[g].exit  BY <2>2 DEF Observed
      <3>2. QED  BY <1>3, <2>2, <3>1 DEF Attributed, NextHandled
    <2>3. CASE g \notin DOMAIN generations /\ ~(events[n].kind = "exit" /\ g = id)
      <3>1. g = id \/ (g = c /\ c # 0)  BY <2>3 DEF Observed
      <3>2. CASE g = id
        <4>1. active[events[n].pid] = 0  BY <2>3, <3>2 DEF Observed, NextHandled
        <4>2. QED  BY <1>3, <2>3, <3>2, <4>1 DEF Observed
      <3>3. CASE g = c /\ c # 0  BY <1>3, <3>3 DEF Observed
      <3>4. QED  BY <3>1, <3>2, <3>3
    <2>4. QED  BY <2>1, <2>2, <2>3
  <1>4. ASSUME NEW p \in Pids, active'[p] # 0
        PROVE  generations'[active'[p]].pid = p /\ generations'[active'[p]].exit = 0
    <2>1. CASE p = events[n].childPid
      BY <2>1 DEF Observed, NextHandled
    <2>2. CASE p # events[n].childPid /\ p = events[n].pid
      <3>1. events[n].kind # "exit" /\ active'[p] = id
        BY <1>4, <2>2 DEF Observed
      <3>2. CASE active[p] = 0  BY <2>2, <3>1, <3>2 DEF Observed
      <3>3. CASE active[p] # 0
        <4>1. id = active[p] /\ id \in DOMAIN generations
          BY <2>2, <3>3 DEF Observed, NextHandled
        <4>2. generations'[id].pid = generations[id].pid /\ generations'[id].exit = generations[id].exit
          BY <3>1, <4>1 DEF Observed
        <4>3. QED  BY <3>1, <3>3, <4>1, <4>2 DEF Attributed
      <3>4. QED  BY <3>2, <3>3
    <2>3. CASE p # events[n].childPid /\ p # events[n].pid
      <3>1. active'[p] = active[p] /\ active[p] \in DOMAIN generations
        BY <1>4, <2>3 DEF Observed, NextHandled
      <3>2. generations[active[p]].pid = p /\ generations[active[p]].exit = 0
        BY <1>4, <3>1 DEF Attributed
      <3>3. active[p] # id
        <4>1. CASE active[events[n].pid] = 0  BY <3>1, <4>1 DEF Observed
        <4>2. CASE active[events[n].pid] # 0
          <5>1. generations[id].pid = events[n].pid  BY <4>2 DEF Observed, Attributed, NextHandled
          <5>2. QED  BY <2>3, <3>2, <5>1
        <4>3. QED  BY <4>1, <4>2
      <3>4. QED  BY <3>1, <3>2, <3>3 DEF Observed
    <2>4. QED  BY <2>1, <2>2, <2>3
  <1>5. ASSUME NEW s \in Handled', NEW i \in Handled', child'[s] = actor'[i]
        PROVE  events[s].line < events[i].line
    <2>1. CASE s \in Handled /\ i \in Handled
      BY <1>5, <2>1 DEF NextHandled, Attributed
    <2>2. CASE s \in Handled /\ i = n  BY <2>2 DEF NextHandled
    <2>3. CASE s = n
      <3>1. actor'[i] \in DOMAIN generations \/ actor'[i] = id
        BY DEF NextHandled, Attributed
      <3>2. c = 0 \/ (c \notin DOMAIN generations /\ c # id)
        BY DEF Observed
      <3>3. id # 0 /\ 0 \notin DOMAIN generations  BY DEF Observed, NextHandled
      <3>4. QED  BY <1>5, <2>3, <3>1, <3>2, <3>3 DEF NextHandled
    <2>4. QED  BY <2>1, <2>2, <2>3 DEF NextHandled
  <1>6. events' = events  BY DEF NextHandled
  <1>7. QED  BY <1>1, <1>2, <1>3, <1>4, <1>5, <1>6 DEF Attributed

(* Separation is kept. *)
LEMMA SeparatedStep ==
  ASSUME NEW n, NEW id, NEW c, Observed(n, id, c), NextHandled(n, id, c), Attributed, Separated,
         \A i \in DOMAIN events : events[i].kind = "exit" => events[i].childPid = NoPid,
         \A i \in DOMAIN events : events[i].pid \in Pids
  PROVE  Separated'
  <1>0. \A i \in DOMAIN events : \A p \in Pids : Ends(i, p)' <=> Ends(i, p)
    BY DEF Ends, NextHandled
  <1>1. ASSUME NEW i \in Handled', NEW k \in Handled',
               Ends(k, events[i].pid), events[i].line <= events[k].line
        PROVE  active'[events[i].pid] # actor'[i]
    <2>0. actor'[i] # 0 /\ (actor'[i] \in DOMAIN generations \/ (i = n /\ actor'[i] = id))
      BY DEF NextHandled, Observed, Attributed
    <2>p. events[i].pid \in Pids  BY DEF NextHandled
    <2>1. CASE Ends(n, events[i].pid)
      <3>1. CASE events[n].childPid = events[i].pid
        <4>1. active'[events[i].pid] = c /\ c \notin DOMAIN generations /\ c # id
          BY <2>p, <3>1 DEF Observed, NextHandled
        <4>2. QED  BY <2>0, <4>1
      <3>2. CASE events[n].kind = "exit" /\ events[n].pid = events[i].pid
        <4>1. events[n].childPid = NoPid  BY <3>2 DEF NextHandled
        <4>2. active'[events[i].pid] = 0
          BY <2>p, <3>2, <4>1 DEF Observed, NextHandled
        <4>3. QED  BY <2>0, <4>2
      <3>3. QED  BY <2>1, <3>1, <3>2 DEF Ends
    <2>2. CASE ~Ends(n, events[i].pid)
      <3>1. k \in Handled /\ i \in Handled
        BY <1>1, <2>2 DEF NextHandled
      <3>2. active[events[i].pid] # actor[i] /\ actor'[i] = actor[i] /\ actor[i] \in DOMAIN generations
        BY <1>1, <3>1 DEF Separated, NextHandled, Attributed
      <3>3. CASE events[i].pid = events[n].pid
        <4>1. events[n].childPid # events[n].pid /\ events[n].kind # "exit"
          BY <2>2, <3>3 DEF Ends
        <4>2. active'[events[i].pid] = id  BY <3>3, <4>1 DEF Observed
        <4>3. id = active[events[i].pid] \/ id \notin DOMAIN generations
          BY <3>3 DEF Observed
        <4>4. QED  BY <3>2, <4>2, <4>3
      <3>4. CASE events[i].pid # events[n].pid
        <4>1. events[n].childPid # events[i].pid  BY <2>2 DEF Ends
        <4>2. active'[events[i].pid] = active[events[i].pid]
          BY <2>p, <3>4, <4>1 DEF Observed
        <4>3. QED  BY <3>2, <4>2
      <3>5. QED  BY <3>3, <3>4
    <2>3. QED  BY <2>1, <2>2
  <1>2. ASSUME NEW i \in Handled', NEW j \in Handled', NEW k \in Handled',
               events[i].pid = events[j].pid, Ends(k, events[i].pid),
               events[i].line <= events[k].line, events[k].line < events[j].line
        PROVE  actor'[i] # actor'[j]
    <2>1. k \in Handled
      <3>1. CASE k = n
        <4>1. j = n \/ j \in Handled  BY DEF NextHandled
        <4>2. QED
          <5>1. CASE j = n  BY <1>2, <3>1, <5>1 DEF NextHandled
          <5>2. CASE j \in Handled  BY <1>2, <3>1, <5>2 DEF NextHandled
          <5>3. QED  BY <4>1, <5>1, <5>2
      <3>2. QED  BY <3>1 DEF NextHandled
    <2>2. i \in Handled  BY <1>2, <2>1 DEF NextHandled
    <2>3. CASE j \in Handled
      BY <1>2, <2>1, <2>2, <2>3 DEF Separated, NextHandled
    <2>4. CASE j = n
      <3>1. active[events[i].pid] # actor[i] /\ actor'[i] = actor[i] /\ actor[i] \in DOMAIN generations
        BY <1>2, <2>1, <2>2 DEF Separated, NextHandled, Attributed
      <3>2. id = active[events[i].pid] \/ id \notin DOMAIN generations
        BY <1>2, <2>4 DEF Observed
      <3>3. QED  BY <2>4, <3>1, <3>2 DEF NextHandled
    <2>5. QED  BY <2>3, <2>4 DEF NextHandled
  <1>3. events' = events /\ Handled' \subseteq DOMAIN events  BY DEF NextHandled
  <1>4. QED  BY <1>0, <1>1, <1>2, <1>3 DEF Separated

(* If births are in the trace and generations are lifetimes so far, the    *)
(* generation of the next event's lifetime is the live one of its PID.     *)
LEMMA OwnerIsActive ==
  ASSUME NEW n, NEW id, NEW c, NextHandled(n, id, c), Attributed, Traced, Introduced, Exact,
         Handled # {}
  PROVE  LET h == active[events[n].pid]
         IN /\ h # 0
            /\ \A i \in Handled : actor[i] = h <=> events[i].life = events[n].life
            /\ \A s \in Handled : events[s].childPid # NoPid =>
                 (child[s] = h <=> events[s].childLife = events[n].life)
  <1>0. /\ n \in DOMAIN events /\ Handled \subseteq DOMAIN events /\ 0 \notin DOMAIN generations
        /\ events[n].pid # NoPid
    BY DEF NextHandled
  <1>1. PICK h \in DOMAIN generations :
          /\ generations[h].pid = events[n].pid
          /\ \A i \in Handled : actor[i] = h <=> events[i].life = events[n].life
          /\ \A s \in Handled : events[s].childPid # NoPid =>
               (child[s] = h <=> events[s].childLife = events[n].life)
    <2>1. CASE events[n].life # 1
      <3>1. PICK s \in DOMAIN events : events[s].childLife = events[n].life
        BY <1>0, <2>1 DEF Introduced
      <3>2. events[s].childPid = events[n].pid /\ events[s].line < events[n].line
        BY <1>0, <3>1 DEF Traced
      <3>3. s \in Handled /\ events[s].childPid # NoPid
        BY <1>0, <3>2 DEF NextHandled
      <3>4. child[s] \in DOMAIN generations /\ generations[child[s]].pid = events[n].pid
        BY <3>2, <3>3 DEF Attributed
      <3>5. \A i \in Handled : actor[i] = child[s] <=> events[i].life = events[n].life
        BY <3>1, <3>3 DEF Exact
      <3>6. events[s].childLife # 0  BY <3>3, <1>0 DEF Traced
      <3>7. \A t \in Handled : events[t].childPid # NoPid =>
              (child[t] = child[s] <=> events[t].childLife = events[n].life)
        <4>1. ASSUME NEW t \in Handled, events[t].childPid # NoPid, child[t] = child[s]
              PROVE  events[t].childLife = events[n].life
          <5>1. t = s  BY <3>3, <4>1 DEF Exact
          <5>2. QED  BY <3>1, <5>1
        <4>2. ASSUME NEW t \in Handled, events[t].childLife = events[n].life
              PROVE  child[t] = child[s]
          <5>1. t = s  BY <1>0, <3>1, <3>3, <3>6, <4>2 DEF Traced
          <5>2. QED  BY <5>1
        <4>3. QED  BY <4>1, <4>2
      <3>8. QED  BY <3>4, <3>5, <3>7
    <2>2. CASE events[n].life = 1
      <3>1. PICK j \in Handled : events[j].life = 1  BY DEF Exact
      <3>2. events[j].pid = events[n].pid  BY <1>0, <2>2, <3>1 DEF Traced
      <3>3. actor[j] \in DOMAIN generations /\ generations[actor[j]].pid = events[n].pid
        BY <3>2 DEF Attributed
      <3>4. \A i \in Handled : actor[i] = actor[j] <=> events[i].life = events[n].life
        BY <2>2, <3>1 DEF Exact
      <3>5. \A s \in Handled : events[s].childPid # NoPid =>
              (child[s] = actor[j] <=> events[s].childLife = events[n].life)
        BY <2>2, <3>1 DEF Exact
      <3>6. QED  BY <3>3, <3>4, <3>5
    <2>3. QED  BY <2>1, <2>2
  <1>2. generations[h].exit = 0
    <2>1. SUFFICES ASSUME generations[h].exit # 0 PROVE FALSE
      OBVIOUS
    <2>2. PICK k \in Handled : events[k].kind = "exit" /\ actor[k] = h
      BY <2>1 DEF Attributed
    <2>3. events[k].life = events[n].life  BY <1>1, <2>2
    <2>4. events[n].line <= events[k].line  BY <1>0, <2>2, <2>3 DEF Traced
    <2>5. QED  BY <2>2, <2>4 DEF NextHandled
  <1>3. active[events[n].pid] = h
    BY <1>1, <1>2 DEF Exact
  <1>4. QED  BY <1>0, <1>1, <1>3

(* Without a handled event there is no generation. *)
LEMMA NothingHandled ==
  ASSUME NEW n, NEW id, NEW c, NextHandled(n, id, c), Attributed, Handled = {}
  PROVE  DOMAIN generations = {} /\ active[events[n].pid] = 0
  BY DEF Attributed, NextHandled

(* If births are in the trace and every generation is of trusted origin,   *)
(* generations stay lifetimes.                                             *)
LEMMA ExactStep ==
  ASSUME NEW n, NEW id, NEW c, Observed(n, id, c), NextHandled(n, id, c), Attributed, Traced,
         Introduced, Exact, AllTrusted'
  PROVE  Exact'
  <1>0. /\ n \in DOMAIN events /\ Handled \subseteq DOMAIN events /\ 0 \notin DOMAIN generations
        /\ Handled' = Handled \cup {n} /\ events' = events
        /\ actor'[n] = id /\ child'[n] = c /\ events[n].pid \in Pids /\ NoPid \notin Pids
    BY DEF NextHandled
  <1>1. ASSUME NEW i \in Handled
        PROVE  /\ id = actor[i] <=> events[i].life = events[n].life
               /\ events[i].childPid # NoPid =>
                    (child[i] = id <=> events[i].childLife = events[n].life)
    <2>1. /\ active[events[n].pid] # 0
          /\ \A j \in Handled : actor[j] = active[events[n].pid] <=> events[j].life = events[n].life
          /\ \A s \in Handled : events[s].childPid # NoPid =>
               (child[s] = active[events[n].pid] <=> events[s].childLife = events[n].life)
      BY OwnerIsActive
    <2>2. id = active[events[n].pid]  BY <2>1 DEF Observed
    <2>3. QED  BY <2>1, <2>2
  <1>2. ASSUME events[n].childPid # NoPid
        PROVE  events[n].childPid # events[n].pid /\ active[events[n].childPid] = 0
    <2>1. ~(generations'[c].origin = "LiveCollision")
      BY <1>2 DEF AllTrusted, IsUntrusted, Observed
    <2>2. QED  BY <1>2, <2>1 DEF Observed
  <1>3. \A i \in Handled : actor'[i] = actor[i] /\ child'[i] = child[i]
    BY DEF NextHandled
  <1>4. \A i, j \in Handled' : actor'[i] = actor'[j] <=> events[i].life = events[j].life
    <2>1. ASSUME NEW i \in Handled, NEW j \in Handled
          PROVE  actor'[i] = actor'[j] <=> events[i].life = events[j].life
      BY <1>3 DEF Exact
    <2>2. QED  BY <1>0, <1>1, <1>3, <2>1
  <1>5. \A i \in Handled : events[n].childLife # events[i].life
    <2>1. ASSUME NEW i \in Handled, events[n].childLife = events[i].life PROVE FALSE
      <3>1. events[n].line < events[i].line  BY <1>0, <2>1 DEF Traced
      <3>2. QED  BY <3>1 DEF NextHandled
    <2>2. QED  BY <2>1
  <1>6. events[n].childLife # events[n].life
    <2>1. SUFFICES ASSUME events[n].childLife = events[n].life PROVE FALSE
      OBVIOUS
    <2>2. events[n].line < events[n].line  BY <1>0, <2>1 DEF Traced
    <2>3. QED  BY <2>2 DEF NextHandled
  <1>7. ASSUME NEW s \in Handled', NEW i \in Handled', events[s].childPid # NoPid
        PROVE  child'[s] = actor'[i] <=> events[s].childLife = events[i].life
    <2>1. CASE s \in Handled /\ i \in Handled  BY <1>3, <1>7, <2>1 DEF Exact
    <2>2. CASE s \in Handled /\ i = n  BY <1>0, <1>1, <1>3, <1>7, <2>2
    <2>3. CASE s = n
      <3>1. c \notin DOMAIN generations /\ c # id  BY <1>7, <2>3 DEF Observed
      <3>2. actor'[i] \in DOMAIN generations \/ actor'[i] = id
        BY <1>0, <1>3 DEF Attributed
      <3>3. QED  BY <1>0, <1>5, <1>6, <2>3, <3>1, <3>2
    <2>4. QED  BY <1>0, <2>1, <2>2, <2>3
  <1>8. ASSUME NEW s \in Handled', NEW t \in Handled', events[s].childPid # NoPid, child'[s] = child'[t]
        PROVE  s = t
    <2>1. \A i \in Handled : child[i] = 0 \/ child[i] \in DOMAIN generations  BY DEF Attributed
    <2>2. \A i \in Handled : events[i].childPid # NoPid => child[i] \in DOMAIN generations
      BY DEF Attributed
    <2>3. CASE s \in Handled /\ t \in Handled  BY <1>3, <1>8, <2>3 DEF Exact
    <2>4. CASE s \in Handled /\ t = n
      <3>1. child[s] \in DOMAIN generations /\ child[s] = c  BY <1>0, <1>3, <1>8, <2>2, <2>4
      <3>2. c = 0 \/ c \notin DOMAIN generations  BY DEF Observed
      <3>3. QED  BY <1>0, <3>1, <3>2
    <2>5. CASE s = n /\ t \in Handled
      <3>1. c # 0 /\ c \notin DOMAIN generations /\ child[t] = c
        BY <1>0, <1>3, <1>8, <2>5 DEF Observed
      <3>2. QED  BY <2>1, <2>5, <3>1
    <2>6. QED  BY <1>0, <2>3, <2>4, <2>5
  <1>9. ASSUME NEW g \in DOMAIN generations', generations'[g].exit = 0
        PROVE  active'[generations'[g].pid] = g
    <2>1. CASE g \in DOMAIN generations
      <3>1. ~(events[n].kind = "exit" /\ g = id)
        BY <1>9 DEF Observed, NextHandled
      <3>2. generations'[g].pid = generations[g].pid /\ generations[g].exit = 0
        BY <1>9, <2>1, <3>1 DEF Observed
      <3>3. active[generations[g].pid] = g /\ g # 0
        BY <1>0, <2>1, <3>2 DEF Exact
      <3>4. generations[g].pid \in Pids
        <4>1. (\E i \in Handled : actor[i] = g) \/ (\E i \in Handled : child[i] = g)
          BY <2>1 DEF Attributed
        <4>2. generations'[g].pid \in Pids
          <5>1. generations'[g] \in GenerationType  BY <1>9 DEF Observed
          <5>2. QED  BY <5>1 DEF GenerationType
        <4>3. QED  BY <3>2, <4>2
      <3>5. generations[g].pid # events[n].childPid
        BY <1>0, <1>2, <3>3, <3>4
      <3>6. CASE generations[g].pid = events[n].pid
        <4>1. id = g  BY <3>3, <3>6 DEF Observed
        <4>2. active'[events[n].pid] = id  BY <3>1, <3>5, <3>6, <4>1 DEF Observed
        <4>3. QED  BY <3>2, <3>6, <4>1, <4>2
      <3>7. CASE generations[g].pid # events[n].pid
        <4>1. active'[generations[g].pid] = active[generations[g].pid]
          BY <3>4, <3>5, <3>7 DEF Observed
        <4>2. QED  BY <3>2, <3>3, <4>1
      <3>8. QED  BY <3>6, <3>7
    <2>2. CASE g \notin DOMAIN generations /\ g = id
      <3>1. active[events[n].pid] = 0  BY <2>2 DEF Observed, NextHandled
      <3>2. generations'[g].pid = events[n].pid /\ events[n].kind # "exit"
        BY <1>9, <2>2, <3>1 DEF Observed, NextHandled
      <3>3. events[n].childPid # events[n].pid  BY <1>0, <1>2
      <3>4. QED  BY <2>2, <3>2, <3>3 DEF Observed
    <2>3. CASE g = c /\ g # 0
      BY <2>3 DEF Observed
    <2>4. QED  BY <2>1, <2>2, <2>3 DEF Observed
  <1>10. \E i \in Handled' : events[i].life = 1
    <2>1. CASE Handled # {}  BY <1>0, <2>1 DEF Exact
    <2>2. CASE Handled = {}
      <3>1. SUFFICES ASSUME events[n].life # 1 PROVE FALSE
        BY <1>0
      <3>2. PICK s \in DOMAIN events : events[s].childLife = events[n].life
        BY <1>0, <3>1 DEF Introduced
      <3>3. events[s].line < events[n].line  BY <1>0, <3>2 DEF Traced
      <3>4. QED  BY <2>2, <3>3 DEF NextHandled
    <2>3. QED  BY <2>1, <2>2
  <1>11. QED
    BY <1>0, <1>4, <1>7, <1>8, <1>9, <1>10 DEF Exact

(* If earlier tasks of a PID have exited in the trace before a spawn       *)
(* reports it, no generation of an untrusted origin is added.              *)
LEMMA TrustedStep ==
  ASSUME NEW n, NEW id, NEW c, Observed(n, id, c), NextHandled(n, id, c), Attributed, Traced,
         Introduced, Sequential, Exact, AllTrusted, generations \in Seq(GenerationType)
  PROVE  AllTrusted'
  <1>0. /\ n \in DOMAIN events /\ Handled \subseteq DOMAIN events /\ 0 \notin DOMAIN generations
        /\ events[n].pid \in Pids /\ NoPid \notin Pids
    BY DEF NextHandled
  <1>1. ASSUME NEW g \in DOMAIN generations
        PROVE  ~IsUntrusted(g)'
    BY DEF AllTrusted, IsUntrusted, Observed
  <1>2. ASSUME id \notin DOMAIN generations
        PROVE  ~(generations'[id].origin \in {"Unintroduced", "Reappeared", "LiveCollision"})
    <2>1. active[events[n].pid] = 0
      BY <1>2 DEF Observed, NextHandled
    <2>2. Handled = {}
      BY <2>1, OwnerIsActive
    <2>3. generations = <<>>
      BY <2>2, NothingHandled
    <2>4. ActorOrigin(events[n].pid) = "Initial"
      BY <2>3 DEF ActorOrigin
    <2>5. QED  BY <2>1, <2>4 DEF Observed
  <1>3. ASSUME events[n].childPid # NoPid
        PROVE  active[events[n].childPid] = 0
    <2>1. SUFFICES ASSUME active[events[n].childPid] # 0 PROVE FALSE
      OBVIOUS
    <2>2. PICK g : g = active[events[n].childPid]  OBVIOUS
    <2>p. events[n].childPid \in Pids
      <3>1. generations'[c] \in GenerationType /\ generations'[c].pid = events[n].childPid
        BY <1>3 DEF Observed
      <3>2. QED  BY <3>1 DEF GenerationType
    <2>3. g \in DOMAIN generations /\ generations[g].pid = events[n].childPid /\ generations[g].exit = 0
      BY <2>1, <2>2, <2>p DEF NextHandled, Attributed
    <2>4. ASSUME NEW k \in DOMAIN events, events[k].kind = "exit", events[k].line < events[n].line
          PROVE  k \in Handled /\ actor[k] # g
      <3>1. k \in Handled  BY <2>4 DEF NextHandled
      <3>2. generations[actor[k]].exit # 0  BY <2>4, <3>1 DEF Attributed
      <3>3. QED  BY <2>3, <3>1, <3>2
    <2>5. ASSUME NEW i \in Handled, actor[i] = g
          PROVE  FALSE
      <3>1. events[i].pid = events[n].childPid /\ events[i].line < events[n].line
        BY <2>3, <2>5 DEF Attributed, NextHandled
      <3>2. PICK k \in DOMAIN events : /\ events[k].kind = "exit" /\ events[k].life = events[i].life
                                       /\ events[k].line < events[n].line
        BY <1>0, <1>3, <3>1 DEF Sequential
      <3>3. k \in Handled /\ actor[k] # g  BY <2>4, <3>2
      <3>4. actor[k] = actor[i]  BY <3>2, <3>3 DEF Exact
      <3>5. QED  BY <2>5, <3>3, <3>4
    <2>6. ASSUME NEW s \in Handled, child[s] = g
          PROVE  FALSE
      <3>1. events[s].childPid # NoPid
        BY <1>0, <2>3, <2>6 DEF Attributed
      <3>2. events[s].childPid = events[n].childPid /\ events[s].line < events[n].line
        BY <2>3, <2>6, <3>1 DEF Attributed, NextHandled
      <3>3. PICK k \in DOMAIN events : /\ events[k].kind = "exit" /\ events[k].life = events[s].childLife
                                       /\ events[k].line < events[n].line
        BY <1>0, <1>3, <3>2 DEF Sequential
      <3>4. k \in Handled /\ actor[k] # g  BY <2>4, <3>3
      <3>5. child[s] = actor[k]  BY <3>1, <3>3, <3>4 DEF Exact
      <3>6. QED  BY <2>6, <3>4, <3>5
    <2>7. QED  BY <2>3, <2>5, <2>6 DEF Attributed
  <1>4. ASSUME events[n].childPid # NoPid
        PROVE  generations'[c].origin = "Spawned"
    <2>1. events[n].childPid # events[n].pid  BY <1>0, <1>4 DEF Sequential
    <2>2. QED  BY <1>3, <1>4, <2>1 DEF Observed
  <1>5. ASSUME NEW g \in DOMAIN generations'
        PROVE  ~(generations'[g].origin \in {"Unintroduced", "Reappeared", "LiveCollision"})
    <2>1. CASE g \in DOMAIN generations  BY <1>1, <2>1 DEF IsUntrusted
    <2>2. CASE g \notin DOMAIN generations /\ g = id  BY <1>2, <2>2
    <2>3. CASE g = c /\ g # 0
      <3>1. events[n].childPid # NoPid  BY <2>3 DEF Observed
      <3>2. QED  BY <1>4, <2>3, <3>1
    <2>4. QED  BY <2>1, <2>2, <2>3 DEF Observed
  <1>6. QED  BY <1>5 DEF AllTrusted, IsUntrusted

(* All of this holds before the first event. *)
LEMMA BegunParts ==
  ASSUME WorldTypeOK, Traced, Begun
  PROVE  ReplayParts
  <1>1. Handled = {}
    <2>1. \A i \in DOMAIN events : Rank(i) \in Nat
      BY RankOrder
    <2>2. QED  BY <2>1 DEF Begun, Handled
  <1>2. DOMAIN generations = {}  BY DEF Begun
  <1>3. Attributed /\ Separated /\ Exact
    BY <1>1, <1>2 DEF Attributed, Separated, Exact, Begun
  <1>4. Numbered(generations) /\ AllTrusted
    BY <1>2 DEF Numbered, AllTrusted
  <1>5. ExecFound
    <2>1. ASSUME NEW k \in Execs, k <= 0 PROVE FALSE
      <3>1. k \in 1 .. Len(events)  BY DEF Execs, WorldTypeOK
      <3>2. QED  BY <2>1, <3>1 DEF WorldTypeOK
    <2>2. QED  BY <2>1 DEF ExecFound, Begun
  <1>6. QED  BY <1>3, <1>4, <1>5 DEF ReplayParts

(* All of it is kept by the replay. *)
LEMMA ReplayStep ==
  ASSUME WorldTypeOK, Traced, ReplayTypeOK, ReplayParts, ObserveEvent
  PROVE  ReplayParts'
  <1>1. PICK n \in DOMAIN events, id \in Nat, c \in Nat :
          n = EventOrder[position + 1] /\ Rank(n) = position /\ Observed(n, id, c)
    BY ObserveFacts
  <1>2. NextHandled(n, id, c)  BY <1>1, HandledStep
  <1>3. Attributed /\ Numbered(generations) /\ Separated  BY DEF ReplayParts
  <1>4. events' = events /\ position' = position + 1 /\ position \in Nat
    BY DEF ObserveEvent, worldVars, ReplayTypeOK
  <1>5. Attributed'  BY <1>1, <1>2, <1>3, AttributedStep
  <1>6. Numbered(generations)'  BY <1>1, <1>3 DEF Observed, Numbered
  <1>7. Separated'
    <2>1. \A i \in DOMAIN events : events[i].kind = "exit" => events[i].childPid = NoPid
      BY DEF Traced
    <2>2. ASSUME NEW i \in DOMAIN events PROVE events[i].pid \in Pids
      <3>1. events[i] \in EventType  BY DEF WorldTypeOK
      <3>2. QED  BY <3>1 DEF EventType
    <2>3. QED  BY <1>1, <1>2, <1>3, <2>1, <2>2, SeparatedStep
  <1>8. Introduced' = Introduced /\ Sequential' = Sequential
    BY <1>4 DEF Introduced, Sequential
  <1>9. AllTrusted' => AllTrusted
    BY <1>1 DEF AllTrusted, IsUntrusted, Observed
  <1>10. Introduced' /\ AllTrusted' => Exact'
    BY <1>1, <1>2, <1>3, <1>8, <1>9, ExactStep DEF ReplayParts
  <1>11. Introduced' /\ Sequential' => AllTrusted'
    <2>1. generations \in Seq(GenerationType)  BY DEF ReplayTypeOK
    <2>2. QED  BY <1>1, <1>2, <1>3, <1>8, <2>1, TrustedStep DEF ReplayParts
  <1>12. ExecFound'
    <2>1. Execs' = Execs  BY <1>4 DEF Execs, EventOrder, Before
    <2>2. \A k \in Execs : k \in Nat  BY DEF Execs, WorldTypeOK
    <2>3. ASSUME NEW k \in Execs, k <= position + 1
          PROVE  \E m \in Execs : \A l \in Execs : m <= l
      <3>1. CASE \E l \in Execs : l <= position  BY <3>1 DEF ReplayParts, ExecFound
      <3>2. CASE ~(\E l \in Execs : l <= position)
        <4>1. \A l \in Execs : k <= l  BY <1>4, <2>2, <2>3, <3>2
        <4>2. QED  BY <4>1
      <3>3. QED  BY <3>1, <3>2
    <2>4. QED  BY <1>4, <2>1, <2>3 DEF ExecFound
  <1>13. QED  BY <1>5, <1>6, <1>7, <1>10, <1>11, <1>12 DEF ReplayParts

(* The replay's types are kept. *)
LEMMA ReplayTypeStep ==
  ASSUME WorldTypeOK, WorldInv, ReplayTypeOK, [TimelineNext]_timelineVars
  PROVE  ReplayTypeOK'
  <1>1. ASSUME phase = "tracing", phase' = "tracing", UNCHANGED replayVars
        PROVE  ReplayTypeOK'
    BY <1>1 DEF ReplayTypeOK, replayVars
  <1>2. ASSUME EndTrace
        PROVE  ReplayTypeOK'
    <2>1. /\ phase = "tracing" /\ phase' = "replaying"
          /\ UNCHANGED <<events, position, generations, active>>
          /\ actor' \in [DOMAIN events -> Nat] /\ child' \in [DOMAIN events -> Nat]
      BY <1>2 DEF EndTrace
    <2>2. position = 0 /\ 0 <= Len(events)  BY <2>1 DEF ReplayTypeOK, WorldTypeOK
    <2>3. QED  BY <2>1, <2>2 DEF ReplayTypeOK
  <1>3. ASSUME ObserveEvent
        PROVE  ReplayTypeOK'
    <2>0. Traced  BY TraceOfWorld
    <2>1. PICK n \in DOMAIN events, id \in Nat, c \in Nat :
            n = EventOrder[position + 1] /\ Rank(n) = position /\ Observed(n, id, c)
      BY <1>3, <2>0, ObserveFacts
    <2>2. NextHandled(n, id, c)  BY <1>3, <2>0, <2>1, HandledStep
    <2>3. /\ phase = "replaying" /\ phase' = phase /\ events' = events
          /\ position' = position + 1 /\ position < Len(events)
      BY <1>3 DEF ObserveEvent, worldVars
    <2>4. /\ position \in Nat /\ Len(events) \in Nat
          /\ actor \in [DOMAIN events -> Nat] /\ child \in [DOMAIN events -> Nat]
      BY <2>3 DEF ReplayTypeOK, WorldTypeOK
    <2>5. position' \in Nat /\ position' <= Len(events')  BY <2>3, <2>4
    <2>6. actor' \in [DOMAIN events -> Nat] /\ child' \in [DOMAIN events -> Nat]
      BY <2>1, <2>4 DEF Observed
    <2>7. ASSUME NEW p \in Pids, active'[p] # 0
          PROVE  active'[p] \in DOMAIN generations'
      <3>1. CASE p = events[n].childPid
        BY <2>1, <2>2, <3>1 DEF Observed, NextHandled
      <3>2. CASE p # events[n].childPid /\ p = events[n].pid
        BY <2>1, <2>7, <3>2 DEF Observed
      <3>3. CASE p # events[n].childPid /\ p # events[n].pid
        <4>1. active'[p] = active[p]  BY <2>1, <3>3 DEF Observed
        <4>2. QED  BY <2>1, <2>2, <2>7, <4>1 DEF Observed, NextHandled
      <3>4. QED  BY <3>1, <3>2, <3>3
    <2>8. QED  BY <2>1, <2>3, <2>5, <2>6, <2>7 DEF ReplayTypeOK, Observed
  <1>4. ASSUME UNCHANGED timelineVars
        PROVE  ReplayTypeOK'
    BY <1>4 DEF ReplayTypeOK, timelineVars, worldVars, replayVars
  <1>5. ASSUME NEW p \in Pids, NEW kind \in {"call", "exec"}, Call(p, kind)
        PROVE  phase = "tracing" /\ phase' = "tracing" /\ UNCHANGED replayVars
    BY <1>5 DEF Call, Running
  <1>6. ASSUME NEW p \in Pids, EnterSpawn(p)
        PROVE  phase = "tracing" /\ phase' = "tracing" /\ UNCHANGED replayVars
    BY <1>6 DEF EnterSpawn, Running
  <1>7. ASSUME NEW p \in Pids, NEW q \in Pids, Fork(p, q)
        PROVE  phase = "tracing" /\ phase' = "tracing" /\ UNCHANGED replayVars
    BY <1>7 DEF Fork, Running
  <1>8. ASSUME NEW p \in Pids, ReturnFromSpawn(p)
        PROVE  phase = "tracing" /\ phase' = "tracing" /\ UNCHANGED replayVars
    BY <1>8 DEF ReturnFromSpawn, Running
  <1>9. ASSUME NEW p \in Pids, Exit(p)
        PROVE  phase = "tracing" /\ phase' = "tracing" /\ UNCHANGED replayVars
    BY <1>9 DEF Exit, Running
  <1>10. QED
    BY <1>1, <1>2, <1>3, <1>4, <1>5, <1>6, <1>7, <1>8, <1>9 DEF TimelineNext

(* The inductive invariant. *)
TimelineInv ==
  /\ WorldTypeOK /\ WorldInv /\ ReplayTypeOK
  /\ Begun \/ ReplayParts

(* It holds in every reachable state. *)
LEMMA TimelineInvariant == TimelineSpec => []TimelineInv
  <1>1. TimelineInit => TimelineInv
    <2> SUFFICES ASSUME TimelineInit PROVE TimelineInv
      OBVIOUS
    <2>1. WorldTypeOK /\ WorldInv  BY WorldTypeInit, WorldInit
    <2>2. active \in [Pids -> Nat] /\ \A p \in Pids : active[p] = 0  BY DEF TimelineInit
    <2>3. position \in Nat /\ position = 0 /\ phase = "tracing"  BY DEF TimelineInit
    <2>4. generations \in Seq(GenerationType) /\ generations = <<>>  BY DEF TimelineInit
    <2>5. QED  BY <2>1, <2>2, <2>3, <2>4 DEF TimelineInv, ReplayTypeOK, Begun
  <1>2. TimelineInv /\ [TimelineNext]_timelineVars => TimelineInv'
    <2> SUFFICES ASSUME TimelineInv, [TimelineNext]_timelineVars PROVE TimelineInv'
      OBVIOUS
    <2>1. WorldTypeOK /\ WorldInv /\ ReplayTypeOK  BY DEF TimelineInv
    <2>2. WorldTypeOK' /\ WorldInv' /\ ReplayTypeOK'
      BY <2>1, WorldTypeStep, WorldStep, ReplayTypeStep
    <2>3. Traced  BY <2>1, TraceOfWorld
    <2>4. ReplayParts  BY <2>1, <2>3, BegunParts DEF TimelineInv
    <2>5. ASSUME ObserveEvent PROVE ReplayParts'
      BY <2>1, <2>3, <2>4, <2>5, ReplayStep
    <2>6. ASSUME phase' = "tracing" PROVE Begun'
      BY <2>2, <2>6 DEF ReplayTypeOK, Begun
    <2>7. ASSUME EndTrace PROVE Begun'
      BY <2>1, <2>7 DEF EndTrace, ReplayTypeOK, Begun
    <2>8. ASSUME UNCHANGED timelineVars PROVE Begun' \/ ReplayParts'
      <3>1. UNCHANGED <<events, position, generations, actor, child, active>>
        BY <2>8 DEF timelineVars, worldVars, replayVars
      <3>2. CASE Begun  BY <3>1, <3>2 DEF Begun
      <3>3. CASE ReplayParts
        <4>1. Handled' = Handled  BY <3>1 DEF Handled, Rank, Before
        <4>2. Attributed'  BY <2>4, <3>1, <4>1 DEF ReplayParts, Attributed
        <4>3. Separated'  BY <2>4, <3>1, <4>1 DEF ReplayParts, Separated, Ends
        <4>4. Numbered(generations)'  BY <2>4, <3>1 DEF ReplayParts, Numbered
        <4>5. (Introduced' = Introduced) /\ (Sequential' = Sequential)
          BY <3>1 DEF Introduced, Sequential
        <4>6. AllTrusted' = AllTrusted  BY <3>1 DEF AllTrusted, IsUntrusted
        <4>7. Exact => Exact'  BY <3>1, <4>1 DEF Exact
        <4>8. ExecFound'
          <5>1. Execs' = Execs  BY <3>1 DEF Execs, EventOrder, Before
          <5>2. QED  BY <2>4, <3>1, <5>1 DEF ReplayParts, ExecFound
        <4>9. QED  BY <2>4, <4>2, <4>3, <4>4, <4>5, <4>6, <4>7, <4>8 DEF ReplayParts
      <3>4. QED  BY <3>2, <3>3 DEF TimelineInv
    <2>9. ASSUME NEW p \in Pids,
                 \/ \E kind \in {"call", "exec"} : Call(p, kind)
                 \/ EnterSpawn(p)
                 \/ \E q \in Pids : Fork(p, q)
                 \/ ReturnFromSpawn(p)
                 \/ Exit(p)
          PROVE  phase' = "tracing"
      BY <2>9 DEF Call, EnterSpawn, Fork, ReturnFromSpawn, Exit, Running
    <2>10. Begun' \/ ReplayParts'
      BY <2>5, <2>6, <2>7, <2>8, <2>9 DEF TimelineNext
    <2>11. QED  BY <2>2, <2>10 DEF TimelineInv
  <1>3. QED  BY <1>1, <1>2, PTL DEF TimelineSpec

-----------------------------------------------------------------------------
(* What the finished timeline says *)

(* The generations of a PID. *)
OfPid(gens, p) == {g \in DOMAIN gens : gens[g].pid = p}

(* The generations of a PID are finitely many. *)
LEMMA OfPidFinite ==
  ASSUME NEW gens \in Seq(GenerationType), NEW p
  PROVE  IsFiniteSet(OfPid(gens, p)) /\ Cardinality(OfPid(gens, p)) \in Nat
  <1>1. DOMAIN gens = 1 .. Len(gens) /\ Len(gens) \in Nat  OBVIOUS
  <1>2. IsFiniteSet(DOMAIN gens)  BY <1>1, FS_Interval
  <1>3. OfPid(gens, p) \in SUBSET DOMAIN gens  BY DEF OfPid
  <1>4. IsFiniteSet(OfPid(gens, p))  BY <1>2, <1>3, FS_Subset
  <1>5. QED  BY <1>4, FS_CardinalityType

(* A PID and an ordinal name one generation. *)
LEMMA OrdinalsName ==
  ASSUME NEW gens \in Seq(GenerationType), Numbered(gens),
         NEW g \in DOMAIN gens, NEW h \in DOMAIN gens,
         gens[g].pid = gens[h].pid, gens[g].ordinal = gens[h].ordinal
  PROVE  g = h
  <1> DEFINE Below(f) == {k \in DOMAIN gens : k < f /\ gens[k].pid = gens[f].pid}
  <1>1. DOMAIN gens \in SUBSET Nat  OBVIOUS
  <1>2. ASSUME NEW e \in DOMAIN gens, NEW f \in DOMAIN gens, e < f, gens[e].pid = gens[f].pid
        PROVE  gens[e].ordinal # gens[f].ordinal
    <2>1. Below(e) \in SUBSET Below(f) /\ e \in Below(f) /\ e \notin Below(e)
      BY <1>1, <1>2
    <2>2. IsFiniteSet(Below(e)) /\ IsFiniteSet(Below(f))
      <3>1. /\ Below(e) \in SUBSET OfPid(gens, gens[e].pid)
            /\ Below(f) \in SUBSET OfPid(gens, gens[f].pid)
        BY DEF OfPid
      <3>2. QED  BY <3>1, OfPidFinite, FS_Subset
    <2>3. Cardinality(Below(e)) # Cardinality(Below(f))  BY <2>1, <2>2, FS_Subset
    <2>4. Cardinality(Below(e)) \in Nat /\ Cardinality(Below(f)) \in Nat
      BY <2>2, FS_CardinalityType
    <2>5. gens[e].ordinal = Cardinality(Below(e)) + 1 /\ gens[f].ordinal = Cardinality(Below(f)) + 1
      BY DEF Numbered
    <2> HIDE DEF Below
    <2>6. QED  BY <2>3, <2>4, <2>5
  <1>3. g < h \/ h < g \/ g = h  BY <1>1
  <1>4. QED  BY <1>2, <1>3

(* In a finished timeline every event is handled and the invariant's parts *)
(* hold of all of them.                                                    *)
LEMMA FinishedFacts ==
  ASSUME TimelineInv, Finished
  PROVE  /\ Traced /\ ReplayParts /\ Handled = DOMAIN events /\ phase = "replaying"
         /\ generations \in Seq(GenerationType)
         /\ \A i, j \in DOMAIN events : TaskGeneration(i) = TaskGeneration(j) <=> actor[i] = actor[j]
         /\ \A i, j \in DOMAIN events : events[i].childPid # NoPid =>
              (ChildGeneration(i) = TaskGeneration(j) <=> child[i] = actor[j])
  <1>1. WorldTypeOK /\ WorldInv /\ ReplayTypeOK  BY DEF TimelineInv
  <1>2. Traced  BY <1>1, TraceOfWorld
  <1>3. ReplayParts  BY <1>1, <1>2, BegunParts DEF TimelineInv
  <1>4. Handled = DOMAIN events
    <2>1. position = Len(events) /\ Len(events) \in Nat  BY <1>1 DEF Finished, WorldTypeOK
    <2>2. \A i \in DOMAIN events : Rank(i) < position  BY <1>1, <1>2, <2>1, RankOrder
    <2>3. QED  BY <2>2 DEF Handled
  <1>5. generations \in Seq(GenerationType)  BY <1>1 DEF ReplayTypeOK
  <1>6. Numbered(generations) /\ Attributed  BY <1>3 DEF ReplayParts
  <1>7. ASSUME NEW i \in DOMAIN events, NEW j \in DOMAIN events
        PROVE  TaskGeneration(i) = TaskGeneration(j) <=> actor[i] = actor[j]
    <2>1. /\ actor[i] \in DOMAIN generations /\ generations[actor[i]].pid = events[i].pid
          /\ actor[j] \in DOMAIN generations /\ generations[actor[j]].pid = events[j].pid
      BY <1>4, <1>6 DEF Attributed
    <2>2. TaskGeneration(i) = TaskGeneration(j) =>
            /\ events[i].pid = events[j].pid
            /\ generations[actor[i]].ordinal = generations[actor[j]].ordinal
      BY DEF TaskGeneration
    <2>3. TaskGeneration(i) = TaskGeneration(j) => actor[i] = actor[j]
      BY <1>5, <1>6, <2>1, <2>2, OrdinalsName
    <2>4. actor[i] = actor[j] => TaskGeneration(i) = TaskGeneration(j)
      BY <2>1 DEF TaskGeneration
    <2>5. QED  BY <2>3, <2>4
  <1>8. ASSUME NEW i \in DOMAIN events, NEW j \in DOMAIN events, events[i].childPid # NoPid
        PROVE  ChildGeneration(i) = TaskGeneration(j) <=> child[i] = actor[j]
    <2>1. /\ child[i] \in DOMAIN generations /\ generations[child[i]].pid = events[i].childPid
          /\ actor[j] \in DOMAIN generations /\ generations[actor[j]].pid = events[j].pid
      BY <1>4, <1>6, <1>8 DEF Attributed
    <2>2. ChildGeneration(i) = TaskGeneration(j) =>
            /\ events[i].childPid = events[j].pid
            /\ generations[child[i]].ordinal = generations[actor[j]].ordinal
      BY DEF TaskGeneration, ChildGeneration
    <2>3. ChildGeneration(i) = TaskGeneration(j) => child[i] = actor[j]
      BY <1>5, <1>6, <2>1, <2>2, OrdinalsName
    <2>4. child[i] = actor[j] => ChildGeneration(i) = TaskGeneration(j)
      BY <2>1 DEF TaskGeneration, ChildGeneration
    <2>5. QED  BY <2>3, <2>4
  <1>9. phase = "replaying"  BY DEF Finished
  <1>10. QED  BY <1>2, <1>3, <1>4, <1>5, <1>7, <1>8, <1>9

(* Births that are not missing introduce their tasks. *)
LEMMA BirthsIntroduce ==
  ASSUME WorldTypeOK, NEW own, NEW birth, NEW gone, Told(own, birth, gone),
         BirthsTold, phase = "replaying"
  PROVE  Introduced
  <1>1. ASSUME NEW i \in DOMAIN events, events[i].life # 1
        PROVE  \E s \in DOMAIN events : events[s].childLife = events[i].life
    <2>1. events[i].life \in 1..lives  BY DEF Told, Written, EventTold
    <2>2. events[i].life \in 2..lives  BY <1>1, <2>1 DEF WorldTypeOK
    <2>3. QED  BY <2>2 DEF BirthsTold
  <1>2. QED  BY <1>1 DEF Introduced

(* What is known of two lifetimes of a PID whose births are in order. *)
LEMMA EarlierBirth ==
  ASSUME WorldTypeOK, NEW own \in [Nat -> Pids], NEW birth \in [Nat -> Nat],
         NEW gone \in [Nat -> Nat], Told(own, birth, gone), ~raced,
         NEW K \in 1..lives, NEW M \in 1..lives, own[K] = own[M], birth[K] < birth[M]
  PROVE  gone[K] # 0 /\ gone[K] <= birth[M]
  <1>1. /\ K \in Nat /\ M \in Nat /\ birth[K] \in Nat /\ birth[M] \in Nat
        /\ gone[K] \in Nat /\ gone[M] \in Nat
    BY DEF WorldTypeOK
  <1>2. CASE K < M  BY <1>2 DEF Told, Succession
  <1>3. CASE M < K
    <2>1. gone[M] # 0 /\ gone[M] <= birth[K]  BY <1>3 DEF Told, Succession
    <2>2. birth[M] < gone[M]  BY <2>1 DEF Told, Lifetimes
    <2>3. QED  BY <1>1, <2>1, <2>2
  <1>4. K # M  BY <1>1
  <1>5. QED  BY <1>1, <1>2, <1>3, <1>4

(* If no exit is missing and no PID was freed during the spawn that got    *)
(* it, the tasks of a PID follow each other in the trace.                  *)
LEMMA ExitsSequence ==
  ASSUME WorldTypeOK, NEW own \in [Nat -> Pids], NEW birth \in [Nat -> Nat],
         NEW gone \in [Nat -> Nat], Told(own, birth, gone), ~raced, ExitsTold(gone)
  PROVE  Sequential
  <1> DEFINE ExitBefore(K, n) ==
        \E k \in DOMAIN events : /\ events[k].kind = "exit" /\ events[k].life = K
                                 /\ events[k].line < events[n].line
  <1>1. \A i \in DOMAIN events : EventTold(events[i], own, birth, gone)
    BY DEF Told, Written
  <1>2. \A i, j \in DOMAIN events : events[i].line = events[j].line => i = j
    BY DEF Told, Written
  <1>3. \A i \in DOMAIN events : events[i].line \in Nat
    <2>1. \A i \in DOMAIN events : events[i] \in EventType  BY DEF WorldTypeOK
    <2>2. QED  BY <2>1 DEF EventType
  <1>4. ASSUME NEW n \in DOMAIN events, events[n].childPid # NoPid
        PROVE  /\ events[n].childLife \in 1..lives /\ own[events[n].childLife] = events[n].childPid
               /\ birth[events[n].childLife] = events[n].line /\ events[n].kind = "spawn"
    BY <1>1, <1>4 DEF EventTold
  <1>5. ASSUME NEW n \in DOMAIN events, events[n].childPid # NoPid,
               NEW K \in 1..lives, own[K] = events[n].childPid, birth[K] < events[n].line
        PROVE  ExitBefore(K, n)
    <2>1. gone[K] # 0 /\ gone[K] <= events[n].line
      BY <1>4, <1>5, EarlierBirth
    <2>2. PICK k \in DOMAIN events : events[k].kind = "exit" /\ events[k].life = K
      BY <2>1 DEF ExitsTold
    <2>3. events[k].line = gone[K]  BY <1>1, <2>2 DEF EventTold
    <2>4. k # n  BY <1>4, <1>5, <2>2
    <2>5. events[k].line # events[n].line  BY <1>2, <2>4
    <2>6. events[k].line < events[n].line  BY <1>3, <2>1, <2>3, <2>5
    <2>7. QED  BY <2>2, <2>6
  <1>6. ASSUME NEW n \in DOMAIN events, events[n].childPid # NoPid
        PROVE  events[n].childPid # events[n].pid
    <2>1. SUFFICES ASSUME events[n].childPid = events[n].pid PROVE FALSE
      OBVIOUS
    <2>2. /\ events[n].life \in 1..lives /\ own[events[n].life] = events[n].pid
          /\ birth[events[n].life] < events[n].line
          /\ gone[events[n].life] # 0 => events[n].line <= gone[events[n].life]
      BY <1>1 DEF EventTold
    <2>3. PICK k \in DOMAIN events : /\ events[k].kind = "exit" /\ events[k].life = events[n].life
                                     /\ events[k].line < events[n].line
      BY <1>5, <1>6, <2>1, <2>2
    <2>4. gone[events[n].life] = events[k].line /\ events[k].line # 0
      BY <1>1, <2>3 DEF EventTold
    <2>5. QED  BY <1>3, <2>2, <2>3, <2>4
  <1>7. ASSUME NEW n \in DOMAIN events, events[n].childPid # NoPid,
               NEW i \in DOMAIN events, events[i].line < events[n].line
        PROVE  /\ events[i].pid = events[n].childPid => ExitBefore(events[i].life, n)
               /\ events[i].childPid = events[n].childPid => ExitBefore(events[i].childLife, n)
    <2>1. /\ events[i].life \in 1..lives /\ own[events[i].life] = events[i].pid
          /\ birth[events[i].life] < events[i].line
      BY <1>1 DEF EventTold
    <2>2. birth[events[i].life] \in Nat
      <3>1. lives \in Nat  BY DEF WorldTypeOK
      <3>2. events[i].life \in Nat  BY <2>1, <3>1
      <3>3. QED  BY <3>2
    <2>3. birth[events[i].life] < events[n].line  BY <1>3, <1>7, <2>1, <2>2
    <2>4. events[i].pid = events[n].childPid => ExitBefore(events[i].life, n)
      BY <1>5, <1>7, <2>1, <2>3
    <2>5. events[i].childPid = events[n].childPid => ExitBefore(events[i].childLife, n)
      BY <1>4, <1>5, <1>7
    <2>6. QED  BY <2>4, <2>5
  <1>8. QED  BY <1>6, <1>7 DEF Sequential

(* With no exit missing, or no birth missing and no PID freed during the   *)
(* spawn that got it, an event of the trace separates two lifetimes of a   *)
(* PID.                                                                    *)
LEMMA LifetimesSeparated ==
  ASSUME WorldTypeOK, NEW own \in [Nat -> Pids], NEW birth \in [Nat -> Nat],
         NEW gone \in [Nat -> Nat], Told(own, birth, gone), phase = "replaying",
         ExitsTold(gone) \/ (BirthsTold /\ ~raced),
         NEW i \in DOMAIN events, NEW j \in DOMAIN events,
         events[i].pid = events[j].pid, events[i].life < events[j].life
  PROVE  \E k \in DOMAIN events : /\ Ends(k, events[i].pid) /\ events[i].line <= events[k].line
                                  /\ events[k].line < events[j].line
  <1>1. \A m \in DOMAIN events : EventTold(events[m], own, birth, gone)
    BY DEF Told, Written
  <1>2. PICK K \in 1..lives : K = events[i].life  BY <1>1 DEF EventTold
  <1>3. PICK L \in 1..lives : L = events[j].life  BY <1>1 DEF EventTold
  <1>4. own[K] = events[i].pid /\ own[L] = events[i].pid /\ K < L
    BY <1>1, <1>2, <1>3 DEF EventTold
  <1>5. /\ gone[K] # 0 /\ (~raced => gone[K] <= birth[L])
    BY <1>4 DEF Told, Succession
  <1>6. events[i].line <= gone[K] /\ gone[K] < events[j].line /\ birth[L] < events[j].line
    BY <1>1, <1>2, <1>3, <1>4, <1>5 DEF EventTold
  <1>7. CASE ExitsTold(gone)
    <2>1. PICK k \in DOMAIN events : events[k].kind = "exit" /\ events[k].life = K
      BY <1>5, <1>7 DEF ExitsTold
    <2>2. events[k].line = gone[K] /\ events[k].pid = events[i].pid
      BY <1>1, <1>4, <2>1 DEF EventTold
    <2>3. QED  BY <1>6, <2>1, <2>2 DEF Ends
  <1>8. CASE BirthsTold /\ ~raced
    <2>1. L \in 2..lives
      <3>1. lives \in Nat  BY DEF WorldTypeOK
      <3>2. QED  BY <1>4, <3>1
    <2>2. PICK s \in DOMAIN events : events[s].childLife = L
      BY <1>8, <2>1 DEF BirthsTold
    <2>3. L # 0  BY <2>1
    <2>4. events[s].childPid = events[i].pid /\ events[s].line = birth[L]
      BY <1>1, <1>4, <2>2, <2>3 DEF EventTold
    <2>5. events[i].line \in Nat /\ gone[K] \in Nat /\ birth[L] \in Nat
      <3>1. events[i] \in EventType /\ lives \in Nat  BY DEF WorldTypeOK
      <3>2. K \in Nat /\ L \in Nat  BY <3>1
      <3>3. QED  BY <3>1, <3>2 DEF EventType
    <2>6. events[i].line <= events[s].line  BY <1>5, <1>6, <1>8, <2>4, <2>5
    <2>7. QED  BY <1>6, <2>4, <2>6 DEF Ends
  <1>9. QED  BY <1>7, <1>8

(* A generation with events of two lifetimes needs a missing event         *)
(* together with a PID freed during a spawn, and an untrusted generation.  *)
LEMMA OneLifetime ==
  ASSUME TimelineInv, Finished, lost <= 1, raced /\ lost > 0 => AllTrusted,
         NEW i \in DOMAIN events, NEW j \in DOMAIN events, actor[i] = actor[j]
  PROVE  events[i].life = events[j].life
  <1>1. WorldTypeOK /\ WorldInv  BY DEF TimelineInv
  <1>2. /\ ReplayParts /\ Handled = DOMAIN events /\ phase = "replaying"
    BY FinishedFacts
  <1>3. PICK own \in [Nat -> Pids], birth \in [Nat -> Nat], gone \in [Nat -> Nat] :
          Told(own, birth, gone)
    BY <1>1 DEF WorldInv
  <1>4. lost \in Nat  BY <1>1 DEF WorldTypeOK
  <1>5. /\ lost = 0 => ExitsTold(gone) /\ BirthsTold
        /\ ExitsTold(gone) \/ BirthsTold
    BY <1>3 DEF Told, Losses
  <1>6. CASE ExitsTold(gone) \/ (BirthsTold /\ ~raced)
    <2>1. events[i].pid = events[j].pid
      BY <1>2 DEF ReplayParts, Attributed
    <2>2. ASSUME NEW a \in DOMAIN events, NEW b \in DOMAIN events,
                 events[a].pid = events[b].pid, actor[a] = actor[b]
          PROVE  ~(events[a].life < events[b].life)
      <3>1. SUFFICES ASSUME events[a].life < events[b].life PROVE FALSE
        OBVIOUS
      <3>2. PICK k \in DOMAIN events : /\ Ends(k, events[a].pid) /\ events[a].line <= events[k].line
                                       /\ events[k].line < events[b].line
        BY <1>1, <1>2, <1>3, <1>6, <2>2, <3>1, LifetimesSeparated
      <3>3. QED  BY <1>2, <2>2, <3>2 DEF ReplayParts, Separated
    <2>3. events[i].life \in Nat /\ events[j].life \in Nat
      <3>1. events[i] \in EventType /\ events[j] \in EventType  BY <1>1 DEF WorldTypeOK
      <3>2. QED  BY <3>1 DEF EventType
    <2>4. ~(events[i].life < events[j].life) /\ ~(events[j].life < events[i].life)
      BY <2>1, <2>2
    <2>5. QED  BY <2>3, <2>4
  <1>7. CASE BirthsTold /\ raced /\ ~ExitsTold(gone)
    <2>1. lost > 0  BY <1>4, <1>5, <1>7
    <2>2. Introduced /\ AllTrusted  BY <1>1, <1>2, <1>3, <1>7, <2>1, BirthsIntroduce
    <2>3. Exact  BY <1>2, <2>2 DEF ReplayParts
    <2>4. QED  BY <1>2, <2>3 DEF Exact
  <1>8. QED  BY <1>5, <1>6, <1>7

(* NoSilentMerge, in the words of the invariant. *)
LEMMA NoSilentMergeState ==
  ASSUME TimelineInv, lost <= 1
  PROVE  NoSilentMerge
  <1> SUFFICES ASSUME Finished, raced /\ lost > 0 => \A g \in DOMAIN generations : ~IsUntrusted(g),
                      NEW i \in DOMAIN events, NEW j \in DOMAIN events,
                      TaskGeneration(i) = TaskGeneration(j)
               PROVE  events[i].life = events[j].life
    BY DEF NoSilentMerge
  <1>1. actor[i] = actor[j]  BY FinishedFacts
  <1>2. raced /\ lost > 0 => AllTrusted  BY DEF AllTrusted
  <1>3. QED  BY <1>1, <1>2, OneLifetime

(* Completion's exit is an event of the root exec's generation. *)
LEMMA RootFacts ==
  ASSUME TimelineInv, Finished, RootExit # 0
  PROVE  /\ RootExec \in DOMAIN events /\ RootExit \in DOMAIN events
         /\ actor[RootExit] = actor[RootExec]
  <1>1. WorldTypeOK /\ ReplayTypeOK  BY DEF TimelineInv
  <1>2. Traced /\ ReplayParts /\ Handled = DOMAIN events  BY FinishedFacts
  <1>3. RootExec # 0 /\ RootExit = generations[actor[RootExec]].exit  BY DEF RootExit
  <1>4. Execs # {} /\ RootExec = EventOrder[CHOOSE k \in Execs : \A l \in Execs : k <= l]
    BY <1>3 DEF RootExec
  <1>5. \E m \in Execs : \A l \in Execs : m <= l
    <2>1. PICK k \in Execs : TRUE  BY <1>4
    <2>2. k \in DOMAIN events  BY DEF Execs
    <2>3. k <= position  BY <1>1, <2>2 DEF Finished, WorldTypeOK
    <2>4. QED  BY <1>2, <2>3 DEF ReplayParts, ExecFound
  <1>6. PICK m \in Execs : m = CHOOSE k \in Execs : \A l \in Execs : k <= l
    BY <1>5
  <1>7. m \in DOMAIN events  BY DEF Execs
  <1>8. RootExec \in DOMAIN events
    BY <1>1, <1>2, <1>4, <1>6, <1>7, OrderIsTotal
  <1>9. actor[RootExec] \in DOMAIN generations
    BY <1>2, <1>8 DEF ReplayParts, Attributed
  <1>10. QED
    BY <1>2, <1>3, <1>8, <1>9 DEF ReplayParts, Attributed

(* RootCompletionSound, in the words of the invariant. *)
LEMMA RootCompletionState ==
  ASSUME TimelineInv, lost <= 1
  PROVE  RootCompletionSound
  <1> SUFFICES ASSUME Finished, RootExit # 0, \A g \in DOMAIN generations : ~IsUntrusted(g)
               PROVE  events[RootExit].life = events[RootExec].life
    BY DEF RootCompletionSound
  <1>1. /\ RootExec \in DOMAIN events /\ RootExit \in DOMAIN events
        /\ actor[RootExit] = actor[RootExec]
    BY RootFacts
  <1>2. AllTrusted  BY DEF AllTrusted
  <1>3. QED  BY <1>1, <1>2, OneLifetime

(* ExactWhenComplete, in the words of the invariant. *)
LEMMA ExactState ==
  ASSUME TimelineInv
  PROVE  ExactWhenComplete
  <1> SUFFICES ASSUME Finished, lost = 0, ~raced
               PROVE  /\ AllTrusted
                      /\ \A i, j \in DOMAIN events :
                           TaskGeneration(i) = TaskGeneration(j) <=> events[i].life = events[j].life
                      /\ \A i, j \in DOMAIN events :
                           events[i].childPid # NoPid =>
                             (ChildGeneration(i) = TaskGeneration(j)
                                <=> events[i].childLife = events[j].life)
    BY DEF ExactWhenComplete, AllTrusted
  <1>1. WorldTypeOK /\ WorldInv  BY DEF TimelineInv
  <1>2. /\ ReplayParts /\ Handled = DOMAIN events /\ phase = "replaying"
    BY FinishedFacts
  <1>3. PICK own \in [Nat -> Pids], birth \in [Nat -> Nat], gone \in [Nat -> Nat] :
          Told(own, birth, gone)
    BY <1>1 DEF WorldInv
  <1>4. ExitsTold(gone) /\ BirthsTold  BY <1>3 DEF Told, Losses
  <1>5. Introduced  BY <1>1, <1>2, <1>3, <1>4, BirthsIntroduce
  <1>6. Sequential  BY <1>1, <1>3, <1>4, ExitsSequence
  <1>7. AllTrusted /\ Exact  BY <1>2, <1>5, <1>6 DEF ReplayParts
  <1>8. /\ \A i, j \in DOMAIN events : actor[i] = actor[j] <=> events[i].life = events[j].life
        /\ \A i, j \in DOMAIN events : events[i].childPid # NoPid =>
             (child[i] = actor[j] <=> events[i].childLife = events[j].life)
    BY <1>2, <1>7 DEF Exact
  <1>9. \A i, j \in DOMAIN events : TaskGeneration(i) = TaskGeneration(j) <=> actor[i] = actor[j]
    BY FinishedFacts
  <1>10. \A i, j \in DOMAIN events : events[i].childPid # NoPid =>
           (ChildGeneration(i) = TaskGeneration(j) <=> child[i] = actor[j])
    BY FinishedFacts
  <1>11. QED  BY <1>7, <1>8, <1>9, <1>10

(* NoMissingMeansEnded, in the words of the invariant. *)
LEMMA NoMissingState ==
  ASSUME TimelineInv, lost <= 1
  PROVE  NoMissingMeansEnded
  <1> SUFFICES ASSUME Finished, ~(raced /\ lost > 0), MissingExits = {},
                      \A g \in DOMAIN generations : ~IsUntrusted(g),
                      NEW i \in DOMAIN events, NEW p \in Pids, life[p] # 0,
                      life[p] \in {events[i].life, events[i].childLife}
               PROVE  FALSE
    BY DEF NoMissingMeansEnded
  <1>1. WorldTypeOK /\ WorldInv  BY DEF TimelineInv
  <1>2. /\ ReplayParts /\ Handled = DOMAIN events /\ phase = "replaying"
    BY FinishedFacts
  <1>3. PICK own \in [Nat -> Pids], birth \in [Nat -> Nat], gone \in [Nat -> Nat] :
          Told(own, birth, gone)
    BY <1>1 DEF WorldInv
  <1>4. \A m \in DOMAIN events : EventTold(events[m], own, birth, gone)
    BY <1>3 DEF Told, Written
  <1>5. PICK L \in 1..lives : L = life[p] /\ own[L] = p /\ gone[L] = 0
    BY <1>3 DEF Told, Lifetimes
  <1>6. ASSUME NEW k \in DOMAIN events, events[k].kind = "exit"
        PROVE  events[k].life # L
    <2>1. gone[events[k].life] = events[k].line /\ events[k].line # 0
      BY <1>4, <1>6 DEF EventTold
    <2>2. QED  BY <1>5, <2>1
  <1>7. ASSUME NEW g \in DOMAIN generations
        PROVE  \E k \in DOMAIN events : events[k].kind = "exit" /\ actor[k] = g
    <2>1. generations[g].exit # 0  BY DEF MissingExits
    <2>2. QED  BY <1>2, <2>1 DEF ReplayParts, Attributed
  <1>8. AllTrusted  BY DEF AllTrusted
  <1>9. CASE events[i].life = L
    <2>1. actor[i] \in DOMAIN generations  BY <1>2 DEF ReplayParts, Attributed
    <2>2. PICK k \in DOMAIN events : events[k].kind = "exit" /\ actor[k] = actor[i]
      BY <1>7, <2>1
    <2>3. events[k].life = events[i].life  BY <1>8, <2>2, OneLifetime
    <2>4. QED  BY <1>6, <1>9, <2>2, <2>3
  <1>10. CASE events[i].childLife = L
    <2>1. L # 0  BY <1>5
    <2>2. /\ events[i].childPid # NoPid /\ events[i].childPid = p /\ birth[L] = events[i].line
      BY <1>4, <1>5, <1>10, <2>1 DEF EventTold
    <2>3. child[i] \in DOMAIN generations /\ generations[child[i]].pid = p
      BY <1>2, <2>2 DEF ReplayParts, Attributed
    <2>4. PICK k \in DOMAIN events : events[k].kind = "exit" /\ actor[k] = child[i]
      BY <1>7, <2>3
    <2>5. CASE BirthsTold
      <3>1. Introduced  BY <1>1, <1>2, <1>3, <2>5, BirthsIntroduce
      <3>2. Exact  BY <1>2, <1>8, <3>1 DEF ReplayParts
      <3>3. events[k].life = L  BY <1>2, <1>10, <2>2, <2>4, <3>2 DEF Exact
      <3>4. QED  BY <1>6, <2>4, <3>3
    <2>6. CASE ~BirthsTold
      <3>1. lost # 0 /\ lost \in Nat  BY <1>1, <1>3, <2>6 DEF Told, Losses, WorldTypeOK
      <3>2. ~raced
        <4>1. lost > 0  BY <3>1
        <4>2. QED  BY <4>1
      <3>3. events[i].line < events[k].line
        BY <1>2, <2>4 DEF ReplayParts, Attributed
      <3>4. PICK M \in 1..lives : M = events[k].life /\ own[M] = events[k].pid /\ gone[M] = events[k].line
        BY <1>4, <2>4 DEF EventTold
      <3>5. events[k].pid = p
        BY <1>2, <2>3, <2>4 DEF ReplayParts, Attributed
      <3>6. M # L  BY <1>6, <2>4, <3>4
      <3>7. lives \in Nat  BY <1>1 DEF WorldTypeOK
      <3>8. M < L \/ L < M  BY <3>6, <3>7
      <3>9. ~(L < M)  BY <1>3, <1>5, <3>4, <3>5 DEF Told, Succession
      <3>10. gone[M] <= birth[L]
        BY <1>3, <1>5, <3>2, <3>4, <3>5, <3>8, <3>9 DEF Told, Succession
      <3>11. events[k].line <= events[i].line  BY <2>2, <3>4, <3>10
      <3>12. events[k].line \in Nat /\ events[i].line \in Nat
        <4>1. events[k] \in EventType /\ events[i] \in EventType  BY <1>1 DEF WorldTypeOK
        <4>2. QED  BY <4>1 DEF EventType
      <3>13. QED  BY <3>3, <3>11, <3>12
    <2>7. QED  BY <2>5, <2>6
  <1>11. QED  BY <1>5, <1>9, <1>10

-----------------------------------------------------------------------------
(* TaskTimeline::from_observations: one missing event never makes the      *)
(* timeline quietly store two tasks' calls under one identity, whatever    *)
(* the number of tasks, events and PIDs.                                   *)
THEOREM NoSilentMergeHolds == TimelineSpec => [](lost <= 1 => NoSilentMerge)
  <1>1. TimelineInv => (lost <= 1 => NoSilentMerge)  BY NoSilentMergeState
  <1>2. QED  BY <1>1, TimelineInvariant, PTL

(* Completion::from_timeline: with at most one missing event and no        *)
(* identity finding, the reported completion is the exit of the task that  *)
(* ran the first exec.                                                     *)
THEOREM RootCompletionHolds == TimelineSpec => [](lost <= 1 => RootCompletionSound)
  <1>1. TimelineInv => (lost <= 1 => RootCompletionSound)  BY RootCompletionState
  <1>2. QED  BY <1>1, TimelineInvariant, PTL

(* from_observations and bind_task_generations: the identities of a        *)
(* complete trace are exactly the real lifetimes, of actors and of         *)
(* children, and nothing is flagged.                                       *)
THEOREM ExactWhenCompleteHolds == TimelineSpec => []ExactWhenComplete
  <1>1. TimelineInv => ExactWhenComplete  BY ExactState
  <1>2. QED  BY <1>1, TimelineInvariant, PTL

(* missing_exits: with at most one missing event, a trace without a        *)
(* missing exit and without an identity finding reports the end of every   *)
(* task it reports.                                                        *)
THEOREM NoMissingMeansEndedHolds == TimelineSpec => [](lost <= 1 => NoMissingMeansEnded)
  <1>1. TimelineInv => (lost <= 1 => NoMissingMeansEnded)  BY NoMissingState
  <1>2. QED  BY <1>1, TimelineInvariant, PTL

-----------------------------------------------------------------------------
(* What the reader's replay computes *)

(* A set of numbers below a bound has a least element. *)
LEMMA Least ==
  ASSUME NEW b \in Nat, NEW S \in SUBSET (0 .. b), S # {}
  PROVE  \E x \in S : \A y \in S : x <= y
  <1> DEFINE Below(x) == {y \in S : y < x}
             T == 0 .. Cardinality(S) - 1
             R == [x \in S |-> Cardinality(Below(x))]
  <1>1. IsFiniteSet(S) /\ Cardinality(S) \in Nat /\ Cardinality(S) # 0
    <2>1. IsFiniteSet(0 .. b)  BY FS_Interval
    <2>2. IsFiniteSet(S)  BY <2>1, FS_Subset
    <2>3. QED  BY <2>2, FS_CardinalityType, FS_EmptySet
  <1>2. ASSUME NEW x \in S
        PROVE  IsFiniteSet(Below(x)) /\ Cardinality(Below(x)) \in T
    <2>1. Below(x) \in SUBSET S /\ Below(x) # S  OBVIOUS
    <2>2. /\ IsFiniteSet(Below(x)) /\ Cardinality(Below(x)) <= Cardinality(S)
          /\ Cardinality(Below(x)) # Cardinality(S)
      BY <1>1, <2>1, FS_Subset
    <2>3. Cardinality(Below(x)) \in Nat  BY <2>2, FS_CardinalityType
    <2> HIDE DEF Below
    <2>4. QED  BY <1>1, <2>2, <2>3
  <1>3. ASSUME NEW x \in S, NEW y \in S, x < y
        PROVE  Cardinality(Below(x)) # Cardinality(Below(y))
    <2>1. \A z \in S : z \in 0 .. b  OBVIOUS
    <2>2. \A z \in S : z < x => z < y  BY <1>3, <2>1
    <2>3. x \in Below(y) /\ x \notin Below(x)  BY <1>3, <2>1
    <2>4. Below(x) \in SUBSET Below(y)  BY <2>2
    <2>5. QED  BY <1>2, <2>3, <2>4, FS_Subset
  <1>4. \A x, y \in S : x < y \/ y < x \/ x = y  OBVIOUS
  <1>5. IsFiniteSet(T) /\ Cardinality(T) = Cardinality(S)
    <2>1. Cardinality(S) - 1 \in Int /\ 0 \in Int /\ ~(0 > Cardinality(S) - 1)  BY <1>1
    <2>2. IsFiniteSet(T) /\ Cardinality(T) = (Cardinality(S) - 1) - 0 + 1
      BY <2>1, FS_Interval
    <2>3. QED  BY <1>1, <2>2
  <1>6. 0 \in T  BY <1>1
  <1> HIDE DEF Below
  <1>7. R \in Injection(S, T)
    <2>1. R \in [S -> T]  BY <1>2
    <2>2. \A x, y \in S : R[x] = R[y] => x = y  BY <1>3, <1>4
    <2>3. QED  BY <2>1, <2>2 DEF Injection, IsInjective
  <1>8. R \in Surjection(S, T)  BY <1>1, <1>5, <1>7, FS_Injection
  <1>9. PICK x \in S : Cardinality(Below(x)) = 0
    BY <1>6, <1>8 DEF Surjection
  <1>10. Below(x) = {}  BY <1>2, <1>9, FS_EmptySet
  <1>11. \A y \in S : x <= y
    <2>1. \A y \in S : ~(y < x)  BY <1>10 DEF Below
    <2>2. QED  BY <2>1, <1>4
  <1>12. QED  BY <1>11

(* The states of the reader after 0, 1, ... events of a saved trace. *)
Readings(saved, f) ==
  f = [n \in 0 .. Len(saved) |->
         IF n = 0 THEN Unread ELSE ReadEvent(f[n - 1], saved[Ordered(saved)[n]])]

(* Each state follows from the one before it, so there is one such row of  *)
(* states: any that is found tells what Replay computes.                   *)
LEMMA ReplayIs ==
  ASSUME NEW saved, Len(saved) \in Nat, NEW f, Readings(saved, f)
  PROVE  Replay(saved) = f[Len(saved)]
  <1> DEFINE G == CHOOSE g : Readings(saved, g)
             D == {n \in 0 .. Len(saved) : f[n] # G[n]}
  <1>1. Readings(saved, G)  OBVIOUS
  <1>2. Replay(saved) = G[Len(saved)]
    BY DEF Replay, Readings
  <1> HIDE DEF G
  <1>3. /\ G[0] = Unread /\ f[0] = Unread
        /\ \A n \in 0 .. Len(saved) : n # 0 =>
             /\ f[n] = ReadEvent(f[n - 1], saved[Ordered(saved)[n]])
             /\ G[n] = ReadEvent(G[n - 1], saved[Ordered(saved)[n]])
    BY <1>1 DEF Readings
  <1>4. ASSUME D # {} PROVE FALSE
    <2>1. PICK m \in D : \A k \in D : m <= k
      <3>1. D \in SUBSET (0 .. Len(saved))  OBVIOUS
      <3> HIDE DEF D
      <3>2. QED  BY <1>4, <3>1, Least
    <2>2. m # 0 /\ m \in 0 .. Len(saved)  BY <1>3
    <2>3. m - 1 \in 0 .. Len(saved) /\ ~(m <= m - 1)  BY <2>2
    <2>4. f[m - 1] = G[m - 1]  BY <2>1, <2>3
    <2>5. QED  BY <1>3, <2>2, <2>4
  <1>5. f[Len(saved)] = G[Len(saved)]  BY <1>4
  <1>6. QED  BY <1>2, <1>5

-----------------------------------------------------------------------------
(* The reader and the writer's table *)

(* The types of the reader's state. *)
LifeType == [ordinal : Nat, untrusted : BOOLEAN]
ReaderType ==
  [latest : [Pids -> Nat], active : [Pids -> LifeType], missing : SUBSET (Pids \X Nat),
   hasInitial : BOOLEAN, identityUncertain : BOOLEAN, ok : BOOLEAN]

Suspect(origin) == origin \in {"Unintroduced", "Reappeared", "LiveCollision"}
Flagged(gens, g) == Suspect(gens[g].origin)

(* A generation that is live is the newest of its PID and has no exit. *)
Table(gens, live) ==
  /\ gens \in Seq(GenerationType) /\ live \in [Pids -> Nat] /\ Numbered(gens)
  /\ \A p \in Pids : live[p] # 0 =>
       /\ live[p] \in DOMAIN gens /\ gens[live[p]].pid = p /\ gens[live[p]].exit = 0
       /\ \A g \in DOMAIN gens : gens[g].pid = p => g <= live[p]

(* The reader's state is what the table says: as latest ordinal of a PID   *)
(* the number of its generations, as active lifetime the live one, as      *)
(* missing exits the generations without one.                              *)
Agrees(r, gens, live) ==
  /\ r \in ReaderType /\ r.ok = TRUE
  /\ (r.hasInitial = TRUE) <=> DOMAIN gens # {}
  /\ (r.identityUncertain = TRUE) <=> \E g \in DOMAIN gens : Flagged(gens, g)
  /\ \A p \in Pids : r.latest[p] = Cardinality(OfPid(gens, p))
  /\ \A p \in Pids : live[p] = 0 => r.active[p] = NotActive
  /\ \A p \in Pids : live[p] # 0 =>
       /\ r.active[p].ordinal = gens[live[p]].ordinal
       /\ (r.active[p].untrusted = TRUE) <=> Flagged(gens, live[p])
  /\ \A p \in Pids, n \in Nat :
       <<p, n>> \in r.missing <=>
         \E g \in DOMAIN gens : gens[g].exit = 0 /\ gens[g].pid = p /\ gens[g].ordinal = n

(* Another generation, or none, is live in a PID. *)
Moved(lv, live, pid, g) ==
  lv \in [Pids -> Nat] /\ lv[pid] = g /\ \A p \in Pids \ {pid} : lv[p] = live[p]

(* The reader learns of a lifetime, and of its end. *)
Introduces(r, s, pid, ordinal, untrusted) ==
  /\ s \in ReaderType /\ s.ok = TRUE /\ s.hasInitial = TRUE
  /\ (s.identityUncertain = TRUE) <=> (r.identityUncertain = TRUE \/ untrusted = TRUE)
  /\ s.latest[pid] = ordinal /\ \A p \in Pids \ {pid} : s.latest[p] = r.latest[p]
  /\ s.active[pid].ordinal = ordinal /\ s.active[pid].untrusted = untrusted
  /\ \A p \in Pids \ {pid} : s.active[p] = r.active[p]
  /\ s.missing = r.missing \cup {<<pid, ordinal>>}
Retires(r, s, pid, ordinal) ==
  /\ s \in ReaderType /\ s.ok = TRUE /\ s.hasInitial = r.hasInitial
  /\ s.identityUncertain = r.identityUncertain /\ s.latest = r.latest
  /\ s.active[pid] = NotActive /\ \A p \in Pids \ {pid} : s.active[p] = r.active[p]
  /\ s.missing = r.missing \ {<<pid, ordinal>>}

(* The newest generation's ordinal is their number. *)
LEMMA NewestOrdinal ==
  ASSUME NEW gens \in Seq(GenerationType), Numbered(gens), NEW g \in DOMAIN gens,
         \A h \in DOMAIN gens : gens[h].pid = gens[g].pid => h <= g
  PROVE  gens[g].ordinal = Cardinality(OfPid(gens, gens[g].pid))
  <1> DEFINE B == {h \in DOMAIN gens : h < g /\ gens[h].pid = gens[g].pid}
  <1>1. DOMAIN gens \in SUBSET Nat  OBVIOUS
  <1>2. OfPid(gens, gens[g].pid) = B \cup {g}
    BY <1>1 DEF OfPid
  <1>3. g \notin B  BY <1>1
  <1>4. IsFiniteSet(B)
    <2>1. B \in SUBSET OfPid(gens, gens[g].pid)  BY <1>2
    <2>2. QED  BY <2>1, OfPidFinite, FS_Subset
  <1>5. Cardinality(B \cup {g}) = Cardinality(B) + 1
    BY <1>3, <1>4, FS_AddElement
  <1>6. gens[g].ordinal = Cardinality(B) + 1  BY DEF Numbered
  <1>7. QED  BY <1>2, <1>5, <1>6

(* A lifetime that is both added to the table and read. *)
Introduction(gens, live, r, pid, origin, u, s, m, pushed, lv) ==
  /\ Table(gens, live) /\ Agrees(r, gens, live)
  /\ pid \in Pids /\ origin \in Origins /\ u \in BOOLEAN /\ ((u = TRUE) <=> Suspect(origin))
  /\ Introduces(r, s, pid, r.latest[pid] + 1, u)
  /\ m = Len(gens) + 1 /\ Pushed(pushed, gens, pid, origin) /\ Moved(lv, live, pid, m)

(* A new lifetime is read as the generation it was written from. *)
LEMMA IntroduceNew ==
  ASSUME NEW gens, NEW live, NEW r, NEW pid, NEW origin, NEW u, NEW s, NEW m, NEW pushed, NEW lv,
         Introduction(gens, live, r, pid, origin, u, s, m, pushed, lv)
  PROVE  /\ Table(pushed, lv) /\ Agrees(s, pushed, lv)
         /\ pushed[m].ordinal = r.latest[pid] + 1
         /\ m \in DOMAIN pushed /\ m # 0 /\ pushed[m].origin = origin
         /\ \A h \in DOMAIN gens : h \in DOMAIN pushed /\ pushed[h] = gens[h]
  <1>1. /\ Table(gens, live) /\ Agrees(r, gens, live) /\ pid \in Pids /\ origin \in Origins
        /\ u \in BOOLEAN /\ ((u = TRUE) <=> Suspect(origin))
        /\ Introduces(r, s, pid, r.latest[pid] + 1, u)
        /\ m = Len(gens) + 1 /\ Pushed(pushed, gens, pid, origin) /\ Moved(lv, live, pid, m)
    BY DEF Introduction
  <1> USE <1>1
  <1>4. /\ gens \in Seq(GenerationType) /\ live \in [Pids -> Nat] /\ Numbered(gens)
        /\ Len(gens) \in Nat /\ DOMAIN gens = 1 .. Len(gens) /\ m \in Nat
    BY DEF Table
  <1>6. /\ pushed \in Seq(GenerationType) /\ DOMAIN pushed = DOMAIN gens \cup {m}
        /\ m \notin DOMAIN gens /\ m # 0
        /\ \A h \in DOMAIN gens : pushed[h] = gens[h]
        /\ pushed[m].pid = pid /\ pushed[m].exit = 0 /\ pushed[m].origin = origin
        /\ Numbered(pushed)
    BY <1>4 DEF Pushed
  <1>7. \A h \in DOMAIN gens : h < m  BY <1>4
  <1>8. /\ lv \in [Pids -> Nat] /\ lv[pid] = m
        /\ \A p \in Pids \ {pid} : lv[p] = live[p]
    BY DEF Moved
  <1>9. r.latest[pid] = Cardinality(OfPid(gens, pid))  BY DEF Agrees
  <1>10. OfPid(pushed, pid) = OfPid(gens, pid) \cup {m} /\ m \notin OfPid(gens, pid)
    BY <1>6 DEF OfPid
  <1>11. \A p \in Pids \ {pid} : OfPid(pushed, p) = OfPid(gens, p)
    BY <1>6 DEF OfPid
  <1>12. Cardinality(OfPid(pushed, pid)) = r.latest[pid] + 1
    <2>1. IsFiniteSet(OfPid(gens, pid))  BY <1>4, OfPidFinite
    <2>2. Cardinality(OfPid(gens, pid) \cup {m}) = Cardinality(OfPid(gens, pid)) + 1
      BY <1>10, <2>1, FS_AddElement
    <2>3. QED  BY <1>9, <1>10, <2>2
  <1>13. pushed[m].ordinal = r.latest[pid] + 1
    <2>1. m \in DOMAIN pushed /\ \A h \in DOMAIN pushed : h <= m  BY <1>4, <1>6, <1>7
    <2>2. QED  BY <1>6, <1>12, <2>1, NewestOrdinal
  <1>14. Table(pushed, lv)
    <2>1. ASSUME NEW p \in Pids, lv[p] # 0
          PROVE  /\ lv[p] \in DOMAIN pushed /\ pushed[lv[p]].pid = p /\ pushed[lv[p]].exit = 0
                 /\ \A g \in DOMAIN pushed : pushed[g].pid = p => g <= lv[p]
      <3>1. CASE p = pid
        <4>1. \A g \in DOMAIN pushed : g <= m  BY <1>4, <1>6, <1>7
        <4>2. QED  BY <1>6, <1>8, <3>1, <4>1
      <3>2. CASE p # pid
        <4>1. lv[p] = live[p] /\ live[p] # 0  BY <1>8, <2>1, <3>2
        <4>2. /\ live[p] \in DOMAIN gens /\ gens[live[p]].pid = p /\ gens[live[p]].exit = 0
              /\ \A g \in DOMAIN gens : gens[g].pid = p => g <= live[p]
          BY <4>1 DEF Table
        <4>3. QED  BY <1>6, <3>2, <4>1, <4>2
      <3>3. QED  BY <3>1, <3>2
    <2>2. QED  BY <1>6, <1>8, <2>1 DEF Table
  <1>15. Agrees(s, pushed, lv)
    <2>1. s \in ReaderType /\ s.ok = TRUE /\ s.hasInitial = TRUE /\ DOMAIN pushed # {}
      BY <1>6 DEF Introduces
    <2>2. (s.identityUncertain = TRUE) <=> \E g \in DOMAIN pushed : Flagged(pushed, g)
      <3>1. (\E g \in DOMAIN pushed : Flagged(pushed, g)) <=>
              ((\E g \in DOMAIN gens : Flagged(gens, g)) \/ u = TRUE)
        BY <1>6 DEF Flagged
      <3>2. QED  BY <3>1 DEF Introduces, Agrees
    <2>3. \A p \in Pids : s.latest[p] = Cardinality(OfPid(pushed, p))
      BY <1>11, <1>12 DEF Introduces, Agrees
    <2>4. \A p \in Pids : lv[p] = 0 => s.active[p] = NotActive
      BY <1>6, <1>8 DEF Introduces, Agrees
    <2>5. ASSUME NEW p \in Pids, lv[p] # 0
          PROVE  /\ s.active[p].ordinal = pushed[lv[p]].ordinal
                 /\ (s.active[p].untrusted = TRUE) <=> Flagged(pushed, lv[p])
      <3>1. CASE p = pid
        BY <1>6, <1>8, <1>13, <3>1 DEF Introduces, Flagged
      <3>2. CASE p # pid
        <4>1. lv[p] = live[p] /\ live[p] \in DOMAIN gens /\ live[p] # 0
          BY <1>8, <2>5, <3>2 DEF Table
        <4>2. pushed[lv[p]] = gens[live[p]] /\ s.active[p] = r.active[p]
          BY <1>6, <3>2, <4>1 DEF Introduces
        <4>3. QED  BY <4>1, <4>2 DEF Agrees, Flagged
      <3>3. QED  BY <3>1, <3>2
    <2>6. ASSUME NEW p \in Pids, NEW n \in Nat
          PROVE  <<p, n>> \in s.missing <=>
                   \E g \in DOMAIN pushed :
                     pushed[g].exit = 0 /\ pushed[g].pid = p /\ pushed[g].ordinal = n
      <3>1. <<p, n>> \in s.missing <=> (<<p, n>> \in r.missing \/ (p = pid /\ n = r.latest[pid] + 1))
        BY DEF Introduces
      <3>2. (\E g \in DOMAIN pushed : pushed[g].exit = 0 /\ pushed[g].pid = p /\ pushed[g].ordinal = n)
              <=> \/ \E g \in DOMAIN gens : gens[g].exit = 0 /\ gens[g].pid = p /\ gens[g].ordinal = n
                  \/ p = pid /\ n = r.latest[pid] + 1
        BY <1>6, <1>13
      <3>3. QED  BY <3>1, <3>2 DEF Agrees
    <2>7. QED  BY <2>1, <2>2, <2>3, <2>4, <2>5, <2>6 DEF Agrees
  <1>16. QED  BY <1>6, <1>13, <1>14, <1>15

(* A live lifetime met again adds nothing. *)
LEMMA IntroduceKnown ==
  ASSUME NEW gens, NEW live, Table(gens, live), NEW r, Agrees(r, gens, live),
         NEW pid \in Pids, live[pid] # 0,
         NEW s, Introduces(r, s, pid, r.active[pid].ordinal, r.active[pid].untrusted)
  PROVE  Agrees(s, gens, live)
  <1>1. PICK g \in DOMAIN gens : g = live[pid] /\ gens[g].pid = pid /\ gens[g].exit = 0
    BY DEF Table
  <1>2. r.active[pid].ordinal = gens[g].ordinal /\ (r.active[pid].untrusted = TRUE <=> Flagged(gens, g))
    BY <1>1 DEF Agrees
  <1>3. s \in ReaderType /\ s.ok = TRUE /\ s.hasInitial = TRUE /\ DOMAIN gens # {}
    BY <1>1 DEF Introduces
  <1>4. (s.identityUncertain = TRUE) <=> \E h \in DOMAIN gens : Flagged(gens, h)
    BY <1>2 DEF Introduces, Agrees
  <1>5. \A p \in Pids : s.latest[p] = Cardinality(OfPid(gens, p))
    <2>1. gens[g].ordinal = Cardinality(OfPid(gens, pid))
      BY <1>1, NewestOrdinal DEF Table
    <2>2. QED  BY <1>2, <2>1 DEF Introduces, Agrees
  <1>6. \A p \in Pids : live[p] = 0 => s.active[p] = NotActive
    BY DEF Introduces, Agrees
  <1>7. \A p \in Pids : live[p] # 0 =>
          /\ s.active[p].ordinal = gens[live[p]].ordinal
          /\ (s.active[p].untrusted = TRUE) <=> Flagged(gens, live[p])
    BY <1>1, <1>2 DEF Introduces, Agrees
  <1>8. ASSUME NEW p \in Pids, NEW n \in Nat
        PROVE  <<p, n>> \in s.missing <=>
                 \E h \in DOMAIN gens : gens[h].exit = 0 /\ gens[h].pid = p /\ gens[h].ordinal = n
    <2>1. <<p, n>> \in s.missing <=> (<<p, n>> \in r.missing \/ (p = pid /\ n = gens[g].ordinal))
      BY <1>2 DEF Introduces
    <2>2. QED  BY <1>1, <2>1 DEF Agrees
  <1>9. QED  BY <1>3, <1>4, <1>5, <1>6, <1>7, <1>8 DEF Agrees

(* An end that is both noted in the table and read. *)
Retirement(gens, live, r, pid, i, s, noted, lv) ==
  /\ Table(gens, live) /\ Agrees(r, gens, live)
  /\ pid \in Pids /\ live[pid] # 0 /\ i \in Nat /\ i # 0
  /\ Retires(r, s, pid, r.active[pid].ordinal)
  /\ Noted(noted, gens, live[pid], i) /\ Moved(lv, live, pid, 0)

(* An exit is read as it was noted. *)
LEMMA RetireLive ==
  ASSUME NEW gens, NEW live, NEW r, NEW pid, NEW i, NEW s, NEW noted, NEW lv,
         Retirement(gens, live, r, pid, i, s, noted, lv)
  PROVE  /\ Table(noted, lv) /\ Agrees(s, noted, lv)
         /\ DOMAIN noted = DOMAIN gens
         /\ \A h \in DOMAIN gens : noted[h].ordinal = gens[h].ordinal /\ noted[h].origin = gens[h].origin
  <1>0. /\ Table(gens, live) /\ Agrees(r, gens, live)
        /\ pid \in Pids /\ live[pid] # 0 /\ i \in Nat /\ i # 0
        /\ Retires(r, s, pid, r.active[pid].ordinal)
        /\ Noted(noted, gens, live[pid], i) /\ Moved(lv, live, pid, 0)
    BY DEF Retirement
  <1> USE <1>0
  <1>1. PICK g \in DOMAIN gens : g = live[pid] /\ gens[g].pid = pid /\ gens[g].exit = 0
    BY DEF Table
  <1>4. gens \in Seq(GenerationType) /\ live \in [Pids -> Nat] /\ Numbered(gens)  BY DEF Table
  <1>5. Noted(noted, gens, g, i)  BY <1>1
  <1>6. /\ noted \in Seq(GenerationType) /\ DOMAIN noted = DOMAIN gens /\ Numbered(noted)
        /\ \A h \in DOMAIN gens : /\ noted[h].pid = gens[h].pid
                                  /\ noted[h].origin = gens[h].origin
                                  /\ h # g => noted[h] = gens[h]
        /\ noted[g].exit = i
    BY <1>4, <1>5 DEF Noted
  <1>7. noted[g].ordinal = gens[g].ordinal
    <2>1. {h \in DOMAIN noted : h < g /\ noted[h].pid = noted[g].pid}
            = {h \in DOMAIN gens : h < g /\ gens[h].pid = gens[g].pid}
      BY <1>6
    <2>2. QED  BY <1>4, <1>6, <2>1 DEF Numbered
  <1>8. \A h \in DOMAIN gens : noted[h].ordinal = gens[h].ordinal  BY <1>6, <1>7
  <1>9. lv \in [Pids -> Nat] /\ lv[pid] = 0 /\ \A p \in Pids \ {pid} : lv[p] = live[p]
    BY DEF Moved
  <1>10. ASSUME NEW p \in Pids, lv[p] # 0
         PROVE  /\ p # pid /\ lv[p] = live[p] /\ live[p] # 0 /\ live[p] # g /\ live[p] \in DOMAIN gens
                /\ noted[lv[p]] = gens[live[p]]
    <2>1. p # pid /\ lv[p] = live[p] /\ live[p] # 0  BY <1>9, <1>10
    <2>2. live[p] \in DOMAIN gens /\ gens[live[p]].pid = p  BY <2>1 DEF Table
    <2>3. live[p] # g  BY <1>1, <2>1, <2>2
    <2>4. QED  BY <1>6, <2>1, <2>2, <2>3
  <1>11. Table(noted, lv)
    <2>1. ASSUME NEW p \in Pids, lv[p] # 0
          PROVE  /\ lv[p] \in DOMAIN noted /\ noted[lv[p]].pid = p /\ noted[lv[p]].exit = 0
                 /\ \A h \in DOMAIN noted : noted[h].pid = p => h <= lv[p]
      BY <1>6, <1>10, <2>1 DEF Table
    <2>2. QED  BY <1>6, <1>9, <2>1 DEF Table
  <1>12. Agrees(s, noted, lv)
    <2>1. s \in ReaderType /\ s.ok = TRUE /\ ((s.hasInitial = TRUE) <=> DOMAIN noted # {})
      BY <1>6 DEF Retires, Agrees
    <2>2. (s.identityUncertain = TRUE) <=> \E h \in DOMAIN noted : Flagged(noted, h)
      BY <1>6 DEF Retires, Agrees, Flagged
    <2>3. \A p \in Pids : s.latest[p] = Cardinality(OfPid(noted, p))
      <3>1. \A p \in Pids : OfPid(noted, p) = OfPid(gens, p)  BY <1>6 DEF OfPid
      <3>2. QED  BY <3>1 DEF Retires, Agrees
    <2>4. \A p \in Pids : lv[p] = 0 => s.active[p] = NotActive
      BY <1>9 DEF Retires, Agrees
    <2>5. \A p \in Pids : lv[p] # 0 =>
            /\ s.active[p].ordinal = noted[lv[p]].ordinal
            /\ (s.active[p].untrusted = TRUE) <=> Flagged(noted, lv[p])
      BY <1>10 DEF Retires, Agrees, Flagged
    <2>6. ASSUME NEW p \in Pids, NEW n \in Nat
          PROVE  <<p, n>> \in s.missing <=>
                   \E h \in DOMAIN noted : noted[h].exit = 0 /\ noted[h].pid = p /\ noted[h].ordinal = n
      <3>0. r.active[pid].ordinal = gens[g].ordinal  BY <1>1 DEF Agrees
      <3>1. <<p, n>> \in s.missing <=> (<<p, n>> \in r.missing /\ ~(p = pid /\ n = gens[g].ordinal))
        BY <3>0 DEF Retires
      <3>2. <<p, n>> \in r.missing <=>
              \E h \in DOMAIN gens : gens[h].exit = 0 /\ gens[h].pid = p /\ gens[h].ordinal = n
        BY DEF Agrees
      <3>3. \A h \in DOMAIN gens : gens[h].pid = pid /\ gens[h].ordinal = gens[g].ordinal => h = g
        BY <1>1, <1>4, OrdinalsName
      <3>4. \A h \in DOMAIN gens :
              noted[h].exit = 0 <=> (gens[h].exit = 0 /\ h # g)
        BY <1>6
      <3>5. QED  BY <1>1, <1>6, <1>8, <3>1, <3>2, <3>3, <3>4
    <2>7. QED  BY <2>1, <2>2, <2>3, <2>4, <2>5, <2>6 DEF Agrees
  <1>13. QED  BY <1>6, <1>8, <1>11, <1>12

-----------------------------------------------------------------------------
(* One event read *)

(* What the reader expects of an actor, and how it trusts it. *)
Known(r, p) == r.active[p] # NotActive
Expected(r, p) == IF Known(r, p) THEN r.active[p].ordinal ELSE r.latest[p] + 1
Distrusts(r, p) == IF Known(r, p) THEN r.active[p].untrusted ELSE r.hasInitial

(* The state after an actor, field by field. *)
LEMMA ActorRead ==
  ASSUME NEW r \in ReaderType, NEW e, e.pid \in Pids, e.taskGeneration \in Nat
  PROVE  LET s == ReadActor(r, e)
         IN /\ s \in ReaderType
            /\ (s.ok = TRUE) <=> /\ r.ok = TRUE /\ e.taskGeneration = Expected(r, e.pid)
                                 /\ Distrusts(r, e.pid) = TRUE => e.uncertain
            /\ s.hasInitial = TRUE
            /\ (s.identityUncertain = TRUE) <=>
                 (r.identityUncertain = TRUE \/ Distrusts(r, e.pid) = TRUE)
            /\ s.latest = [r.latest EXCEPT ![e.pid] = e.taskGeneration]
            /\ s.active = [r.active EXCEPT ![e.pid] =
                 IF e.kind = "exit" THEN NotActive
                 ELSE [ordinal |-> e.taskGeneration, untrusted |-> Distrusts(r, e.pid)]]
            /\ s.missing = IF e.kind = "exit" THEN r.missing \ {<<e.pid, e.taskGeneration>>}
                           ELSE r.missing \cup {<<e.pid, e.taskGeneration>>}
  <1>1. PICK known : known = Known(r, e.pid)  OBVIOUS
  <1>2. PICK u \in BOOLEAN : u = Distrusts(r, e.pid)
    BY DEF Distrusts, ReaderType, LifeType
  <1>3. PICK x \in Nat : x = Expected(r, e.pid)
    BY DEF Expected, ReaderType, LifeType
  <1>4. ReadActor(r, e) =
          [r EXCEPT !.ok = @ /\ e.taskGeneration = Expected(r, e.pid) /\ (Distrusts(r, e.pid) => e.uncertain),
                    !.hasInitial = TRUE,
                    !.identityUncertain = @ \/ Distrusts(r, e.pid),
                    !.latest[e.pid] = e.taskGeneration,
                    !.active[e.pid] = IF e.kind = "exit" THEN NotActive
                                      ELSE [ordinal |-> e.taskGeneration, untrusted |-> Distrusts(r, e.pid)],
                    !.missing = IF e.kind = "exit" THEN @ \ {<<e.pid, e.taskGeneration>>}
                                ELSE @ \cup {<<e.pid, e.taskGeneration>>}]
    BY Zenon DEF ReadActor, Expected, Distrusts, Known
  <1>5. PICK act \in [Pids -> LifeType] :
          act = [r.active EXCEPT ![e.pid] =
                                  IF e.kind = "exit" THEN NotActive
                                  ELSE [ordinal |-> e.taskGeneration, untrusted |-> u]]
    BY DEF ReaderType, LifeType, NotActive
  <1>6. PICK mis \in SUBSET (Pids \X Nat) :
          mis = IF e.kind = "exit" THEN r.missing \ {<<e.pid, e.taskGeneration>>}
                           ELSE r.missing \cup {<<e.pid, e.taskGeneration>>}
    <2>1. r.missing \in SUBSET (Pids \X Nat)  BY DEF ReaderType
    <2>2. <<e.pid, e.taskGeneration>> \in Pids \X Nat  OBVIOUS
    <2>3. QED  BY <2>1, <2>2
  <1>7. PICK lat \in [Pids -> Nat] : lat = [r.latest EXCEPT ![e.pid] = e.taskGeneration]
    BY DEF ReaderType
  <1>8. PICK good \in BOOLEAN : good = (r.ok /\ e.taskGeneration = x /\ (u => e.uncertain))
    OBVIOUS
  <1>9. PICK unc \in BOOLEAN : unc = (r.identityUncertain \/ u)
    OBVIOUS
  <1>10. ReadActor(r, e) = [latest |-> lat, active |-> act, missing |-> mis,
                            hasInitial |-> TRUE, identityUncertain |-> unc, ok |-> good]
    BY <1>2, <1>3, <1>4, <1>5, <1>6, <1>7, <1>8, <1>9 DEF ReaderType
  <1>11. ReadActor(r, e) \in ReaderType  BY <1>10 DEF ReaderType
  <1>12. (good = TRUE) <=> /\ r.ok = TRUE /\ e.taskGeneration = x /\ (u = TRUE => e.uncertain)
    BY <1>8 DEF ReaderType
  <1>13. (unc = TRUE) <=> (r.identityUncertain = TRUE \/ u = TRUE)
    BY <1>9 DEF ReaderType
  <1>14. QED  BY <1>2, <1>3, <1>5, <1>6, <1>7, <1>10, <1>11, <1>12, <1>13

(* The state after a child that the reader accepts. *)
LEMMA ChildRead ==
  ASSUME NEW r \in ReaderType, NEW e, e.childPid \in Pids, e.childGeneration \in Nat
  PROVE  LET s == ReadChild(r, e)
         IN /\ s \in ReaderType
            /\ (s.ok = TRUE) <=> /\ r.ok = TRUE /\ e.childGeneration = r.latest[e.childPid] + 1
                                 /\ Known(r, e.childPid) => e.uncertain
            /\ s.hasInitial = r.hasInitial
            /\ (s.identityUncertain = TRUE) <=>
                 (r.identityUncertain = TRUE \/ Known(r, e.childPid))
            /\ s.latest = [r.latest EXCEPT ![e.childPid] = e.childGeneration]
            /\ s.active = [r.active EXCEPT ![e.childPid] =
                 [ordinal |-> e.childGeneration, untrusted |-> Known(r, e.childPid)]]
            /\ s.missing = r.missing \cup {<<e.childPid, e.childGeneration>>}
  <1>1. PICK u \in BOOLEAN : u = Known(r, e.childPid)
    BY DEF Known
  <1>2. ReadChild(r, e) =
          [r EXCEPT !.ok = @ /\ e.childGeneration = r.latest[e.childPid] + 1
                             /\ (Known(r, e.childPid) => e.uncertain),
                    !.identityUncertain = @ \/ Known(r, e.childPid),
                    !.latest[e.childPid] = e.childGeneration,
                    !.active[e.childPid] = [ordinal |-> e.childGeneration, untrusted |-> Known(r, e.childPid)],
                    !.missing = @ \cup {<<e.childPid, e.childGeneration>>}]
    BY Zenon DEF ReadChild, Known
  <1>3. PICK act \in [Pids -> LifeType] :
          act = [r.active EXCEPT ![e.childPid] = [ordinal |-> e.childGeneration, untrusted |-> u]]
    BY DEF ReaderType, LifeType
  <1>4. PICK mis \in SUBSET (Pids \X Nat) : mis = r.missing \cup {<<e.childPid, e.childGeneration>>}
    <2>1. r.missing \in SUBSET (Pids \X Nat)  BY DEF ReaderType
    <2>2. <<e.childPid, e.childGeneration>> \in Pids \X Nat  OBVIOUS
    <2>3. QED  BY <2>1, <2>2
  <1>5. PICK lat \in [Pids -> Nat] : lat = [r.latest EXCEPT ![e.childPid] = e.childGeneration]
    BY DEF ReaderType
  <1>6. PICK good \in BOOLEAN :
          good = (r.ok /\ e.childGeneration = r.latest[e.childPid] + 1 /\ (u => e.uncertain))
    OBVIOUS
  <1>7. PICK unc \in BOOLEAN : unc = (r.identityUncertain \/ u)
    OBVIOUS
  <1>8. ReadChild(r, e) = [latest |-> lat, active |-> act, missing |-> mis,
                           hasInitial |-> r.hasInitial, identityUncertain |-> unc, ok |-> good]
    BY <1>1, <1>2, <1>3, <1>4, <1>5, <1>6, <1>7 DEF ReaderType
  <1>9. ReadChild(r, e) \in ReaderType  BY <1>8 DEF ReaderType
  <1>10. (good = TRUE) <=> /\ r.ok = TRUE /\ e.childGeneration = r.latest[e.childPid] + 1
                           /\ (u = TRUE => e.uncertain)
    BY <1>6 DEF ReaderType
  <1>11. (unc = TRUE) <=> (r.identityUncertain = TRUE \/ u = TRUE)
    BY <1>7 DEF ReaderType
  <1>12. QED  BY <1>1, <1>3, <1>4, <1>5, <1>8, <1>9, <1>10, <1>11

(* The reader knows a PID's lifetime when the writer does. *)
LEMMA KnownIsLive ==
  ASSUME NEW gens, NEW live, Table(gens, live), NEW r, Agrees(r, gens, live), NEW p \in Pids
  PROVE  Known(r, p) <=> live[p] # 0
  <1>1. CASE live[p] = 0  BY <1>1 DEF Agrees, Known
  <1>2. CASE live[p] # 0
    <2>1. PICK g \in DOMAIN gens : g = live[p]  BY <1>2 DEF Table
    <2>2. gens \in Seq(GenerationType) /\ Numbered(gens)  BY DEF Table
    <2>3. /\ gens[g].ordinal = Cardinality({h \in DOMAIN gens : h < g /\ gens[h].pid = gens[g].pid}) + 1
          /\ Cardinality({h \in DOMAIN gens : h < g /\ gens[h].pid = gens[g].pid}) \in Nat
      <3>1. {h \in DOMAIN gens : h < g /\ gens[h].pid = gens[g].pid} \in SUBSET OfPid(gens, gens[g].pid)
        BY DEF OfPid
      <3>2. IsFiniteSet({h \in DOMAIN gens : h < g /\ gens[h].pid = gens[g].pid})
        BY <2>2, <3>1, OfPidFinite, FS_Subset
      <3>3. QED  BY <2>2, <3>2, FS_CardinalityType DEF Numbered
    <2>4. gens[g].ordinal # 0  BY <2>3
    <2>5. r.active[p].ordinal = gens[g].ordinal  BY <1>2, <2>1 DEF Agrees
    <2>6. NotActive.ordinal = 0  BY DEF NotActive
    <2>7. QED  BY <1>2, <2>4, <2>5, <2>6 DEF Known
  <1>3. QED  BY <1>1, <1>2

(* A lifetime can always be introduced. *)
LEMMA Introducible ==
  ASSUME NEW r \in ReaderType, NEW pid \in Pids, NEW x \in Nat, NEW u \in BOOLEAN
  PROVE  \E s : Introduces(r, s, pid, x, u)
  <1>1. PICK act \in [Pids -> LifeType] :
          act = [r.active EXCEPT ![pid] = [ordinal |-> x, untrusted |-> u]]
    BY DEF ReaderType, LifeType
  <1>2. PICK mis \in SUBSET (Pids \X Nat) : mis = r.missing \cup {<<pid, x>>}
    <2>1. r.missing \in SUBSET (Pids \X Nat)  BY DEF ReaderType
    <2>2. <<pid, x>> \in Pids \X Nat  OBVIOUS
    <2>3. QED  BY <2>1, <2>2
  <1>3. PICK lat \in [Pids -> Nat] : lat = [r.latest EXCEPT ![pid] = x]  BY DEF ReaderType
  <1>4. PICK unc \in BOOLEAN : unc = (r.identityUncertain = TRUE \/ u = TRUE)  OBVIOUS
  <1>5. PICK s : s = [latest |-> lat, active |-> act, missing |-> mis,
                      hasInitial |-> TRUE, identityUncertain |-> unc, ok |-> TRUE]
    OBVIOUS
  <1>6. s \in ReaderType  BY <1>5 DEF ReaderType
  <1>7. /\ lat[pid] = x /\ \A p \in Pids \ {pid} : lat[p] = r.latest[p]
        /\ act[pid].ordinal = x /\ act[pid].untrusted = u
        /\ \A p \in Pids \ {pid} : act[p] = r.active[p]
    BY <1>1, <1>3 DEF ReaderType
  <1>8. Introduces(r, s, pid, x, u)
    BY <1>2, <1>4, <1>5, <1>6, <1>7 DEF Introduces
  <1>9. QED  BY <1>8

(* The actor's generation is the one the reader expects. *)
LEMMA ActorExpected ==
  ASSUME Table(generations, active), NEW r, Agrees(r, generations, active), NEW e \in EventType
  PROVE  LET w == WithActor(e)
         IN /\ Table(w.gens, w.live) /\ w.id \in DOMAIN w.gens /\ w.id # 0
            /\ w.live[e.pid] = w.id
            /\ w.gens[w.id].ordinal = Expected(r, e.pid)
            /\ Flagged(w.gens, w.id) <=> Distrusts(r, e.pid) = TRUE
            /\ \A mid : Introduces(r, mid, e.pid, Expected(r, e.pid), Distrusts(r, e.pid))
                          => Agrees(mid, w.gens, w.live)
  <1>1. e.pid \in Pids  BY DEF EventType
  <1>2. /\ generations \in Seq(GenerationType) /\ active \in [Pids -> Nat]
        /\ r \in ReaderType
    BY DEF Table, Agrees
  <1>3. CASE active[e.pid] # 0
    <2>1. PICK g \in DOMAIN generations : g = active[e.pid]  BY <1>1, <1>3 DEF Table
    <2>2. WithActor(e) = [id |-> g, gens |-> generations, live |-> active]
      BY <1>3, <2>1 DEF WithActor
    <2>3. Known(r, e.pid)  BY <1>1, <1>3, KnownIsLive
    <2>4. /\ Expected(r, e.pid) = r.active[e.pid].ordinal
          /\ Distrusts(r, e.pid) = r.active[e.pid].untrusted
      BY <2>3 DEF Expected, Distrusts
    <2>5. /\ r.active[e.pid].ordinal = generations[g].ordinal
          /\ (r.active[e.pid].untrusted = TRUE) <=> Flagged(generations, g)
      BY <1>1, <1>3, <2>1 DEF Agrees
    <2>6. \A mid : Introduces(r, mid, e.pid, r.active[e.pid].ordinal, r.active[e.pid].untrusted)
                     => Agrees(mid, generations, active)
      BY <1>1, <1>3, IntroduceKnown
    <2>7. g # 0  BY <1>3, <2>1
    <2>8. QED  BY <2>1, <2>2, <2>4, <2>5, <2>6, <2>7
  <1>4. CASE active[e.pid] = 0
    <2>1. PICK origin \in Origins : origin = ActorOrigin(e.pid)
      BY DEF ActorOrigin, Origins
    <2>2. PICK m : m = Len(generations) + 1  OBVIOUS
    <2>3. PICK pushed : pushed = PushGeneration(generations, e.pid, origin)  OBVIOUS
    <2>4. PICK lv : lv = [active EXCEPT ![e.pid] = m]  OBVIOUS
    <2>5. WithActor(e) = [id |-> m, gens |-> pushed, live |-> lv]
      BY <1>4, <2>1, <2>2, <2>3, <2>4 DEF WithActor
    <2>6. ~Known(r, e.pid)  BY <1>1, <1>4, KnownIsLive
    <2>7. Expected(r, e.pid) = r.latest[e.pid] + 1 /\ Distrusts(r, e.pid) = r.hasInitial
      BY <2>6 DEF Expected, Distrusts
    <2>8. r.hasInitial \in BOOLEAN /\ r.latest[e.pid] + 1 \in Nat
      BY <1>1, <1>2 DEF ReaderType
    <2>9. (r.hasInitial = TRUE) <=> Suspect(origin)
      <3>1. (r.hasInitial = TRUE) <=> DOMAIN generations # {}  BY DEF Agrees
      <3>2. CASE generations = <<>>
        <4>1. origin = "Initial"  BY <2>1, <3>2 DEF ActorOrigin
        <4>2. DOMAIN generations = {}  BY <3>2
        <4>3. QED  BY <3>1, <4>1, <4>2 DEF Suspect
      <3>3. CASE generations # <<>>
        <4>1. origin = "Reappeared" \/ origin = "Unintroduced"  BY <2>1, <3>3 DEF ActorOrigin
        <4>2. DOMAIN generations # {}
          <5>1. Len(generations) \in Nat /\ DOMAIN generations = 1 .. Len(generations)  BY <1>2
          <5>2. Len(generations) # 0  BY <1>2, <3>3
          <5>3. 1 \in DOMAIN generations  BY <5>1, <5>2
          <5>4. QED  BY <5>3
        <4>3. QED  BY <3>1, <4>1, <4>2 DEF Suspect
      <3>4. QED  BY <3>2, <3>3
    <2>10. ASSUME NEW mid, Introduces(r, mid, e.pid, r.latest[e.pid] + 1, r.hasInitial)
           PROVE  /\ Table(pushed, lv) /\ Agrees(mid, pushed, lv)
                  /\ pushed[m].ordinal = r.latest[e.pid] + 1
                  /\ m \in DOMAIN pushed /\ m # 0 /\ pushed[m].origin = origin
      <3>1. Pushed(pushed, generations, e.pid, origin)  BY <1>1, <1>2, <2>3, PushFacts
      <3>2. Moved(lv, active, e.pid, m)
        <4>1. m \in Nat  BY <1>2, <2>2
        <4>2. QED  BY <1>1, <1>2, <2>4, <4>1 DEF Moved
      <3>3. PICK u \in BOOLEAN : u = r.hasInitial  BY <2>8
      <3>4. /\ (u = TRUE) <=> Suspect(origin)
            /\ Introduces(r, mid, e.pid, r.latest[e.pid] + 1, u)
        BY <2>9, <2>10, <3>3
      <3>5. /\ Table(pushed, lv) /\ Agrees(mid, pushed, lv)
            /\ pushed[m].ordinal = r.latest[e.pid] + 1
            /\ m \in DOMAIN pushed /\ m # 0 /\ pushed[m].origin = origin
        <4>1. Introduction(generations, active, r, e.pid, origin, u, mid, m, pushed, lv)
          BY <1>1, <2>2, <3>1, <3>2, <3>4 DEF Introduction
        <4>2. QED  BY <4>1, IntroduceNew
      <3>6. QED  BY <3>5
    <2>11. PICK some : Introduces(r, some, e.pid, r.latest[e.pid] + 1, r.hasInitial)
      BY <1>1, <1>2, <2>8, Introducible
    <2>12. /\ Table(pushed, lv) /\ pushed[m].ordinal = r.latest[e.pid] + 1
           /\ m \in DOMAIN pushed /\ m # 0 /\ pushed[m].origin = origin
      BY <2>10, <2>11
    <2>13. lv[e.pid] = m  BY <1>1, <1>2, <2>4
    <2>14. Flagged(pushed, m) <=> r.hasInitial = TRUE  BY <2>9, <2>12 DEF Flagged
    <2>15. QED  BY <2>5, <2>7, <2>10, <2>12, <2>13, <2>14
  <1>5. QED  BY <1>3, <1>4

(* The reader has a reason to ask for a mark. *)
Marks(r, e) ==
  \/ Distrusts(r, e.pid) = TRUE
  \/ e.childPid # NoPid /\ Known(ReadActor(r, e), e.childPid)

(* A row as it is saved of event e, handled with the result t. *)
RowOf(row, e, t) ==
  /\ row.pid = e.pid /\ row.kind = e.kind /\ row.childPid = e.childPid
  /\ row.taskGeneration = t.gens[t.id].ordinal
  /\ t.spawned # 0 => row.childGeneration = t.gens[t.spawned].ordinal
  /\ row.uncertain <=> \/ Flagged(t.gens, t.id)
                       \/ t.spawned # 0 /\ t.gens[t.spawned].origin = "LiveCollision"

(* The reader after the actor agrees with the table after the actor and,   *)
(* if the event is one, its exit.                                          *)
LEMMA ActorAgrees ==
  ASSUME Table(generations, active), NEW r, Agrees(r, generations, active),
         NEW e \in EventType, NEW n \in Nat, n # 0,
         NEW w, w = WithExit(e, n, WithActor(e)),
         NEW row, row.pid = e.pid, row.kind = e.kind,
         row.taskGeneration = w.gens[w.id].ordinal, Flagged(w.gens, w.id) => row.uncertain
  PROVE  /\ Table(w.gens, w.live) /\ Agrees(ReadActor(r, row), w.gens, w.live)
         /\ w.id \in DOMAIN w.gens /\ (Flagged(w.gens, w.id) <=> Distrusts(r, e.pid) = TRUE)
  <1>1. PICK v : v = WithActor(e)  OBVIOUS
  <1>2. PICK x : x = Expected(r, e.pid)  OBVIOUS
  <1>3. PICK u : u = Distrusts(r, e.pid)  OBVIOUS
  <1>4. /\ Table(v.gens, v.live) /\ v.id \in DOMAIN v.gens /\ v.id # 0
        /\ v.live[e.pid] = v.id /\ v.gens[v.id].ordinal = x
        /\ Flagged(v.gens, v.id) <=> u = TRUE
        /\ \A mid : Introduces(r, mid, e.pid, x, u) => Agrees(mid, v.gens, v.live)
    BY <1>1, <1>2, <1>3, ActorExpected
  <1>5. e.pid \in Pids /\ r \in ReaderType /\ r.ok = TRUE  BY DEF EventType, Agrees
  <1>6. x \in Nat /\ u \in BOOLEAN
    BY <1>2, <1>3, <1>5 DEF Expected, Distrusts, ReaderType, LifeType
  <1>7. PICK mid : Introduces(r, mid, e.pid, x, u)  BY <1>5, <1>6, Introducible
  <1>8. Agrees(mid, v.gens, v.live)  BY <1>4, <1>7
  <1>9. /\ v.gens \in Seq(GenerationType) /\ v.live \in [Pids -> Nat]  BY <1>4 DEF Table
  <1>10. CASE e.kind # "exit"
    <2>1. w = v  BY <1>1, <1>10 DEF WithExit
    <2>2. row.taskGeneration = x /\ (u = TRUE => row.uncertain)  BY <1>4, <2>1
    <2>3. PICK s : s = ReadActor(r, row)  OBVIOUS
    <2>4. /\ s \in ReaderType /\ s.ok = TRUE /\ s.hasInitial = TRUE
          /\ (s.identityUncertain = TRUE) <=> (r.identityUncertain = TRUE \/ u = TRUE)
          /\ s.latest = [r.latest EXCEPT ![e.pid] = x]
          /\ s.active = [r.active EXCEPT ![e.pid] = [ordinal |-> x, untrusted |-> u]]
          /\ s.missing = r.missing \cup {<<e.pid, x>>}
      <3>1. row.pid \in Pids /\ row.taskGeneration \in Nat  BY <1>5, <1>6, <2>2
      <3>2. /\ s \in ReaderType
            /\ (s.ok = TRUE) <=> /\ r.ok = TRUE /\ row.taskGeneration = Expected(r, row.pid)
                                 /\ Distrusts(r, row.pid) = TRUE => row.uncertain
            /\ s.hasInitial = TRUE
            /\ (s.identityUncertain = TRUE) <=>
                 (r.identityUncertain = TRUE \/ Distrusts(r, row.pid) = TRUE)
            /\ s.latest = [r.latest EXCEPT ![row.pid] = row.taskGeneration]
            /\ s.active = [r.active EXCEPT ![row.pid] =
                 IF row.kind = "exit" THEN NotActive
                 ELSE [ordinal |-> row.taskGeneration, untrusted |-> Distrusts(r, row.pid)]]
            /\ s.missing = IF row.kind = "exit" THEN r.missing \ {<<row.pid, row.taskGeneration>>}
                           ELSE r.missing \cup {<<row.pid, row.taskGeneration>>}
        BY <1>5, <2>3, <3>1, ActorRead
      <3>3. QED  BY <1>2, <1>3, <1>5, <1>10, <2>2, <3>2
    <2>5. Introduces(r, s, e.pid, x, u)
      <3>1. s.latest[e.pid] = x /\ \A p \in Pids \ {e.pid} : s.latest[p] = r.latest[p]
        BY <1>5, <2>4 DEF ReaderType
      <3>2. /\ s.active[e.pid].ordinal = x /\ s.active[e.pid].untrusted = u
            /\ \A p \in Pids \ {e.pid} : s.active[p] = r.active[p]
        BY <1>5, <2>4 DEF ReaderType
      <3>3. QED  BY <2>4, <3>1, <3>2 DEF Introduces
    <2>6. QED  BY <1>3, <1>4, <2>1, <2>3, <2>5
  <1>11. CASE e.kind = "exit"
    <2>1. PICK noted : noted = [v.gens EXCEPT ![v.id].exit = n]  OBVIOUS
    <2>2. PICK lv : lv = [v.live EXCEPT ![e.pid] = 0]  OBVIOUS
    <2>3. w = [id |-> v.id, gens |-> noted, live |-> lv]
      BY <1>1, <1>11, <2>1, <2>2 DEF WithExit
    <2>4. Noted(noted, v.gens, v.live[e.pid], n)  BY <1>4, <1>9, <2>1, ExitFacts
    <2>5. Moved(lv, v.live, e.pid, 0)  BY <1>5, <1>9, <2>2 DEF Moved
    <2>6. PICK s : s = ReadActor(r, row)  OBVIOUS
    <2>7. noted[v.id].ordinal = x /\ (Flagged(noted, v.id) <=> u = TRUE) /\ v.id \in DOMAIN noted
      <3>1. DOMAIN noted = DOMAIN v.gens /\ noted[v.id].origin = v.gens[v.id].origin
        BY <1>4, <2>4 DEF Noted
      <3>2. noted[v.id].ordinal = v.gens[v.id].ordinal
        <4>1. v.gens[v.id] \in GenerationType  BY <1>4, <1>9
        <4>2. noted[v.id] = [v.gens[v.id] EXCEPT !.exit = n]  BY <1>4, <1>9, <2>1
        <4>3. QED  BY <4>1, <4>2 DEF GenerationType
      <3>3. QED  BY <1>4, <3>1, <3>2 DEF Flagged
    <2>8. row.taskGeneration = x /\ (u = TRUE => row.uncertain)  BY <2>3, <2>7
    <2>9. /\ s \in ReaderType /\ s.ok = TRUE /\ s.hasInitial = TRUE
          /\ (s.identityUncertain = TRUE) <=> (r.identityUncertain = TRUE \/ u = TRUE)
          /\ s.latest = [r.latest EXCEPT ![e.pid] = x]
          /\ s.active = [r.active EXCEPT ![e.pid] = NotActive]
          /\ s.missing = r.missing \ {<<e.pid, x>>}
      <3>1. row.pid \in Pids /\ row.taskGeneration \in Nat  BY <1>5, <1>6, <2>8
      <3>2. /\ s \in ReaderType
            /\ (s.ok = TRUE) <=> /\ r.ok = TRUE /\ row.taskGeneration = Expected(r, row.pid)
                                 /\ Distrusts(r, row.pid) = TRUE => row.uncertain
            /\ s.hasInitial = TRUE
            /\ (s.identityUncertain = TRUE) <=>
                 (r.identityUncertain = TRUE \/ Distrusts(r, row.pid) = TRUE)
            /\ s.latest = [r.latest EXCEPT ![row.pid] = row.taskGeneration]
            /\ s.active = [r.active EXCEPT ![row.pid] =
                 IF row.kind = "exit" THEN NotActive
                 ELSE [ordinal |-> row.taskGeneration, untrusted |-> Distrusts(r, row.pid)]]
            /\ s.missing = IF row.kind = "exit" THEN r.missing \ {<<row.pid, row.taskGeneration>>}
                           ELSE r.missing \cup {<<row.pid, row.taskGeneration>>}
        BY <1>5, <2>6, <3>1, ActorRead
      <3>3. QED  BY <1>2, <1>3, <1>5, <1>11, <2>8, <3>2
    <2>10. Retires(mid, s, e.pid, mid.active[e.pid].ordinal)
      <3>1. /\ mid \in ReaderType /\ mid.hasInitial = TRUE
            /\ (mid.identityUncertain = TRUE) <=> (r.identityUncertain = TRUE \/ u = TRUE)
            /\ mid.latest[e.pid] = x /\ \A p \in Pids \ {e.pid} : mid.latest[p] = r.latest[p]
            /\ mid.active[e.pid].ordinal = x
            /\ \A p \in Pids \ {e.pid} : mid.active[p] = r.active[p]
            /\ mid.missing = r.missing \cup {<<e.pid, x>>}
        BY <1>7 DEF Introduces
      <3>2. s.latest = mid.latest
        <4>1. s.latest \in [Pids -> Nat] /\ mid.latest \in [Pids -> Nat] /\ r.latest \in [Pids -> Nat]
          BY <1>5, <2>9, <3>1 DEF ReaderType
        <4>2. \A p \in Pids : s.latest[p] = mid.latest[p]  BY <1>5, <2>9, <3>1, <4>1
        <4>3. QED  BY <4>1, <4>2
      <3>3. s.identityUncertain = mid.identityUncertain
        <4>1. s.identityUncertain \in BOOLEAN /\ mid.identityUncertain \in BOOLEAN
          BY <2>9, <3>1 DEF ReaderType
        <4>2. QED  BY <2>9, <3>1, <4>1
      <3>4. s.active[e.pid] = NotActive /\ \A p \in Pids \ {e.pid} : s.active[p] = mid.active[p]
        BY <1>5, <2>9, <3>1 DEF ReaderType
      <3>5. s.missing = mid.missing \ {<<e.pid, x>>}  BY <2>9, <3>1
      <3>6. QED  BY <2>9, <3>1, <3>2, <3>3, <3>4, <3>5 DEF Retires
    <2>11. Retirement(v.gens, v.live, mid, e.pid, n, s, noted, lv)
      BY <1>4, <1>5, <1>8, <2>4, <2>5, <2>10 DEF Retirement
    <2>12. Table(noted, lv) /\ Agrees(s, noted, lv)  BY <2>11, RetireLive
    <2>13. QED  BY <1>3, <2>3, <2>6, <2>7, <2>12
  <1>12. QED  BY <1>10, <1>11

(* A handled event, read from its row, keeps reader and table in           *)
(* agreement; it is marked only for a reason the reader has too.           *)
LEMMA EventRead ==
  ASSUME Table(generations, active), NEW r, Agrees(r, generations, active),
         NEW e \in EventType, NEW n \in Nat, n # 0,
         NEW t, t = WithChild(e, WithExit(e, n, WithActor(e))),
         NEW row, RowOf(row, e, t)
  PROVE  /\ Table(t.gens, t.live) /\ Agrees(ReadEvent(r, row), t.gens, t.live)
         /\ row.uncertain => Marks(r, row)
  <1>1. PICK v : v = WithActor(e)  OBVIOUS
  <1>2. PICK w : w = WithExit(e, n, v)  OBVIOUS
  <1>3. t = WithChild(e, w)  BY <1>1, <1>2
  <1>4. Table(v.gens, v.live) /\ v.id \in DOMAIN v.gens  BY <1>1, ActorExpected
  <1>5. ExitNoted(v, w, e, n)  BY <1>2, <1>4, ExitStep DEF Table
  <1>6. /\ w.gens \in Seq(GenerationType) /\ w.live \in [Pids -> Nat] /\ w.id \in DOMAIN w.gens
    BY <1>4, <1>5 DEF ExitNoted
  <1>7. ChildAdded(w, t, e)  BY <1>3, <1>6, ChildStep
  <1>8. t.id = w.id /\ t.gens[w.id] = w.gens[w.id]  BY <1>6, <1>7 DEF ChildAdded
  <1>9. /\ row.pid = e.pid /\ row.kind = e.kind /\ row.childPid = e.childPid
        /\ row.taskGeneration = w.gens[w.id].ordinal /\ (Flagged(w.gens, w.id) => row.uncertain)
        /\ row.uncertain => \/ Flagged(w.gens, w.id)
                            \/ t.spawned # 0 /\ t.gens[t.spawned].origin = "LiveCollision"
    BY <1>8 DEF RowOf, Flagged
  <1>10. PICK a : a = ReadActor(r, row)  OBVIOUS
  <1>11. /\ Table(w.gens, w.live) /\ Agrees(a, w.gens, w.live)
         /\ (Flagged(w.gens, w.id) <=> Distrusts(r, e.pid) = TRUE)
    <2>1. w = WithExit(e, n, WithActor(e))  BY <1>1, <1>2
    <2>2. QED  BY <1>9, <1>10, <2>1, ActorAgrees
  <1>12. r.ok = TRUE /\ a.ok = TRUE /\ a \in ReaderType /\ r \in ReaderType
    BY <1>11 DEF Agrees
  <1>13. CASE e.childPid = NoPid
    <2>1. t = [id |-> w.id, spawned |-> 0, gens |-> w.gens, live |-> w.live]
      BY <1>3, <1>13 DEF WithChild
    <2>2. ReadEvent(r, row) = a  BY <1>9, <1>10, <1>12, <1>13 DEF ReadEvent
    <2>3. row.uncertain => Distrusts(r, row.pid) = TRUE  BY <1>9, <1>11, <2>1
    <2>4. QED  BY <1>11, <2>1, <2>2, <2>3 DEF Marks
  <1>14. CASE e.childPid # NoPid
    <2>0. PICK c \in Pids : c = e.childPid  BY <1>14 DEF EventType
    <2>1. PICK origin \in Origins : origin = IF w.live[c] = 0 THEN "Spawned" ELSE "LiveCollision"
      BY DEF Origins
    <2>2. PICK m \in Nat : m = Len(w.gens) + 1  BY <1>6
    <2>3. PICK pushed : pushed = PushGeneration(w.gens, c, origin)  OBVIOUS
    <2>4. PICK lv : lv = [w.live EXCEPT ![c] = m]  OBVIOUS
    <2>5. t = [id |-> w.id, spawned |-> m, gens |-> pushed, live |-> lv]
      BY <1>3, <1>14, <2>0, <2>1, <2>2, <2>3, <2>4 DEF WithChild
    <2>6. Pushed(pushed, w.gens, c, origin)  BY <1>6, <2>3, PushFacts
    <2>7. Moved(lv, w.live, c, m)  BY <1>6, <2>4 DEF Moved
    <2>8. m # 0 /\ pushed[m].origin = origin  BY <2>2, <2>6 DEF Pushed
    <2>9. PICK u \in BOOLEAN : u = Known(a, c)  BY DEF Known
    <2>10. (u = TRUE) <=> w.live[c] # 0  BY <1>11, <2>9, KnownIsLive
    <2>11. (u = TRUE) <=> Suspect(origin)  BY <2>1, <2>10 DEF Suspect
    <2>12. (origin = "LiveCollision") <=> u = TRUE  BY <2>1, <2>10
    <2>13. PICK x \in Nat : x = a.latest[c] + 1  BY <1>12 DEF ReaderType
    <2>14. pushed[m].ordinal = x
      <3>1. PICK some : Introduces(a, some, c, x, u)  BY <1>12, Introducible
      <3>2. Introduction(w.gens, w.live, a, c, origin, u, some, m, pushed, lv)
        BY <1>11, <2>2, <2>6, <2>7, <2>11, <2>13, <3>1 DEF Introduction
      <3>3. QED  BY <2>13, <3>2, IntroduceNew
    <2>15. row.childGeneration = x /\ (u = TRUE => row.uncertain) /\ row.childPid = c
      BY <1>9, <2>0, <2>5, <2>8, <2>12, <2>14 DEF RowOf
    <2>16. PICK s : s = ReadChild(a, row)  OBVIOUS
    <2>17. ReadEvent(r, row) = s  BY <1>9, <1>10, <1>12, <1>14, <2>16 DEF ReadEvent
    <2>18. /\ s \in ReaderType /\ s.ok = TRUE /\ s.hasInitial = a.hasInitial
           /\ (s.identityUncertain = TRUE) <=> (a.identityUncertain = TRUE \/ u = TRUE)
           /\ s.latest = [a.latest EXCEPT ![c] = x]
           /\ s.active = [a.active EXCEPT ![c] = [ordinal |-> x, untrusted |-> u]]
           /\ s.missing = a.missing \cup {<<c, x>>}
      <3>1. row.childPid \in Pids /\ row.childGeneration \in Nat  BY <2>15
      <3>2. /\ s \in ReaderType
            /\ (s.ok = TRUE) <=> /\ a.ok = TRUE /\ row.childGeneration = a.latest[row.childPid] + 1
                                 /\ Known(a, row.childPid) => row.uncertain
            /\ s.hasInitial = a.hasInitial
            /\ (s.identityUncertain = TRUE) <=>
                 (a.identityUncertain = TRUE \/ Known(a, row.childPid))
            /\ s.latest = [a.latest EXCEPT ![row.childPid] = row.childGeneration]
            /\ s.active = [a.active EXCEPT ![row.childPid] =
                 [ordinal |-> row.childGeneration, untrusted |-> Known(a, row.childPid)]]
            /\ s.missing = a.missing \cup {<<row.childPid, row.childGeneration>>}
        BY <1>12, <2>16, <3>1, ChildRead
      <3>3. QED  BY <1>12, <2>9, <2>13, <2>15, <3>2
    <2>19. Introduces(a, s, c, x, u)
      <3>1. s.latest[c] = x /\ \A p \in Pids \ {c} : s.latest[p] = a.latest[p]
        BY <1>12, <2>18 DEF ReaderType
      <3>2. /\ s.active[c].ordinal = x /\ s.active[c].untrusted = u
            /\ \A p \in Pids \ {c} : s.active[p] = a.active[p]
        BY <1>12, <2>18 DEF ReaderType
      <3>3. a.hasInitial = TRUE
        <4>1. DOMAIN w.gens # {}  BY <1>6
        <4>2. QED  BY <1>11, <4>1 DEF Agrees
      <3>4. QED  BY <2>18, <3>1, <3>2, <3>3 DEF Introduces
    <2>20. Introduction(w.gens, w.live, a, c, origin, u, s, m, pushed, lv)
      BY <1>11, <2>2, <2>6, <2>7, <2>11, <2>13, <2>19 DEF Introduction
    <2>21. Table(pushed, lv) /\ Agrees(s, pushed, lv)  BY <2>20, IntroduceNew
    <2>22. row.uncertain => Distrusts(r, row.pid) = TRUE \/ Known(a, c)
      BY <1>9, <1>11, <2>5, <2>8, <2>9, <2>12
    <2>23. QED  BY <1>10, <1>14, <2>0, <2>5, <2>15, <2>17, <2>21, <2>22 DEF Marks
  <1>15. QED  BY <1>13, <1>14

-----------------------------------------------------------------------------
(* The reader follows the replay *)

(* An event ends on a line of the trace, not before it began. *)
LinesKept == \A i \in DOMAIN events : events[i].line <= events[i].end /\ events[i].end <= line

(* Reading the rows handled so far in evidence order is possible, never    *)
(* refused, and ends in agreement with the table.                          *)
Follows(f) ==
  /\ f \in [Nat -> ReaderType] /\ f[0] = Unread
  /\ Agrees(f[position], generations, active)
  /\ \A n \in 1 .. position :
       /\ f[n] = ReadEvent(f[n - 1], SavedEvents[EventOrder[n]]) /\ f[n].ok = TRUE
       /\ SavedEvents[EventOrder[n]].uncertain => Marks(f[n - 1], SavedEvents[EventOrder[n]])

TraceInv ==
  /\ LinesKept
  /\ Begun \/ (Table(generations, active) /\ \E f : Follows(f))

(* Lines are kept by the traced tasks. *)
LEMMA LinesStep ==
  ASSUME WorldTypeOK, WorldInv, LinesKept, [TimelineNext]_timelineVars
  PROVE  LinesKept'
  <1>1. line \in Nat /\ events \in Seq(EventType)  BY DEF WorldTypeOK
  <1>2. \A i \in DOMAIN events : events[i].line \in Nat /\ events[i].end \in Nat
    <2>1. \A i \in DOMAIN events : events[i] \in EventType  BY <1>1
    <2>2. QED  BY <2>1 DEF EventType
  <1>3. ASSUME NEW e \in EventType, NEW also \in {0, 1}, Write(e, also),
               e.end = line + 1, e.line <= line + 1
        PROVE  LinesKept'
    <2>1. Extended(e) /\ line' = line + 1  BY <1>3, WriteExtends
    <2>2. ASSUME NEW i \in DOMAIN events'
          PROVE  events'[i].line <= events'[i].end /\ events'[i].end <= line'
      <3>1. CASE i \in DOMAIN events
        <4>1. events'[i] = events[i]  BY <2>1, <3>1 DEF Extended
        <4>2. events[i].line <= events[i].end /\ events[i].end <= line  BY <3>1 DEF LinesKept
        <4>3. QED  BY <1>1, <1>2, <2>1, <3>1, <4>1, <4>2
      <3>2. CASE i \notin DOMAIN events
        <4>1. events'[i] = e  BY <2>1, <3>2 DEF Extended
        <4>2. QED  BY <1>1, <1>3, <2>1, <4>1
      <3>3. QED  BY <3>1, <3>2
    <2>3. QED  BY <2>2 DEF LinesKept
  <1>4. ASSUME events' = events, line' = line \/ line' = line + 1
        PROVE  LinesKept'
    BY <1>1, <1>2, <1>4 DEF LinesKept
  <1>5. ASSUME NEW p \in Pids, NEW kind \in {"call", "exec"}, Call(p, kind)
        PROVE  LinesKept'
    <2>1. Write(Event(p, kind, NoCall), 0)  BY <1>5 DEF Call
    <2>2. Event(p, kind, NoCall) \in EventType  BY NoCallTyped, EventTyped DEF Kinds
    <2>3. Event(p, kind, NoCall).end = line + 1 /\ Event(p, kind, NoCall).line = line + 1
      BY DEF Event
    <2>4. QED  BY <1>1, <1>3, <2>1, <2>2, <2>3
  <1>6. ASSUME NEW p \in Pids, ReturnFromSpawn(p)
        PROVE  LinesKept'
    <2>1. Write(Event(p, "spawn", calls[p]), 0)  BY <1>6 DEF ReturnFromSpawn
    <2>2. calls[p] \in CallType  BY DEF WorldTypeOK
    <2>3. Event(p, "spawn", calls[p]) \in EventType  BY <2>2, EventTyped DEF Kinds
    <2>4. calls[p].line <= line
      <3>1. PICK own \in [Nat -> Pids], birth \in [Nat -> Nat], gone \in [Nat -> Nat] :
              Told(own, birth, gone)
        BY DEF WorldInv
      <3>2. calls[p].line # 0 => calls[p].line <= line  BY <3>1 DEF Told, PendingCalls
      <3>3. calls[p].line \in Nat  BY <2>2 DEF CallType
      <3>4. PICK l \in Nat : l = calls[p].line  BY <3>3
      <3>5. l # 0 => l <= line  BY <3>2, <3>4
      <3>6. l <= line  BY <1>1, <3>5
      <3>7. QED  BY <3>4, <3>6
    <2>5. /\ Event(p, "spawn", calls[p]).end = line + 1
          /\ Event(p, "spawn", calls[p]).line <= line + 1
      BY <1>1, <2>2, <2>4 DEF Event, CallType
    <2>6. QED  BY <1>3, <2>1, <2>3, <2>5
  <1>7. ASSUME NEW p \in Pids, Exit(p)
        PROVE  LinesKept'
    <2>1. PICK also \in {0, 1} : Write(Event(p, "exit", NoCall), also)  BY <1>7 DEF Exit
    <2>2. Event(p, "exit", NoCall) \in EventType  BY NoCallTyped, EventTyped DEF Kinds
    <2>3. Event(p, "exit", NoCall).end = line + 1 /\ Event(p, "exit", NoCall).line = line + 1
      BY DEF Event
    <2>4. QED  BY <1>1, <1>3, <2>1, <2>2, <2>3
  <1>8. ASSUME NEW p \in Pids, EnterSpawn(p)
        PROVE  LinesKept'
    BY <1>4, <1>8 DEF EnterSpawn
  <1>9. ASSUME NEW p \in Pids, NEW q \in Pids, Fork(p, q)
        PROVE  LinesKept'
    BY <1>4, <1>9 DEF Fork
  <1>10. ASSUME EndTrace PROVE LinesKept'
    BY <1>4, <1>10 DEF EndTrace
  <1>11. ASSUME ObserveEvent PROVE LinesKept'
    BY <1>4, <1>11 DEF ObserveEvent, worldVars
  <1>12. ASSUME UNCHANGED timelineVars PROVE LinesKept'
    BY <1>4, <1>12 DEF timelineVars, worldVars
  <1>13. QED
    BY <1>5, <1>6, <1>7, <1>8, <1>9, <1>10, <1>11, <1>12 DEF TimelineNext

(* Before the first event is read. *)
LEMMA BegunFollows ==
  ASSUME ReplayTypeOK, Begun
  PROVE  Table(generations, active) /\ \E f : Follows(f)
  <1>1. DOMAIN generations = {} /\ position = 0 /\ \A p \in Pids : active[p] = 0  BY DEF Begun
  <1>2. Table(generations, active)
    BY <1>1 DEF Table, ReplayTypeOK, Numbered
  <1>3. Unread \in ReaderType
    <2>1. [p \in Pids |-> NotActive] \in [Pids -> LifeType]  BY DEF NotActive, LifeType
    <2>2. QED  BY <2>1 DEF Unread, ReaderType
  <1>4. Agrees(Unread, generations, active)
    <2>1. \A p \in Pids : Unread.latest[p] = Cardinality(OfPid(generations, p))
      <3>1. \A p \in Pids : OfPid(generations, p) = {}  BY <1>1 DEF OfPid
      <3>2. QED  BY <3>1, FS_EmptySet DEF Unread
    <2>2. Unread.ok = TRUE /\ Unread.hasInitial = FALSE /\ Unread.identityUncertain = FALSE
      BY DEF Unread
    <2>3. \A p \in Pids : Unread.active[p] = NotActive  BY DEF Unread
    <2>4. Unread.missing = {}  BY DEF Unread
    <2>5. QED  BY <1>1, <1>3, <2>1, <2>2, <2>3, <2>4 DEF Agrees
  <1>5. PICK f : f = [n \in Nat |-> Unread]  OBVIOUS
  <1>6. f \in [Nat -> ReaderType] /\ f[0] = Unread  BY <1>3, <1>5
  <1>7. Follows(f)  BY <1>1, <1>4, <1>6 DEF Follows
  <1>8. QED  BY <1>2, <1>7

(* What is saved of a handled event does not change any more. *)
LEMMA RowsKept ==
  ASSUME Attributed, generations \in Seq(GenerationType), Numbered(generations),
         NEW n, NEW id, NEW c, Observed(n, id, c), NextHandled(n, id, c), NEW i \in Handled
  PROVE  SavedEvents'[i] = SavedEvents[i]
  <1>1. /\ events' = events /\ i \in DOMAIN events /\ actor'[i] = actor[i] /\ child'[i] = child[i]
        /\ 0 \notin DOMAIN generations
    BY DEF NextHandled
  <1>2. /\ actor[i] \in DOMAIN generations
        /\ child[i] = 0 \/ child[i] \in DOMAIN generations
    BY DEF Attributed
  <1>3. ASSUME NEW g \in DOMAIN generations
        PROVE  /\ g \in DOMAIN generations' /\ generations'[g].origin = generations[g].origin
               /\ generations'[g].ordinal = generations[g].ordinal
    <2>1. /\ g \in DOMAIN generations' /\ generations'[g].origin = generations[g].origin
          /\ generations' \in Seq(GenerationType) /\ Numbered(generations')
          /\ \A h \in DOMAIN generations : h \in DOMAIN generations' /\ generations'[h].pid = generations[h].pid
      BY DEF Observed
    <2>2. \A h \in DOMAIN generations' : h < g => h \in DOMAIN generations
      <3>1. DOMAIN generations = 1 .. Len(generations) /\ Len(generations) \in Nat  OBVIOUS
      <3>2. DOMAIN generations' \in SUBSET (Nat \ {0})  BY <2>1
      <3>3. QED  BY <3>1, <3>2
    <2>3. {h \in DOMAIN generations' : h < g /\ generations'[h].pid = generations'[g].pid}
            = {h \in DOMAIN generations : h < g /\ generations[h].pid = generations[g].pid}
      BY <2>1, <2>2
    <2>4. QED  BY <2>1, <2>3 DEF Numbered
  <1>4. Marked(i)' <=> Marked(i)
    BY <1>1, <1>2, <1>3 DEF Marked, IsUntrusted
  <1>5. generations'[actor'[i]].ordinal = generations[actor[i]].ordinal  BY <1>1, <1>2, <1>3
  <1>6. (IF child'[i] = 0 THEN 0 ELSE generations'[child'[i]].ordinal)
          = (IF child[i] = 0 THEN 0 ELSE generations[child[i]].ordinal)
    BY <1>1, <1>2, <1>3
  <1>7. PICK b \in BOOLEAN : b = Marked(i)  BY DEF Marked
  <1>8. b = Marked(i)'  BY <1>4, <1>7 DEF Marked
  <1>9. SavedEvents[i] =
          [pid |-> events[i].pid, kind |-> events[i].kind, line |-> events[i].line, end |-> events[i].end,
           taskGeneration |-> generations[actor[i]].ordinal, childPid |-> events[i].childPid,
           childGeneration |-> IF child[i] = 0 THEN 0 ELSE generations[child[i]].ordinal,
           uncertain |-> b]
    BY <1>1, <1>7 DEF SavedEvents
  <1>10. SavedEvents'[i] =
          [pid |-> events[i].pid, kind |-> events[i].kind, line |-> events[i].line, end |-> events[i].end,
           taskGeneration |-> generations'[actor'[i]].ordinal, childPid |-> events[i].childPid,
           childGeneration |-> IF child'[i] = 0 THEN 0 ELSE generations'[child'[i]].ordinal,
           uncertain |-> b]
    BY <1>1, <1>8 DEF SavedEvents
  <1>11. QED  BY <1>5, <1>6, <1>9, <1>10

(* The reader follows one more event. *)
LEMMA FollowsStep ==
  ASSUME WorldTypeOK, Traced, ReplayTypeOK, ReplayParts, ObserveEvent,
         Table(generations, active), NEW f, Follows(f)
  PROVE  Table(generations, active)' /\ \E g : Follows(g)'
  <1>1. PICK n \in DOMAIN events, id \in Nat, c \in Nat :
          n = EventOrder[position + 1] /\ Rank(n) = position /\ Observed(n, id, c)
    BY ObserveFacts
  <1>2. NextHandled(n, id, c)  BY <1>1, HandledStep
  <1>3. /\ position \in Nat /\ position' = position + 1 /\ events' = events /\ position < Len(events)
        /\ events \in Seq(EventType) /\ phase = "replaying"
        /\ actor \in [DOMAIN events -> Nat] /\ child \in [DOMAIN events -> Nat]
    BY DEF ObserveEvent, worldVars, ReplayTypeOK, WorldTypeOK
  <1>4. PICK e \in EventType : e = events[n]  BY <1>3
  <1>5. PICK t : t = WithChild(e, WithExit(e, n, WithActor(e)))  OBVIOUS
  <1>6. /\ generations' = t.gens /\ active' = t.live
        /\ actor' = [actor EXCEPT ![n] = t.id] /\ child' = [child EXCEPT ![n] = t.spawned]
    BY <1>1, <1>4, <1>5 DEF ObserveEvent
  <1>7. actor'[n] = t.id /\ child'[n] = t.spawned  BY <1>3, <1>6
  <1>8. PICK row : row = SavedEvents'[n]  OBVIOUS
  <1>9. RowOf(row, e, t)
    <2>1. row = [pid |-> e.pid, kind |-> e.kind, line |-> e.line, end |-> e.end,
                 taskGeneration |-> t.gens[t.id].ordinal, childPid |-> e.childPid,
                 childGeneration |-> IF t.spawned = 0 THEN 0 ELSE t.gens[t.spawned].ordinal,
                 uncertain |-> Marked(n)']
      BY <1>3, <1>4, <1>6, <1>7, <1>8 DEF SavedEvents
    <2>2. Marked(n)' <=> \/ Flagged(t.gens, t.id)
                         \/ t.spawned # 0 /\ t.gens[t.spawned].origin = "LiveCollision"
      BY <1>6, <1>7 DEF Marked, IsUntrusted, Flagged, Suspect
    <2>3. row.uncertain <=> Marked(n)'  BY <2>1
    <2>4. QED  BY <2>1, <2>2, <2>3 DEF RowOf
  <1>10. /\ f \in [Nat -> ReaderType] /\ f[0] = Unread /\ Agrees(f[position], generations, active)
    BY DEF Follows
  <1>11. PICK next : next = ReadEvent(f[position], row)  OBVIOUS
  <1>12. /\ Table(t.gens, t.live) /\ Agrees(next, t.gens, t.live)
         /\ row.uncertain => Marks(f[position], row)
    <2>1. n \in Nat /\ n # 0  BY <1>3
    <2>2. QED  BY <1>5, <1>9, <1>10, <1>11, <2>1, EventRead
  <1>13. PICK g : g = [f EXCEPT ![position + 1] = next]  OBVIOUS
  <1>14. next \in ReaderType /\ next.ok = TRUE  BY <1>12 DEF Agrees
  <1>15. /\ g \in [Nat -> ReaderType] /\ g[position + 1] = next
         /\ \A m \in 0 .. position : g[m] = f[m]
    BY <1>3, <1>10, <1>13, <1>14
  <1>16. \A m \in DOMAIN events : EventOrder'[m] = EventOrder[m]
    BY <1>3 DEF EventOrder, Before
  <1>17. ASSUME NEW m \in 1 .. position
         PROVE  /\ EventOrder'[m] = EventOrder[m]
                /\ SavedEvents'[EventOrder[m]] = SavedEvents[EventOrder[m]]
    <2>1. m \in DOMAIN events  BY <1>3
    <2>2. EventOrder[m] \in DOMAIN events /\ Rank(EventOrder[m]) = m - 1  BY <2>1, OrderIsTotal
    <2>3. EventOrder[m] \in Handled  BY <1>3, <2>2 DEF Handled
    <2>4. SavedEvents'[EventOrder[m]] = SavedEvents[EventOrder[m]]
      BY <1>1, <1>2, <2>3, RowsKept DEF ReplayParts, ReplayTypeOK
    <2>5. QED  BY <1>16, <2>1, <2>4
  <1>18. ASSUME NEW m \in 1 .. position + 1
         PROVE  /\ g[m] = ReadEvent(g[m - 1], SavedEvents'[EventOrder'[m]]) /\ g[m].ok = TRUE
                /\ SavedEvents'[EventOrder'[m]].uncertain => Marks(g[m - 1], SavedEvents'[EventOrder'[m]])
    <2>1. CASE m = position + 1
      <3>1. m - 1 = position /\ position \in 0 .. position  BY <1>3, <2>1
      <3>2. position + 1 \in DOMAIN events  BY <1>3
      <3>3. SavedEvents'[EventOrder'[m]] = row  BY <1>1, <1>8, <1>16, <2>1, <3>2
      <3>4. QED  BY <1>11, <1>12, <1>14, <1>15, <2>1, <3>1, <3>3
    <2>2. CASE m # position + 1
      <3>1. m \in 1 .. position /\ m \in 0 .. position /\ m - 1 \in 0 .. position  BY <1>3, <2>2
      <3>2. g[m] = f[m] /\ g[m - 1] = f[m - 1]  BY <1>15, <3>1
      <3>3. SavedEvents'[EventOrder'[m]] = SavedEvents[EventOrder[m]]  BY <1>17, <3>1
      <3>4. QED  BY <3>1, <3>2, <3>3 DEF Follows
    <2>3. QED  BY <2>1, <2>2
  <1>19. g[0] = Unread  BY <1>3, <1>10, <1>15
  <1>20. Follows(g)'
    BY <1>3, <1>6, <1>12, <1>15, <1>18, <1>19 DEF Follows, Agrees, Marks
  <1>21. QED  BY <1>6, <1>12, <1>20 DEF Table

(* The reader follows in every reachable state. *)
LEMMA TraceInvariant == TimelineSpec => [](TimelineInv /\ TraceInv)
  <1>1. TimelineInit => TimelineInv /\ TraceInv
    <2> SUFFICES ASSUME TimelineInit PROVE TimelineInv /\ TraceInv
      OBVIOUS
    <2>1. WorldTypeOK /\ WorldInv  BY WorldTypeInit, WorldInit
    <2>2. active \in [Pids -> Nat] /\ \A p \in Pids : active[p] = 0  BY DEF TimelineInit
    <2>3. position \in Nat /\ position = 0 /\ phase = "tracing"  BY DEF TimelineInit
    <2>4. generations \in Seq(GenerationType) /\ generations = <<>>  BY DEF TimelineInit
    <2>5. ReplayTypeOK /\ Begun  BY <2>2, <2>3, <2>4 DEF ReplayTypeOK, Begun
    <2>6. LinesKept  BY DEF TimelineInit, LinesKept
    <2>7. QED  BY <2>1, <2>5, <2>6 DEF TimelineInv, TraceInv
  <1>2. TimelineInv /\ TraceInv /\ TimelineInv' /\ [TimelineNext]_timelineVars => TraceInv'
    <2> SUFFICES ASSUME TimelineInv, TraceInv, TimelineInv', [TimelineNext]_timelineVars
                 PROVE  TraceInv'
      OBVIOUS
    <2>1. WorldTypeOK /\ WorldInv /\ ReplayTypeOK /\ ReplayTypeOK'  BY DEF TimelineInv
    <2>2. Traced  BY <2>1, TraceOfWorld
    <2>3. ReplayParts  BY <2>1, <2>2, BegunParts DEF TimelineInv
    <2>4. LinesKept'  BY <2>1, LinesStep DEF TraceInv
    <2>5. Table(generations, active) /\ \E f : Follows(f)  BY <2>1, BegunFollows DEF TraceInv
    <2>6. PICK f : Follows(f)  BY <2>5
    <2>7. ASSUME Begun' PROVE TraceInv'
      BY <2>4, <2>7 DEF TraceInv
    <2>8. ASSUME ObserveEvent PROVE TraceInv'
      <3>1. Table(generations, active)' /\ \E g : Follows(g)'
        BY <2>1, <2>2, <2>3, <2>5, <2>6, <2>8, FollowsStep
      <3>2. QED  BY <2>4, <3>1 DEF TraceInv
    <2>9. ASSUME UNCHANGED timelineVars PROVE TraceInv'
      <3>1. UNCHANGED <<line, events, position, generations, actor, child, active>>
        BY <2>9 DEF timelineVars, worldVars, replayVars
      <3>2. SavedEvents' = SavedEvents
        BY <3>1 DEF SavedEvents, Marked, IsUntrusted
      <3>3. EventOrder' = EventOrder  BY <3>1 DEF EventOrder, Before
      <3>4. Follows(f)'  BY <2>6, <3>1, <3>2, <3>3 DEF Follows
      <3>5. Table(generations, active)'  BY <2>5, <3>1 DEF Table
      <3>6. QED  BY <2>4, <3>4, <3>5 DEF TraceInv
    <2>10. ASSUME phase' = "tracing" PROVE Begun'
      BY <2>1, <2>10 DEF ReplayTypeOK, Begun
    <2>11. ASSUME EndTrace PROVE Begun'
      BY <2>1, <2>11 DEF EndTrace, ReplayTypeOK, Begun
    <2>12. ASSUME NEW p \in Pids,
                  \/ \E kind \in {"call", "exec"} : Call(p, kind)
                  \/ EnterSpawn(p)
                  \/ \E q \in Pids : Fork(p, q)
                  \/ ReturnFromSpawn(p)
                  \/ Exit(p)
           PROVE  phase' = "tracing"
      BY <2>12 DEF Call, EnterSpawn, Fork, ReturnFromSpawn, Exit, Running
    <2>13. QED  BY <2>7, <2>8, <2>9, <2>10, <2>11, <2>12 DEF TimelineNext
  <1>3. QED  BY <1>1, <1>2, TimelineInvariant, PTL DEF TimelineSpec

-----------------------------------------------------------------------------
(* What the reader finds *)

(* Rows with the coordinates of the events. *)
Rows(saved) ==
  /\ DOMAIN saved = DOMAIN events /\ Len(saved) = Len(events)
  /\ \A i \in DOMAIN events : saved[i].line = events[i].line /\ saved[i].end = events[i].end

(* The reader sorts them as the replay did. *)
LEMMA SameOrder ==
  ASSUME NEW saved, Rows(saved)
  PROVE  Ordered(saved) = EventOrder
  <1>1. \A i, j \in DOMAIN events : Precedes(Evidence(saved, j), Evidence(saved, i)) <=> Before(j, i)
    BY DEF Rows, Precedes, Evidence, Before
  <1>2. \A i \in DOMAIN events :
          {j \in DOMAIN saved : Precedes(Evidence(saved, j), Evidence(saved, i))}
            = {j \in DOMAIN events : Before(j, i)}
    BY <1>1 DEF Rows
  <1>3. DOMAIN saved = DOMAIN events  BY DEF Rows
  <1> DEFINE A(n) == CHOOSE i \in DOMAIN saved :
               Cardinality({j \in DOMAIN saved : Precedes(Evidence(saved, j), Evidence(saved, i))}) = n - 1
             B(n) == CHOOSE i \in DOMAIN events : Cardinality({j \in DOMAIN events : Before(j, i)}) = n - 1
  <1>4. \A n \in DOMAIN events : A(n) = B(n)
    BY <1>2, <1>3
  <1>5. Ordered(saved) = [n \in DOMAIN saved |-> A(n)] /\ EventOrder = [n \in DOMAIN events |-> B(n)]
    BY DEF Ordered, EventOrder
  <1> HIDE DEF A, B
  <1>6. QED  BY <1>3, <1>4, <1>5

(* FirstOf finds the row that precedes the others. *)
LEMMA FirstOfIs ==
  ASSUME WorldTypeOK, Traced, NEW saved, Rows(saved), NEW rows \in SUBSET DOMAIN events
  PROVE  /\ rows = {} => FirstOf(saved, rows) = 0
         /\ rows # {} => FirstOf(saved, rows) \in rows
  <1> DEFINE places == {n \in DOMAIN events : EventOrder[n] \in rows}
  <1>1. FirstOf(saved, rows) =
          IF places = {} THEN 0 ELSE EventOrder[CHOOSE n \in places : \A m \in places : n <= m]
    <2> DEFINE P == {n \in DOMAIN saved : Ordered(saved)[n] \in rows}
    <2>1. FirstOf(saved, rows) =
            IF P = {} THEN 0 ELSE Ordered(saved)[CHOOSE n \in P : \A m \in P : n <= m]
      BY DEF FirstOf
    <2>2. Ordered(saved) = EventOrder /\ DOMAIN saved = DOMAIN events  BY SameOrder DEF Rows
    <2>3. P = places  BY <2>2
    <2> HIDE DEF P, places
    <2>4. QED  BY <2>1, <2>2, <2>3
  <1>2. DOMAIN events = 1 .. Len(events) /\ Len(events) \in Nat  BY DEF WorldTypeOK
  <1>3. \A n \in DOMAIN events : EventOrder[n] \in DOMAIN events /\ Rank(EventOrder[n]) = n - 1
    BY OrderIsTotal
  <1>4. ASSUME NEW i \in rows
        PROVE  places # {}
    <2>1. PICK n \in DOMAIN events : n = Rank(i) + 1  BY <1>2, RankOrder
    <2>2. Rank(EventOrder[n]) = Rank(i)
      <3>1. Rank(i) \in 0 .. Len(events) - 1  BY RankOrder
      <3>2. QED  BY <1>2, <1>3, <2>1, <3>1
    <2>3. EventOrder[n] = i  BY <1>3, <2>2, RankOrder
    <2>4. QED  BY <2>3
  <1>5. ASSUME places # {}
        PROVE  FirstOf(saved, rows) \in rows
    <2>1. places \in SUBSET (0 .. Len(events))  BY <1>2
    <2> HIDE DEF places
    <2>2. \E n \in places : \A m \in places : n <= m  BY <1>2, <1>5, <2>1, Least
    <2>3. PICK n \in places : n = CHOOSE k \in places : \A m \in places : k <= m  BY <2>2
    <2>4. FirstOf(saved, rows) = EventOrder[n]  BY <1>1, <1>5, <2>3
    <2>5. QED  BY <2>4 DEF places
  <1>6. rows = {} => places = {}  OBVIOUS
  <1> HIDE DEF places
  <1>7. QED  BY <1>1, <1>4, <1>5, <1>6

(* The rows of the saved events. *)
LEMMA SavedRows ==
  ASSUME WorldTypeOK
  PROVE  /\ Rows(SavedEvents)
         /\ \A i \in DOMAIN events :
              /\ SavedEvents[i].pid = events[i].pid /\ SavedEvents[i].kind = events[i].kind
              /\ SavedEvents[i].childPid = events[i].childPid
              /\ SavedEvents[i].taskGeneration = generations[actor[i]].ordinal
              /\ child[i] # 0 => SavedEvents[i].childGeneration = generations[child[i]].ordinal
              /\ SavedEvents[i].uncertain = Marked(i)
  <1>1. DOMAIN SavedEvents = DOMAIN events  BY DEF SavedEvents
  <1>2. events \in Seq(EventType) /\ DOMAIN events = 1 .. Len(events) /\ Len(events) \in Nat
    BY DEF WorldTypeOK
  <1>3. Len(SavedEvents) = Len(events)
    <2> DEFINE Row(i) ==
          [pid |-> events[i].pid, kind |-> events[i].kind, line |-> events[i].line, end |-> events[i].end,
           taskGeneration |-> generations[actor[i]].ordinal, childPid |-> events[i].childPid,
           childGeneration |-> IF child[i] = 0 THEN 0 ELSE generations[child[i]].ordinal,
           uncertain |-> Marked(i)]
    <2>1. SavedEvents = [i \in DOMAIN events |-> Row(i)]  BY DEF SavedEvents
    <2> HIDE DEF Row
    <2>2. PICK R : R = {Row(i) : i \in DOMAIN events}  OBVIOUS
    <2>3. PICK rows : rows = SavedEvents  OBVIOUS
    <2>4. rows \in [1 .. Len(events) -> R]  BY <1>2, <2>1, <2>2, <2>3
    <2>5. rows \in Seq(R)  BY <1>2, <2>4
    <2>6. Len(rows) = Len(events)  BY <1>2, <2>4, <2>5
    <2>7. QED  BY <2>3, <2>6
  <1>4. ASSUME NEW i \in DOMAIN events
        PROVE  /\ SavedEvents[i].line = events[i].line /\ SavedEvents[i].end = events[i].end
               /\ SavedEvents[i].pid = events[i].pid /\ SavedEvents[i].kind = events[i].kind
               /\ SavedEvents[i].childPid = events[i].childPid
               /\ SavedEvents[i].taskGeneration = generations[actor[i]].ordinal
               /\ child[i] # 0 => SavedEvents[i].childGeneration = generations[child[i]].ordinal
               /\ SavedEvents[i].uncertain = Marked(i)
    BY DEF SavedEvents
  <1>5. QED  BY <1>1, <1>3, <1>4 DEF Rows

(* The first exec that the reader finds is the one Completion found. *)
LEMMA ReaderFindsExec ==
  ASSUME TimelineInv, Finished
  PROVE  /\ FirstExec(SavedEvents) = RootExec
         /\ RootExec # 0 => RootExec \in DOMAIN events /\ events[RootExec].kind = "exec"
  <1> DEFINE rows == {i \in DOMAIN events : events[i].kind = "exec"}
  <1>1. WorldTypeOK /\ Traced  BY FinishedFacts DEF TimelineInv
  <1>2. Rows(SavedEvents)  BY <1>1, SavedRows
  <1>3. {i \in DOMAIN SavedEvents : SavedEvents[i].kind = "exec"} = rows
    BY <1>1, <1>2, SavedRows DEF Rows
  <1>4. FirstExec(SavedEvents) = FirstOf(SavedEvents, rows)  BY <1>3 DEF FirstExec
  <1>5. Execs = {n \in DOMAIN events : EventOrder[n] \in rows}
    BY <1>1, OrderIsTotal DEF Execs
  <1>6. FirstOf(SavedEvents, rows) = RootExec
    <2> DEFINE P == {n \in DOMAIN SavedEvents : Ordered(SavedEvents)[n] \in rows}
    <2>1. FirstOf(SavedEvents, rows) =
            IF P = {} THEN 0 ELSE Ordered(SavedEvents)[CHOOSE n \in P : \A m \in P : n <= m]
      BY DEF FirstOf
    <2>2. Ordered(SavedEvents) = EventOrder /\ DOMAIN SavedEvents = DOMAIN events
      BY <1>2, SameOrder DEF Rows
    <2>3. P = Execs  BY <1>5, <2>2
    <2> HIDE DEF P
    <2>4. QED  BY <2>1, <2>2, <2>3 DEF RootExec
  <1>7. RootExec # 0 => RootExec \in rows
    <2>1. rows \in SUBSET DOMAIN events  OBVIOUS
    <2> HIDE DEF rows
    <2>2. QED  BY <1>1, <1>2, <1>6, <2>1, FirstOfIs
  <1>8. QED  BY <1>4, <1>6, <1>7

(* The first exit of the root lifetime that the reader finds is the one    *)
(* Completion found, and it comes after the exec.                          *)
LEMMA ReaderFindsExit ==
  ASSUME TimelineInv, Finished, RootExec # 0
  PROVE  /\ ExitOf(SavedEvents, events[RootExec].pid, generations[actor[RootExec]].ordinal) = RootExit
         /\ actor[RootExec] \in DOMAIN generations
         /\ RootExit # 0 =>
              /\ RootExit \in DOMAIN events /\ events[RootExit].kind = "exit"
              /\ TaskGeneration(RootExit) = TaskGeneration(RootExec)
              /\ events[RootExec].line < events[RootExit].line
  <1>1. WorldTypeOK /\ Traced /\ ReplayParts /\ Handled = DOMAIN events
    BY FinishedFacts DEF TimelineInv
  <1>2. Attributed /\ Separated  BY <1>1 DEF ReplayParts
  <1>3. RootExec \in DOMAIN events /\ events[RootExec].kind = "exec"  BY ReaderFindsExec
  <1>4. PICK g \in DOMAIN generations : g = actor[RootExec]  BY <1>1, <1>2, <1>3 DEF Attributed
  <1>5. RootExit = generations[g].exit  BY <1>4 DEF RootExit
  <1> DEFINE rows == {i \in DOMAIN events : events[i].kind = "exit" /\ actor[i] = g}
  <1>6. Rows(SavedEvents)  BY <1>1, SavedRows
  <1>7. ASSUME NEW i \in DOMAIN events
        PROVE  /\ SavedEvents[i].pid = events[RootExec].pid
               /\ SavedEvents[i].taskGeneration = generations[actor[RootExec]].ordinal
               <=> actor[i] = g
    <2>1. SavedEvents[i].pid = events[i].pid /\ SavedEvents[i].taskGeneration = generations[actor[i]].ordinal
      BY <1>1, SavedRows
    <2>2. TaskGeneration(i) = TaskGeneration(RootExec) <=> actor[i] = actor[RootExec]
      BY <1>3, FinishedFacts
    <2>3. TaskGeneration(i) = TaskGeneration(RootExec) <=>
            /\ events[i].pid = events[RootExec].pid
            /\ generations[actor[i]].ordinal = generations[actor[RootExec]].ordinal
      BY DEF TaskGeneration
    <2>4. QED  BY <1>4, <2>1, <2>2, <2>3
  <1>8. ExitOf(SavedEvents, events[RootExec].pid, generations[actor[RootExec]].ordinal)
          = FirstOf(SavedEvents, rows)
    <2>1. \A i \in DOMAIN events : SavedEvents[i].kind = events[i].kind  BY <1>1, SavedRows
    <2>2. {i \in DOMAIN SavedEvents :
             /\ SavedEvents[i].kind = "exit" /\ SavedEvents[i].pid = events[RootExec].pid
             /\ SavedEvents[i].taskGeneration = generations[actor[RootExec]].ordinal} = rows
      BY <1>6, <1>7, <2>1 DEF Rows
    <2> HIDE DEF rows
    <2>3. QED  BY <2>2 DEF ExitOf
  <1>9. \A i \in DOMAIN events : events[i].line \in Nat
    <2>1. \A i \in DOMAIN events : events[i] \in EventType  BY <1>1 DEF WorldTypeOK
    <2>2. QED  BY <2>1 DEF EventType
  <1>10. ASSUME NEW i \in DOMAIN events, actor[i] = g
         PROVE  events[i].pid = generations[g].pid
    BY <1>1, <1>2, <1>10 DEF Attributed
  <1>11. ASSUME NEW k \in rows, NEW i \in DOMAIN events, actor[i] = g
         PROVE  ~(events[k].line < events[i].line)
    <2>1. k \in DOMAIN events /\ events[k].kind = "exit" /\ actor[k] = g  OBVIOUS
    <2>2. events[k].pid = events[i].pid  BY <1>10, <1>11, <2>1
    <2>3. Ends(k, events[k].pid)  BY <2>1 DEF Ends
    <2>4. events[k].line <= events[k].line  BY <1>9, <2>1
    <2>5. events[k].line < events[i].line => actor[k] # actor[i]
      BY <1>1, <1>2, <2>1, <2>2, <2>3, <2>4 DEF Separated
    <2>6. QED  BY <1>11, <2>1, <2>5
  <1>12. CASE generations[g].exit = 0
    <2>1. rows = {}  BY <1>1, <1>2, <1>12 DEF Attributed
    <2>2. rows \in SUBSET DOMAIN events  OBVIOUS
    <2> HIDE DEF rows
    <2>3. FirstOf(SavedEvents, rows) = 0  BY <1>1, <1>6, <2>1, <2>2, FirstOfIs
    <2>4. QED  BY <1>4, <1>5, <1>8, <1>12, <2>3
  <1>13. CASE generations[g].exit # 0
    <2>1. PICK k \in rows : k = generations[g].exit  BY <1>1, <1>2, <1>13 DEF Attributed
    <2>2. \A i \in rows : i = k
      <3>1. \A i \in rows : ~(events[k].line < events[i].line) /\ ~(events[i].line < events[k].line)
        BY <1>11
      <3>2. \A i \in rows : events[k].line = events[i].line  BY <1>9, <3>1
      <3>3. QED  BY <1>1, <3>2 DEF Traced
    <2>3. rows \in SUBSET DOMAIN events  OBVIOUS
    <2>4. FirstOf(SavedEvents, rows) \in rows
      <3> HIDE DEF rows
      <3>1. QED  BY <1>1, <1>6, <2>1, <2>3, FirstOfIs
    <2>5. FirstOf(SavedEvents, rows) = RootExit  BY <1>5, <2>1, <2>2, <2>4
    <2>6. k \in DOMAIN events /\ events[k].kind = "exit" /\ actor[k] = g  OBVIOUS
    <2>7. TaskGeneration(k) = TaskGeneration(RootExec)  BY <1>3, <1>4, <2>6, FinishedFacts
    <2>8. events[RootExec].line < events[k].line
      <3>1. ~(events[k].line < events[RootExec].line)  BY <1>3, <1>4, <1>11
      <3>2. events[k].line # events[RootExec].line
        <4>1. k # RootExec  BY <1>3, <2>6
        <4>2. QED  BY <1>1, <1>3, <2>6, <4>1 DEF Traced
      <3>3. QED  BY <1>3, <1>9, <2>6, <3>1, <3>2
    <2>9. QED  BY <1>4, <1>5, <1>8, <2>1, <2>5, <2>6, <2>7, <2>8
  <1>14. QED  BY <1>12, <1>13

(* The reader's replay of the saved events is the one that follows. *)
LEMMA ReplayOfSaved ==
  ASSUME TimelineInv, TraceInv, Finished
  PROVE  Agrees(Replay(SavedEvents), generations, active)
  <1>1. WorldTypeOK /\ ReplayTypeOK  BY DEF TimelineInv
  <1>2. PICK f : Follows(f)  BY <1>1, BegunFollows DEF TraceInv
  <1>3. position = Len(events) /\ Len(events) \in Nat  BY <1>1 DEF Finished, WorldTypeOK
  <1>4. Rows(SavedEvents) /\ Len(SavedEvents) = Len(events)  BY <1>1, SavedRows DEF Rows
  <1>5. Ordered(SavedEvents) = EventOrder  BY <1>4, SameOrder
  <1>6. /\ f[0] = Unread
        /\ \A n \in 1 .. Len(events) : f[n] = ReadEvent(f[n - 1], SavedEvents[EventOrder[n]])
    BY <1>2, <1>3 DEF Follows
  <1>7. PICK g : g = [n \in 0 .. Len(events) |-> f[n]]  OBVIOUS
  <1>8. \A n \in 0 .. Len(events) :
          g[n] = IF n = 0 THEN Unread ELSE ReadEvent(g[n - 1], SavedEvents[EventOrder[n]])
    <2>1. ASSUME NEW n \in 0 .. Len(events), n # 0
          PROVE  g[n] = ReadEvent(g[n - 1], SavedEvents[EventOrder[n]])
      <3>1. n \in 1 .. Len(events) /\ n - 1 \in 0 .. Len(events)  BY <1>3, <2>1
      <3>2. g[n] = f[n] /\ g[n - 1] = f[n - 1]  BY <1>7, <3>1
      <3>3. QED  BY <1>6, <3>1, <3>2
    <2>2. g[0] = Unread  BY <1>3, <1>6, <1>7
    <2>3. QED  BY <2>1, <2>2
  <1>9. Readings(SavedEvents, g)
    <2>1. g = [n \in 0 .. Len(events) |-> g[n]]  BY <1>7
    <2>2. g = [n \in 0 .. Len(events) |->
                 IF n = 0 THEN Unread ELSE ReadEvent(g[n - 1], SavedEvents[EventOrder[n]])]
      BY <1>8, <2>1
    <2>3. QED  BY <1>4, <1>5, <2>2 DEF Readings
  <1>10. Replay(SavedEvents) = g[Len(events)]  BY <1>3, <1>4, <1>9, ReplayIs
  <1>11. g[Len(events)] = f[position]  BY <1>3, <1>7
  <1>12. QED  BY <1>2, <1>10, <1>11 DEF Follows

(* Ordinals start at 1. *)
LEMMA OrdinalPositive ==
  ASSUME NEW gens \in Seq(GenerationType), Numbered(gens), NEW g \in DOMAIN gens
  PROVE  gens[g].ordinal \in Nat /\ gens[g].ordinal # 0
  <1> DEFINE B == {h \in DOMAIN gens : h < g /\ gens[h].pid = gens[g].pid}
  <1>1. B \in SUBSET OfPid(gens, gens[g].pid)  BY DEF OfPid
  <1>2. IsFiniteSet(B)  BY <1>1, OfPidFinite, FS_Subset
  <1>3. Cardinality(B) \in Nat  BY <1>2, FS_CardinalityType
  <1>4. gens[g].ordinal = Cardinality(B) + 1  BY DEF Numbered
  <1> HIDE DEF B
  <1>5. QED  BY <1>3, <1>4

(* The reader asks for an admission exactly when the metadata has one. *)
LEMMA AdmissionAgrees ==
  ASSUME TimelineInv, TraceInv, Finished
  PROVE  LET r == Replay(SavedEvents)
         IN /\ r.ok = TRUE /\ r.identityUncertain \in BOOLEAN
            /\ (r.missing # {} \/ r.identityUncertain = TRUE) <=> SavedMetadata.warned
            /\ SavedMetadata.warned <=> ~SavedMetadata.complete
            /\ SavedMetadata.provenance = Provenance
  <1>1. PICK r : r = Replay(SavedEvents)  OBVIOUS
  <1>2. Agrees(r, generations, active)  BY <1>1, ReplayOfSaved
  <1>3. r \in ReaderType /\ r.ok = TRUE  BY <1>2 DEF Agrees
  <1>4. r.missing \in SUBSET (Pids \X Nat) /\ r.identityUncertain \in BOOLEAN  BY <1>3 DEF ReaderType
  <1>5. generations \in Seq(GenerationType)  BY DEF TimelineInv, ReplayTypeOK
  <1>6. r.missing # {} <=> MissingExits # {}
    <2>1. ASSUME r.missing # {} PROVE MissingExits # {}
      <3>1. PICK p \in Pids, n \in Nat : <<p, n>> \in r.missing  BY <1>4, <2>1
      <3>2. \E g \in DOMAIN generations : generations[g].exit = 0  BY <1>2, <3>1 DEF Agrees
      <3>3. QED  BY <3>2 DEF MissingExits
    <2>2. ASSUME MissingExits # {} PROVE r.missing # {}
      <3>1. PICK g \in DOMAIN generations : generations[g].exit = 0  BY <2>2 DEF MissingExits
      <3>2. generations[g] \in GenerationType  BY <1>5
      <3>3. PICK p \in Pids, n \in Nat : generations[g].pid = p /\ generations[g].ordinal = n
        BY <3>2 DEF GenerationType
      <3>4. <<p, n>> \in r.missing  BY <1>2, <3>1, <3>3 DEF Agrees
      <3>5. QED  BY <3>4
    <2>3. QED  BY <2>1, <2>2
  <1>7. (r.identityUncertain = TRUE) <=> \E g \in DOMAIN generations : IsUntrusted(g)
    BY <1>2 DEF Agrees, Flagged, Suspect, IsUntrusted
  <1>8. /\ SavedMetadata.warned <=> (MissingExits # {} \/ \E g \in DOMAIN generations : IsUntrusted(g))
        /\ SavedMetadata.complete <=> ~(MissingExits # {} \/ \E g \in DOMAIN generations : IsUntrusted(g))
        /\ SavedMetadata.provenance = Provenance
    BY DEF SavedMetadata
  <1>9. QED  BY <1>1, <1>3, <1>4, <1>6, <1>7, <1>8

(* The references that Completion stores pass the reader's own search. *)
LEMMA ProvenanceAccepted ==
  ASSUME TimelineInv, TraceInv, Finished
  PROVE  ProvenanceValid(SavedEvents, Provenance)
  <1>1. /\ WorldTypeOK /\ Traced /\ WorldInv /\ LinesKept
        /\ generations \in Seq(GenerationType) /\ Numbered(generations)
    BY FinishedFacts DEF TimelineInv, TraceInv, ReplayParts, ReplayTypeOK
  <1>2. FirstExec(SavedEvents) = RootExec  BY ReaderFindsExec
  <1>3. CASE RootExec = 0
    <2>1. Provenance = NoProvenance  BY <1>3 DEF Provenance, RootExit
    <2>2. QED  BY <1>2, <1>3, <2>1 DEF ProvenanceValid
  <1>4. CASE RootExec # 0
    <2>1. RootExec \in DOMAIN events /\ events[RootExec].kind = "exec"  BY <1>4, ReaderFindsExec
    <2>2. /\ SavedEvents[RootExec].pid = events[RootExec].pid
          /\ SavedEvents[RootExec].taskGeneration = generations[actor[RootExec]].ordinal
      BY <1>1, <2>1, SavedRows
    <2>3. ExitOf(SavedEvents, events[RootExec].pid, generations[actor[RootExec]].ordinal) = RootExit
      BY <1>4, ReaderFindsExit
    <2>4. CASE RootExit = 0
      <3>1. Provenance = NoProvenance  BY <2>4 DEF Provenance
      <3>2. QED  BY <1>2, <2>2, <2>3, <2>4, <3>1 DEF ProvenanceValid
    <2>5. CASE RootExit # 0
      <3>1. /\ RootExit \in DOMAIN events /\ events[RootExit].kind = "exit"
            /\ TaskGeneration(RootExit) = TaskGeneration(RootExec)
            /\ events[RootExec].line < events[RootExit].line
            /\ actor[RootExec] \in DOMAIN generations
        BY <1>4, <2>5, ReaderFindsExit
      <3>2. PICK q : q = Provenance  OBVIOUS
      <3>3. /\ q.root = TaskGeneration(RootExec)
            /\ q.exec.index = RootExec /\ q.exec.line = events[RootExec].line
            /\ q.exec.end = events[RootExec].end
            /\ q.exit.index = RootExit /\ q.exit.line = events[RootExit].line
            /\ q.exit.end = events[RootExit].end
        BY <2>5, <3>2 DEF Provenance, Reference
      <3>4. q # NoProvenance
        <4>1. NoProvenance.exec.index = 0  BY DEF NoProvenance, NoReference
        <4>2. QED  BY <1>4, <3>3, <4>1
      <3>5. Rows(SavedEvents)  BY <1>1, SavedRows
      <3>6. Len(SavedEvents) = Len(events) /\ DOMAIN events = 1 .. Len(events) /\ Len(events) \in Nat
        BY <1>1, <3>5 DEF Rows, WorldTypeOK
      <3>7. \A i \in DOMAIN events : 0 < events[i].line /\ events[i].line <= events[i].end /\ events[i].end <= line
        <4>1. \A i \in DOMAIN events : 0 < events[i].line
          <5>1. \A i \in DOMAIN events : events[i].line \in 1 .. line
            BY <1>1, Zenon DEF WorldInv, Told, Written, EventTold
          <5>2. line \in Nat  BY <1>1 DEF WorldTypeOK
          <5>3. QED  BY <5>1, <5>2
        <4>2. QED  BY <1>1, <4>1 DEF LinesKept
      <3>8. q.root[1] = events[RootExec].pid /\ q.root[2] = generations[actor[RootExec]].ordinal
        BY <3>3 DEF TaskGeneration
      <3>9. q.root[2] # 0  BY <1>1, <3>1, <3>8, OrdinalPositive
      <3>10. EnvelopeValid(q, Len(SavedEvents), line)
        <4>1. Precedes(<<q.exec.line, q.exec.end, q.exec.index>>, <<q.exit.line, q.exit.end, q.exit.index>>)
          BY <3>1, <3>3 DEF Precedes
        <4>2. RootExec # RootExit  BY <2>1, <3>1
        <4>3. /\ q.exec.index \in 1 .. Len(SavedEvents) /\ 0 < q.exec.line
              /\ q.exec.line <= q.exec.end /\ q.exec.end <= line
          BY <2>1, <3>3, <3>6, <3>7
        <4>4. /\ q.exit.index \in 1 .. Len(SavedEvents) /\ 0 < q.exit.line
              /\ q.exit.line <= q.exit.end /\ q.exit.end <= line
          BY <3>1, <3>3, <3>6, <3>7
        <4>5. QED  BY <3>3, <3>9, <4>1, <4>2, <4>3, <4>4 DEF EnvelopeValid
      <3>11. ASSUME NEW i \in DOMAIN events
             PROVE  /\ SavedEvents[i].line = events[i].line /\ SavedEvents[i].end = events[i].end
                    /\ <<SavedEvents[i].pid, SavedEvents[i].taskGeneration>> = TaskGeneration(i)
        BY <1>1, <3>5, SavedRows DEF Rows, TaskGeneration
      <3>12. Refers(SavedEvents, q, q.exec)  BY <2>1, <3>3, <3>11 DEF Refers
      <3>13. Refers(SavedEvents, q, q.exit)  BY <3>1, <3>3, <3>11 DEF Refers
      <3>14. ProvenanceValid(SavedEvents, q)
        BY <1>2, <2>3, <3>3, <3>4, <3>8, <3>10, <3>12, <3>13 DEF ProvenanceValid
      <3>15. QED  BY <3>2, <3>14
    <2>6. QED  BY <2>4, <2>5
  <1>5. QED  BY <1>3, <1>4

(* For any PIDs and events: every record that the writer derives from a    *)
(* finished timeline passes validate_trace_provenance.                     *)
THEOREM WrittenIsAcceptedHolds == TimelineSpec => []WrittenIsAccepted
  <1>1. TimelineInv /\ TraceInv => WrittenIsAccepted
    <2> SUFFICES ASSUME TimelineInv, TraceInv, Finished
                 PROVE  ValidateTraceProvenance(SavedMetadata, SavedEvents)
      BY DEF WrittenIsAccepted
    <2>1. PICK r : r = Replay(SavedEvents)  OBVIOUS
    <2>2. /\ r.ok = TRUE /\ r.identityUncertain \in BOOLEAN
          /\ (r.missing # {} \/ r.identityUncertain = TRUE) <=> SavedMetadata.warned
          /\ SavedMetadata.warned <=> ~SavedMetadata.complete
          /\ SavedMetadata.provenance = Provenance
      BY <2>1, AdmissionAgrees
    <2>3. ProvenanceValid(SavedEvents, SavedMetadata.provenance)  BY <2>2, ProvenanceAccepted
    <2>4. QED  BY <2>1, <2>2, <2>3 DEF ValidateTraceProvenance
  <1>2. QED  BY <1>1, TraceInvariant, PTL

-----------------------------------------------------------------------------
(* What the reader refuses *)

(* A row with another ordinal or without its mark. *)
Alters(d, e) ==
  /\ d.pid = e.pid /\ d.kind = e.kind /\ d.childPid = e.childPid
  /\ d.line = e.line /\ d.end = e.end
  /\ d.taskGeneration \in Nat /\ d.childGeneration \in Nat
  /\ \/ d.taskGeneration # e.taskGeneration
     \/ /\ d.taskGeneration = e.taskGeneration
        /\ \/ d.childPid # NoPid /\ d.childGeneration # e.childGeneration
           \/ e.uncertain /\ ~d.uncertain

(* Where a row is accepted, and marked for a reason, no alteration is. *)
LEMMA RowRefused ==
  ASSUME NEW r \in ReaderType, r.ok = TRUE, NEW e, NEW d, Alters(d, e),
         e.pid \in Pids, e.childPid \in Pids \cup {NoPid},
         e.taskGeneration \in Nat, e.childGeneration \in Nat,
         ReadEvent(r, e).ok = TRUE, e.uncertain => Marks(r, e)
  PROVE  ReadEvent(r, d) \in ReaderType /\ ReadEvent(r, d).ok = FALSE
  <1>1. PICK a : a = ReadActor(r, e)  OBVIOUS
  <1>2. PICK b : b = ReadActor(r, d)  OBVIOUS
  <1>3. /\ d.pid = e.pid /\ d.kind = e.kind /\ d.childPid = e.childPid
        /\ d.taskGeneration \in Nat /\ d.childGeneration \in Nat
    BY DEF Alters
  <1>4. /\ a \in ReaderType
        /\ (a.ok = TRUE) <=> /\ r.ok = TRUE /\ e.taskGeneration = Expected(r, e.pid)
                             /\ Distrusts(r, e.pid) = TRUE => e.uncertain
        /\ a.latest = [r.latest EXCEPT ![e.pid] = e.taskGeneration]
        /\ a.active = [r.active EXCEPT ![e.pid] =
             IF e.kind = "exit" THEN NotActive
             ELSE [ordinal |-> e.taskGeneration, untrusted |-> Distrusts(r, e.pid)]]
    BY <1>1, ActorRead
  <1>5. /\ b \in ReaderType
        /\ (b.ok = TRUE) <=> /\ r.ok = TRUE /\ d.taskGeneration = Expected(r, e.pid)
                             /\ Distrusts(r, e.pid) = TRUE => d.uncertain
        /\ b.latest = [r.latest EXCEPT ![e.pid] = d.taskGeneration]
        /\ b.active = [r.active EXCEPT ![e.pid] =
             IF e.kind = "exit" THEN NotActive
             ELSE [ordinal |-> d.taskGeneration, untrusted |-> Distrusts(r, e.pid)]]
    <2>1. d.pid \in Pids /\ d.taskGeneration \in Nat  BY <1>3
    <2>2. /\ b \in ReaderType
          /\ (b.ok = TRUE) <=> /\ r.ok = TRUE /\ d.taskGeneration = Expected(r, d.pid)
                               /\ Distrusts(r, d.pid) = TRUE => d.uncertain
          /\ b.latest = [r.latest EXCEPT ![d.pid] = d.taskGeneration]
          /\ b.active = [r.active EXCEPT ![d.pid] =
               IF d.kind = "exit" THEN NotActive
               ELSE [ordinal |-> d.taskGeneration, untrusted |-> Distrusts(r, d.pid)]]
      BY <1>2, <2>1, ActorRead
    <2>3. QED  BY <1>3, <2>2
  <1>6. a.ok \in BOOLEAN /\ b.ok \in BOOLEAN  BY <1>4, <1>5 DEF ReaderType
  <1>7. a.ok = TRUE
    <2>1. a.ok # TRUE => ReadEvent(r, e) = a  BY <1>1, <1>6 DEF ReadEvent
    <2>2. QED  BY <1>6, <2>1
  <1>8. b.ok # TRUE => ReadEvent(r, d) = b  BY <1>2, <1>6 DEF ReadEvent
  <1>9. CASE b.ok # TRUE
    BY <1>5, <1>6, <1>8, <1>9
  <1>10. CASE b.ok = TRUE
    <2>1. e.taskGeneration = d.taskGeneration  BY <1>4, <1>5, <1>7, <1>10
    <2>2. a.latest = b.latest /\ a.active = b.active  BY <1>4, <1>5, <2>1
    <2>3. \/ d.childPid # NoPid /\ d.childGeneration # e.childGeneration
          \/ e.uncertain /\ ~d.uncertain
      BY <2>1 DEF Alters
    <2>4. e.uncertain /\ ~d.uncertain => e.childPid # NoPid /\ Known(a, e.childPid)
      <3>1. ~d.uncertain => Distrusts(r, e.pid) # TRUE  BY <1>5, <1>10
      <3>2. QED  BY <1>1, <3>1 DEF Marks
    <2>5. PICK c \in Pids : c = e.childPid /\ c = d.childPid /\ e.childPid # NoPid
      BY <1>3, <2>3, <2>4
    <2>6. ReadEvent(r, e) = ReadChild(a, e)  BY <1>1, <1>7, <2>5 DEF ReadEvent
    <2>7. ReadEvent(r, d) = ReadChild(b, d)  BY <1>2, <1>3, <1>10, <2>5 DEF ReadEvent
    <2>8. PICK s : s = ReadChild(a, e)  OBVIOUS
    <2>9. PICK t : t = ReadChild(b, d)  OBVIOUS
    <2>10. /\ s \in ReaderType
           /\ (s.ok = TRUE) <=> /\ a.ok = TRUE /\ e.childGeneration = a.latest[c] + 1
                                /\ Known(a, c) => e.uncertain
      <3>1. e.childPid \in Pids /\ a \in ReaderType  BY <1>4, <2>5
      <3>2. /\ s \in ReaderType
            /\ (s.ok = TRUE) <=> /\ a.ok = TRUE /\ e.childGeneration = a.latest[e.childPid] + 1
                                 /\ Known(a, e.childPid) => e.uncertain
        BY <2>8, <3>1, ChildRead
      <3>3. QED  BY <2>5, <3>2
    <2>11. /\ t \in ReaderType
           /\ (t.ok = TRUE) <=> /\ b.ok = TRUE /\ d.childGeneration = b.latest[c] + 1
                                /\ Known(b, c) => d.uncertain
      <3>1. d.childPid \in Pids /\ b \in ReaderType /\ d.childGeneration \in Nat  BY <1>3, <1>5, <2>5
      <3>2. /\ t \in ReaderType
            /\ (t.ok = TRUE) <=> /\ b.ok = TRUE /\ d.childGeneration = b.latest[d.childPid] + 1
                                 /\ Known(b, d.childPid) => d.uncertain
        BY <2>9, <3>1, ChildRead
      <3>3. QED  BY <2>5, <3>2
    <2>12. s.ok = TRUE  BY <2>6, <2>8
    <2>13. t.ok # TRUE
      <3>1. Known(a, c) <=> Known(b, c)  BY <2>2 DEF Known
      <3>2. e.childGeneration = b.latest[c] + 1  BY <2>2, <2>10, <2>12
      <3>3. d.childGeneration # e.childGeneration => t.ok # TRUE  BY <2>11, <3>2
      <3>4. e.uncertain /\ ~d.uncertain => t.ok # TRUE  BY <2>4, <2>5, <2>11, <3>1
      <3>5. QED  BY <2>3, <3>3, <3>4
    <2>14. t.ok \in BOOLEAN  BY <2>11 DEF ReaderType
    <2>15. QED  BY <2>7, <2>9, <2>11, <2>13, <2>14
  <1>11. QED  BY <1>9, <1>10

(* A function on 1 .. n is a sequence of that length. *)
LEMMA LengthOf ==
  ASSUME NEW n \in Nat, NEW s, s = [i \in 1 .. n |-> s[i]]
  PROVE  Len(s) = n
  <1>1. PICK R : R = {s[i] : i \in 1 .. n}  OBVIOUS
  <1>2. \A i \in 1 .. n : s[i] \in R  BY <1>1
  <1>3. s \in [1 .. n -> R]  BY <1>2
  <1>4. s \in Seq(R)  BY <1>3
  <1>5. QED  BY <1>3, <1>4

(* Once a row is refused the reader stops there. *)
LEMMA ReplayRefused ==
  ASSUME TimelineInv, Finished, NEW f, Follows(f), NEW saved, Rows(saved),
         NEW k \in DOMAIN events,
         \A j \in DOMAIN events : j # EventOrder[k] => saved[j] = SavedEvents[j],
         ReadEvent(f[k - 1], saved[EventOrder[k]]).ok = FALSE
  PROVE  Replay(saved).ok = FALSE
  <1>1. WorldTypeOK /\ Traced  BY FinishedFacts DEF TimelineInv
  <1>2. DOMAIN events = 1 .. Len(events) /\ Len(events) \in Nat /\ position = Len(events)
    BY <1>1 DEF WorldTypeOK, Finished
  <1>3. Len(saved) = Len(events) /\ Ordered(saved) = EventOrder  BY SameOrder DEF Rows
  <1>4. \A n \in DOMAIN events : EventOrder[n] \in DOMAIN events /\ Rank(EventOrder[n]) = n - 1
    BY <1>1, OrderIsTotal
  <1>5. PICK bad : bad = ReadEvent(f[k - 1], saved[EventOrder[k]])  OBVIOUS
  <1>6. \A e : ReadEvent(bad, e) = bad  BY <1>5 DEF ReadEvent
  <1>7. /\ f[0] = Unread
        /\ \A n \in 1 .. Len(events) : f[n] = ReadEvent(f[n - 1], SavedEvents[EventOrder[n]])
    BY <1>2 DEF Follows
  <1>8. PICK g : g = [n \in 0 .. Len(events) |-> IF n < k THEN f[n] ELSE bad]  OBVIOUS
  <1>9. ASSUME NEW n \in 0 .. Len(events), n # 0
        PROVE  g[n] = ReadEvent(g[n - 1], saved[EventOrder[n]])
    <2>1. n \in 1 .. Len(events) /\ n - 1 \in 0 .. Len(events) /\ n \in DOMAIN events  BY <1>2, <1>9
    <2>2. k \in Nat /\ n \in Nat  BY <1>2, <2>1
    <2>3. CASE n < k
      <3>1. EventOrder[n] # EventOrder[k]
        <4>1. Rank(EventOrder[n]) = n - 1 /\ Rank(EventOrder[k]) = k - 1  BY <1>4, <2>1
        <4>2. n - 1 # k - 1  BY <2>2, <2>3
        <4>3. QED  BY <4>1, <4>2
      <3>2. saved[EventOrder[n]] = SavedEvents[EventOrder[n]]  BY <1>4, <2>1, <3>1
      <3>3. g[n] = f[n] /\ g[n - 1] = f[n - 1]  BY <1>8, <2>1, <2>2, <2>3
      <3>4. QED  BY <1>7, <2>1, <3>2, <3>3
    <2>4. CASE n = k
      <3>1. g[n] = bad /\ g[n - 1] = f[k - 1]  BY <1>8, <2>1, <2>2, <2>4
      <3>2. QED  BY <1>5, <2>4, <3>1
    <2>5. CASE n > k
      <3>1. g[n] = bad /\ g[n - 1] = bad  BY <1>8, <2>1, <2>2, <2>5
      <3>2. QED  BY <1>6, <3>1
    <2>6. QED  BY <2>2, <2>3, <2>4, <2>5
  <1>10. g[0] = Unread
    <2>1. 0 < k /\ 0 \in 0 .. Len(events)  BY <1>2
    <2>2. QED  BY <1>7, <1>8, <2>1
  <1>11. Readings(saved, g)
    <2>1. g = [n \in 0 .. Len(events) |-> g[n]]  BY <1>8
    <2>2. \A n \in 0 .. Len(events) :
            g[n] = IF n = 0 THEN Unread ELSE ReadEvent(g[n - 1], saved[EventOrder[n]])
      BY <1>9, <1>10
    <2>3. g = [n \in 0 .. Len(events) |->
                 IF n = 0 THEN Unread ELSE ReadEvent(g[n - 1], saved[EventOrder[n]])]
      BY <2>1, <2>2
    <2>4. QED  BY <1>3, <2>3 DEF Readings
  <1>12. Replay(saved) = g[Len(events)]  BY <1>2, <1>3, <1>11, ReplayIs
  <1>13. g[Len(events)] = bad
    <2>1. Len(events) \in 0 .. Len(events) /\ ~(Len(events) < k)  BY <1>2
    <2>2. QED  BY <1>8, <2>1
  <1>14. QED  BY <1>5, <1>12, <1>13

(* Every altered row is refused. *)
LEMMA AlteredRowRefused ==
  ASSUME TimelineInv, TraceInv, Finished, NEW i \in DOMAIN events, NEW d, Alters(d, SavedEvents[i])
  PROVE  Replay([SavedEvents EXCEPT ![i] = d]).ok = FALSE
  <1>1. /\ WorldTypeOK /\ Traced /\ ReplayTypeOK /\ Attributed /\ Numbered(generations)
        /\ Handled = DOMAIN events /\ generations \in Seq(GenerationType)
    BY FinishedFacts DEF TimelineInv, ReplayParts
  <1>2. PICK f : Follows(f)  BY <1>1, BegunFollows DEF TraceInv
  <1>3. DOMAIN events = 1 .. Len(events) /\ Len(events) \in Nat /\ position = Len(events)
    BY <1>1 DEF WorldTypeOK, Finished
  <1>4. PICK k \in DOMAIN events : k = Rank(i) + 1  BY <1>1, <1>3, RankOrder
  <1>5. EventOrder[k] = i
    <2>1. EventOrder[k] \in DOMAIN events /\ Rank(EventOrder[k]) = k - 1  BY <1>1, OrderIsTotal
    <2>2. Rank(i) \in 0 .. Len(events) - 1  BY <1>1, RankOrder
    <2>3. Rank(EventOrder[k]) = Rank(i)  BY <1>3, <1>4, <2>1, <2>2
    <2>4. QED  BY <1>1, <2>1, <2>3, RankOrder
  <1>6. PICK e : e = SavedEvents[i]  OBVIOUS
  <1>7. /\ e.pid \in Pids /\ e.childPid \in Pids \cup {NoPid}
        /\ e.taskGeneration \in Nat /\ e.childGeneration \in Nat
        /\ e.line = events[i].line /\ e.end = events[i].end
    <2>1. events[i] \in EventType  BY <1>1 DEF WorldTypeOK
    <2>2. /\ e.pid = events[i].pid /\ e.childPid = events[i].childPid
          /\ e.taskGeneration = generations[actor[i]].ordinal
          /\ e.childGeneration = IF child[i] = 0 THEN 0 ELSE generations[child[i]].ordinal
          /\ e.line = events[i].line /\ e.end = events[i].end
      BY <1>6 DEF SavedEvents
    <2>3. actor[i] \in DOMAIN generations /\ (child[i] # 0 => child[i] \in DOMAIN generations)
      BY <1>1 DEF Attributed
    <2>4. \A g \in DOMAIN generations : generations[g].ordinal \in Nat  BY <1>1, OrdinalPositive
    <2>5. QED  BY <2>1, <2>2, <2>3, <2>4 DEF EventType
  <1>8. /\ f[k - 1] \in ReaderType /\ f[k - 1].ok = TRUE
        /\ ReadEvent(f[k - 1], e).ok = TRUE /\ (e.uncertain => Marks(f[k - 1], e))
    <2>1. k \in 1 .. position /\ k - 1 \in Nat /\ (k - 1 = 0 \/ k - 1 \in 1 .. position)  BY <1>3
    <2>2. /\ f[k] = ReadEvent(f[k - 1], SavedEvents[EventOrder[k]]) /\ f[k].ok = TRUE
          /\ SavedEvents[EventOrder[k]].uncertain => Marks(f[k - 1], SavedEvents[EventOrder[k]])
      BY <1>2, <2>1 DEF Follows
    <2>3. f[k - 1] \in ReaderType  BY <1>2, <2>1 DEF Follows
    <2>4. f[k - 1].ok = TRUE
      <3>1. Unread.ok = TRUE  BY DEF Unread
      <3>2. QED  BY <1>2, <2>1, <3>1 DEF Follows
    <2>5. QED  BY <1>5, <1>6, <2>2, <2>3, <2>4
  <1>9. ReadEvent(f[k - 1], d).ok = FALSE
    <2>1. Alters(d, e)  BY <1>6
    <2>2. PICK r \in ReaderType : r = f[k - 1]  BY <1>8
    <2>3. r.ok = TRUE /\ ReadEvent(r, e).ok = TRUE /\ (e.uncertain => Marks(r, e))  BY <1>8, <2>2
    <2>4. ReadEvent(r, d).ok = FALSE  BY <1>7, <2>1, <2>3, RowRefused
    <2>5. QED  BY <2>2, <2>4
  <1>10. PICK saved : saved = [SavedEvents EXCEPT ![i] = d]  OBVIOUS
  <1>11. Rows(SavedEvents)  BY <1>1, SavedRows
  <1>12. /\ DOMAIN saved = DOMAIN events /\ saved[i] = d
         /\ \A j \in DOMAIN events : j # i => saved[j] = SavedEvents[j]
         /\ saved = [j \in 1 .. Len(events) |-> saved[j]]
    BY <1>3, <1>10, <1>11 DEF Rows
  <1>13. Len(saved) = Len(events)  BY <1>3, <1>12, LengthOf
  <1>14. Rows(saved)
    <2>1. d.line = events[i].line /\ d.end = events[i].end  BY <1>6, <1>7 DEF Alters
    <2>2. QED  BY <1>11, <1>12, <1>13, <2>1 DEF Rows
  <1>15. Replay(saved).ok = FALSE
    <2>1. ReadEvent(f[k - 1], saved[EventOrder[k]]).ok = FALSE  BY <1>5, <1>9, <1>12
    <2>2. \A j \in DOMAIN events : j # EventOrder[k] => saved[j] = SavedEvents[j]  BY <1>5, <1>12
    <2>3. QED  BY <1>2, <1>14, <2>1, <2>2, ReplayRefused
  <1>16. QED  BY <1>10, <1>15

(* So is every altered event. *)
LEMMA AlteredEventsRefused ==
  ASSUME TimelineInv, TraceInv, Finished, NEW saved \in AlteredEvents
  PROVE  Replay(saved).ok = FALSE
  <1> DEFINE Ordinals == 0 .. Len(events) + 1
  <1>1. PICK i \in DOMAIN events :
          \/ \E n \in Ordinals \ {SavedEvents[i].taskGeneration} :
               saved = [SavedEvents EXCEPT ![i].taskGeneration = n]
          \/ /\ SavedEvents[i].childPid # NoPid
             /\ \E n \in Ordinals \ {SavedEvents[i].childGeneration} :
                  saved = [SavedEvents EXCEPT ![i].childGeneration = n]
          \/ SavedEvents[i].uncertain /\ saved = [SavedEvents EXCEPT ![i].uncertain = FALSE]
    <2> DEFINE Actors(i) == {[SavedEvents EXCEPT ![i].taskGeneration = n] :
                                n \in Ordinals \ {SavedEvents[i].taskGeneration}}
               Children(i) == {[SavedEvents EXCEPT ![i].childGeneration = n] :
                                  n \in Ordinals \ {SavedEvents[i].childGeneration}}
               Unmarked(i) == {[SavedEvents EXCEPT ![i].uncertain = FALSE]}
    <2>1. AlteredEvents =
            UNION {Actors(i) \cup (IF SavedEvents[i].childPid = NoPid THEN {} ELSE Children(i))
                             \cup (IF SavedEvents[i].uncertain THEN Unmarked(i) ELSE {})
                   : i \in DOMAIN events}
      BY DEF AlteredEvents
    <2> HIDE DEF Actors, Children, Unmarked
    <2>2. PICK i \in DOMAIN events :
            \/ saved \in Actors(i)
            \/ SavedEvents[i].childPid # NoPid /\ saved \in Children(i)
            \/ SavedEvents[i].uncertain /\ saved \in Unmarked(i)
      BY <2>1
    <2>3. QED  BY <2>2 DEF Actors, Children, Unmarked
  <1>2. /\ WorldTypeOK /\ Attributed /\ Numbered(generations)
        /\ Handled = DOMAIN events /\ generations \in Seq(GenerationType)
    BY FinishedFacts DEF TimelineInv, ReplayParts
  <1>3. \A n \in Ordinals : n \in Nat
    <2>1. Len(events) \in Nat  BY <1>2 DEF WorldTypeOK
    <2>2. QED  BY <2>1
  <1> HIDE DEF Ordinals
  <1>4. PICK e : e = SavedEvents[i]  OBVIOUS
  <1>5. PICK pid, kind, from, end, tg, cp, cg, unc :
          e = [pid |-> pid, kind |-> kind, line |-> from, end |-> end, taskGeneration |-> tg,
               childPid |-> cp, childGeneration |-> cg, uncertain |-> unc]
    BY <1>4 DEF SavedEvents
  <1>6. tg \in Nat /\ cg \in Nat
    <2>1. /\ e.taskGeneration = generations[actor[i]].ordinal
          /\ e.childGeneration = IF child[i] = 0 THEN 0 ELSE generations[child[i]].ordinal
      BY <1>4 DEF SavedEvents
    <2>2. actor[i] \in DOMAIN generations /\ (child[i] # 0 => child[i] \in DOMAIN generations)
      BY <1>2 DEF Attributed
    <2>3. \A g \in DOMAIN generations : generations[g].ordinal \in Nat  BY <1>2, OrdinalPositive
    <2>4. QED  BY <1>5, <2>1, <2>2, <2>3
  <1>7. ASSUME NEW d, Alters(d, e), saved = [SavedEvents EXCEPT ![i] = d]
        PROVE  Replay(saved).ok = FALSE
    BY <1>4, <1>7, AlteredRowRefused
  <1>8. CASE \E n \in Ordinals \ {SavedEvents[i].taskGeneration} :
               saved = [SavedEvents EXCEPT ![i].taskGeneration = n]
    <2>1. PICK n \in Ordinals : n # e.taskGeneration /\ saved = [SavedEvents EXCEPT ![i].taskGeneration = n]
      BY <1>4, <1>8
    <2>2. PICK d : d = [e EXCEPT !.taskGeneration = n]  OBVIOUS
    <2>3. saved = [SavedEvents EXCEPT ![i] = d]  BY <1>4, <2>1, <2>2
    <2>4. Alters(d, e)  BY <1>3, <1>5, <1>6, <2>1, <2>2 DEF Alters
    <2>5. QED  BY <1>7, <2>3, <2>4
  <1>9. CASE /\ SavedEvents[i].childPid # NoPid
             /\ \E n \in Ordinals \ {SavedEvents[i].childGeneration} :
                  saved = [SavedEvents EXCEPT ![i].childGeneration = n]
    <2>1. PICK n \in Ordinals :
            /\ n # e.childGeneration /\ e.childPid # NoPid
            /\ saved = [SavedEvents EXCEPT ![i].childGeneration = n]
      BY <1>4, <1>9
    <2>2. PICK d : d = [e EXCEPT !.childGeneration = n]  OBVIOUS
    <2>3. saved = [SavedEvents EXCEPT ![i] = d]  BY <1>4, <2>1, <2>2
    <2>4. Alters(d, e)  BY <1>3, <1>5, <1>6, <2>1, <2>2 DEF Alters
    <2>5. QED  BY <1>7, <2>3, <2>4
  <1>10. CASE SavedEvents[i].uncertain /\ saved = [SavedEvents EXCEPT ![i].uncertain = FALSE]
    <2>1. PICK d : d = [e EXCEPT !.uncertain = FALSE]  OBVIOUS
    <2>2. saved = [SavedEvents EXCEPT ![i] = d]  BY <1>4, <1>10, <2>1
    <2>3. Alters(d, e)  BY <1>4, <1>5, <1>6, <1>10, <2>1 DEF Alters
    <2>4. QED  BY <1>7, <2>2, <2>3
  <1>11. QED  BY <1>1, <1>8, <1>9, <1>10

(* The only references that pass are those of Completion. *)
LEMMA ProvenanceIs ==
  ASSUME TimelineInv, TraceInv, Finished, NEW q, ProvenanceValid(SavedEvents, q)
  PROVE  /\ q = NoProvenance => RootExit = 0
         /\ q # NoProvenance =>
              /\ RootExec # 0 /\ RootExit # 0
              /\ q.exec.index = RootExec /\ q.exit.index = RootExit
              /\ q.root = TaskGeneration(RootExec)
  <1>1. WorldTypeOK  BY DEF TimelineInv
  <1>2. FirstExec(SavedEvents) = RootExec  BY ReaderFindsExec
  <1>3. ASSUME RootExec # 0
        PROVE  /\ SavedEvents[RootExec].pid = events[RootExec].pid
               /\ SavedEvents[RootExec].taskGeneration = generations[actor[RootExec]].ordinal
               /\ ExitOf(SavedEvents, events[RootExec].pid, generations[actor[RootExec]].ordinal) = RootExit
    <2>1. RootExec \in DOMAIN events  BY <1>3, ReaderFindsExec
    <2>2. QED  BY <1>1, <1>3, <2>1, SavedRows, ReaderFindsExit
  <1>4. CASE q = NoProvenance
    <2>1. RootExec # 0 =>
            ExitOf(SavedEvents, SavedEvents[RootExec].pid, SavedEvents[RootExec].taskGeneration) = 0
      BY <1>2, <1>4 DEF ProvenanceValid
    <2>2. RootExec = 0 => RootExit = 0  BY DEF RootExit
    <2>3. QED  BY <1>3, <1>4, <2>1, <2>2
  <1>5. CASE q # NoProvenance
    <2>1. /\ EnvelopeValid(q, Len(SavedEvents), line) /\ Refers(SavedEvents, q, q.exec)
          /\ RootExec = q.exec.index
          /\ ExitOf(SavedEvents, q.root[1], q.root[2]) = q.exit.index
      BY <1>2, <1>5 DEF ProvenanceValid
    <2>2. q.exec.index \in 1 .. Len(SavedEvents) /\ q.exit.index \in 1 .. Len(SavedEvents)
      BY <2>1 DEF EnvelopeValid
    <2>3. q.exec.index # 0 /\ q.exit.index # 0
      <3>1. Len(SavedEvents) \in Nat  BY <1>1, SavedRows DEF Rows, WorldTypeOK
      <3>2. QED  BY <2>2, <3>1
    <2>4. <<SavedEvents[RootExec].pid, SavedEvents[RootExec].taskGeneration>> = q.root
      BY <2>1 DEF Refers
    <2>5. q.root = TaskGeneration(RootExec)  BY <1>3, <2>1, <2>3, <2>4 DEF TaskGeneration
    <2>6. q.root[1] = events[RootExec].pid /\ q.root[2] = generations[actor[RootExec]].ordinal
      BY <2>5 DEF TaskGeneration
    <2>7. q.exit.index = RootExit  BY <1>3, <2>1, <2>3, <2>6
    <2>8. QED  BY <1>5, <2>1, <2>3, <2>5, <2>7
  <1>6. QED  BY <1>4, <1>5

(* What can be altered in the metadata. *)
LEMMA AlteredClaims ==
  ASSUME NEW metadata \in AlteredMetadata
  PROVE  \/ /\ ~SavedMetadata.complete
            /\ \/ metadata = [SavedMetadata EXCEPT !.complete = TRUE]
               \/ metadata = [SavedMetadata EXCEPT !.warned = FALSE]
         \/ \E q : /\ metadata = [SavedMetadata EXCEPT !.provenance = q]
                   /\ \/ /\ Provenance = NoProvenance
                         /\ \E i, j \in DOMAIN events :
                              q = [root |-> TaskGeneration(i), exec |-> Reference(i), exit |-> Reference(j)]
                      \/ /\ Provenance # NoProvenance
                         /\ \/ q = NoProvenance
                            \/ \E i \in DOMAIN events :
                                 Reference(i) # Provenance.exec /\ q = [Provenance EXCEPT !.exec = Reference(i)]
                            \/ \E i \in DOMAIN events :
                                 Reference(i) # Provenance.exit /\ q = [Provenance EXCEPT !.exit = Reference(i)]
                            \/ \E i \in DOMAIN events :
                                 TaskGeneration(i) # Provenance.root
                                 /\ q = [Provenance EXCEPT !.root = TaskGeneration(i)]
  <1> DEFINE Others(r) == {Reference(i) : i \in DOMAIN events} \ {r}
             Claims == {[SavedMetadata EXCEPT !.complete = TRUE], [SavedMetadata EXCEPT !.warned = FALSE]}
             Invented == {[SavedMetadata EXCEPT !.provenance = [root |-> TaskGeneration(i), exec |-> Reference(i),
                                                                exit |-> Reference(j)]] :
                            i, j \in DOMAIN events}
             Dropped == {[SavedMetadata EXCEPT !.provenance = NoProvenance]}
             Execed == {[SavedMetadata EXCEPT !.provenance.exec = r] : r \in Others(Provenance.exec)}
             Exited == {[SavedMetadata EXCEPT !.provenance.exit = r] : r \in Others(Provenance.exit)}
             Rooted == {[SavedMetadata EXCEPT !.provenance.root = TaskGeneration(i)] :
                          i \in {j \in DOMAIN events : TaskGeneration(j) # Provenance.root}}
  <1>1. AlteredMetadata =
          (IF SavedMetadata.complete THEN {} ELSE Claims)
          \cup (IF Provenance = NoProvenance THEN Invented
                ELSE Dropped \cup Execed \cup Exited \cup Rooted)
    BY DEF AlteredMetadata
  <1>2. SavedMetadata.provenance = Provenance  BY DEF SavedMetadata
  <1>3. metadata \in Execed =>
          \E i \in DOMAIN events :
            /\ Reference(i) # Provenance.exec
            /\ metadata = [SavedMetadata EXCEPT !.provenance = [Provenance EXCEPT !.exec = Reference(i)]]
    BY <1>2, Zenon
  <1>4. metadata \in Exited =>
          \E i \in DOMAIN events :
            /\ Reference(i) # Provenance.exit
            /\ metadata = [SavedMetadata EXCEPT !.provenance = [Provenance EXCEPT !.exit = Reference(i)]]
    BY <1>2, Zenon
  <1>5. metadata \in Rooted =>
          \E i \in DOMAIN events :
            /\ TaskGeneration(i) # Provenance.root
            /\ metadata = [SavedMetadata EXCEPT !.provenance = [Provenance EXCEPT !.root = TaskGeneration(i)]]
    BY <1>2, Zenon
  <1>6. metadata \in Invented =>
          \E i, j \in DOMAIN events :
            metadata = [SavedMetadata EXCEPT !.provenance = [root |-> TaskGeneration(i), exec |-> Reference(i),
                                                             exit |-> Reference(j)]]
    OBVIOUS
  <1>7. metadata \in Dropped => metadata = [SavedMetadata EXCEPT !.provenance = NoProvenance]
    OBVIOUS
  <1>8. metadata \in Claims =>
          \/ metadata = [SavedMetadata EXCEPT !.complete = TRUE]
          \/ metadata = [SavedMetadata EXCEPT !.warned = FALSE]
    OBVIOUS
  <1> HIDE DEF Claims, Invented, Dropped, Execed, Exited, Rooted
  <1>9. \/ ~SavedMetadata.complete /\ metadata \in Claims
        \/ Provenance = NoProvenance /\ metadata \in Invented
        \/ Provenance # NoProvenance /\ metadata \in Dropped
        \/ Provenance # NoProvenance /\ metadata \in Execed
        \/ Provenance # NoProvenance /\ metadata \in Exited
        \/ Provenance # NoProvenance /\ metadata \in Rooted
    BY <1>1
  <1>10. QED  BY <1>3, <1>4, <1>5, <1>6, <1>7, <1>8, <1>9, Zenon

(* No alteration of the references passes. *)
LEMMA AlteredReferencesRefused ==
  ASSUME TimelineInv, TraceInv, Finished, NEW q,
         \/ /\ Provenance = NoProvenance
            /\ \E i, j \in DOMAIN events :
                 q = [root |-> TaskGeneration(i), exec |-> Reference(i), exit |-> Reference(j)]
         \/ /\ Provenance # NoProvenance
            /\ \/ q = NoProvenance
               \/ \E i \in DOMAIN events :
                    Reference(i) # Provenance.exec /\ q = [Provenance EXCEPT !.exec = Reference(i)]
               \/ \E i \in DOMAIN events :
                    Reference(i) # Provenance.exit /\ q = [Provenance EXCEPT !.exit = Reference(i)]
               \/ \E i \in DOMAIN events :
                    TaskGeneration(i) # Provenance.root /\ q = [Provenance EXCEPT !.root = TaskGeneration(i)]
  PROVE  ~ProvenanceValid(SavedEvents, q)
  <1> SUFFICES ASSUME ProvenanceValid(SavedEvents, q) PROVE FALSE
    OBVIOUS
  <1>1. /\ q = NoProvenance => RootExit = 0
        /\ q # NoProvenance =>
             /\ RootExec # 0 /\ RootExit # 0
             /\ q.exec.index = RootExec /\ q.exit.index = RootExit
             /\ q.root = TaskGeneration(RootExec)
    BY ProvenanceIs
  <1>2. NoProvenance.exec.index = 0 /\ NoProvenance.exit.index = 0  BY DEF NoProvenance, NoReference
  <1>3. \A i \in DOMAIN events : Reference(i).index = i /\ i # 0
    <2>1. DOMAIN events = 1 .. Len(events) /\ Len(events) \in Nat  BY DEF TimelineInv, WorldTypeOK
    <2>2. QED  BY <2>1 DEF Reference
  <1>4. CASE Provenance = NoProvenance
    <2>1. PICK i \in DOMAIN events, j \in DOMAIN events :
            q = [root |-> TaskGeneration(i), exec |-> Reference(i), exit |-> Reference(j)]
      BY <1>4
    <2>2. q # NoProvenance
      <3>1. q.exec.index = i  BY <1>3, <2>1
      <3>2. QED  BY <1>2, <1>3, <3>1
    <2>3. RootExec # 0 /\ RootExit # 0 /\ RootExec \in DOMAIN events  BY <1>1, <2>2, ReaderFindsExec
    <2>4. Provenance.exec.index = RootExec  BY <1>3, <2>3 DEF Provenance
    <2>5. QED  BY <1>2, <1>4, <2>3, <2>4
  <1>5. CASE Provenance # NoProvenance
    <2>1. RootExit # 0  BY <1>5 DEF Provenance
    <2>2. RootExec # 0  BY <2>1 DEF RootExit
    <2>3. Provenance = [root |-> TaskGeneration(RootExec),
                        exec |-> Reference(RootExec), exit |-> Reference(RootExit)]
      BY <2>1 DEF Provenance
    <2>4. RootExec \in DOMAIN events /\ RootExit \in DOMAIN events
      BY <2>1, <2>2, ReaderFindsExec, ReaderFindsExit
    <2>5. CASE q = NoProvenance
      BY <1>1, <2>1, <2>5
    <2>6. ASSUME NEW i \in DOMAIN events, Reference(i) # Provenance.exec,
                 q = [Provenance EXCEPT !.exec = Reference(i)]
          PROVE  FALSE
      <3>1. q.exec = Reference(i)  BY <2>3, <2>6
      <3>2. i # RootExec  BY <2>3, <2>6
      <3>3. q.exec.index = i  BY <1>3, <3>1
      <3>4. q # NoProvenance  BY <1>2, <1>3, <3>3
      <3>5. QED  BY <1>1, <3>2, <3>3, <3>4
    <2>7. ASSUME NEW i \in DOMAIN events, Reference(i) # Provenance.exit,
                 q = [Provenance EXCEPT !.exit = Reference(i)]
          PROVE  FALSE
      <3>1. q.exit = Reference(i)  BY <2>3, <2>7
      <3>2. i # RootExit  BY <2>3, <2>7
      <3>3. q.exit.index = i  BY <1>3, <3>1
      <3>4. q # NoProvenance  BY <1>2, <1>3, <3>3
      <3>5. QED  BY <1>1, <3>2, <3>3, <3>4
    <2>8. ASSUME NEW i \in DOMAIN events, TaskGeneration(i) # Provenance.root,
                 q = [Provenance EXCEPT !.root = TaskGeneration(i)]
          PROVE  FALSE
      <3>1. q.root = TaskGeneration(i) /\ q.exec = Reference(RootExec)  BY <2>3, <2>8
      <3>2. TaskGeneration(i) # TaskGeneration(RootExec)  BY <2>3, <2>8
      <3>3. q.exec.index = RootExec  BY <1>3, <2>4, <3>1
      <3>4. q # NoProvenance  BY <1>2, <2>2, <3>3
      <3>5. QED  BY <1>1, <3>1, <3>2, <3>4
    <2>9. QED  BY <1>5, <2>5, <2>6, <2>7, <2>8
  <1>6. QED  BY <1>4, <1>5

(* For any PIDs and events: validate_trace_provenance refuses every record *)
(* of a finished timeline in which one ordinal, mark, admission or         *)
(* reference was altered.                                                  *)
THEOREM AlterationIsRefusedHolds == TimelineSpec => []AlterationIsRefused
  <1>1. TimelineInv /\ TraceInv => AlterationIsRefused
    <2> SUFFICES ASSUME TimelineInv, TraceInv, Finished
                 PROVE  /\ \A saved \in AlteredEvents : ~ValidateTraceProvenance(SavedMetadata, saved)
                        /\ \A metadata \in AlteredMetadata : ~ValidateTraceProvenance(metadata, SavedEvents)
      BY DEF AlterationIsRefused
    <2>1. ASSUME NEW saved \in AlteredEvents
          PROVE  ~ValidateTraceProvenance(SavedMetadata, saved)
      <3>1. Replay(saved).ok = FALSE  BY AlteredEventsRefused
      <3>2. QED  BY <3>1 DEF ValidateTraceProvenance
    <2>2. ASSUME NEW metadata \in AlteredMetadata
          PROVE  ~ValidateTraceProvenance(metadata, SavedEvents)
      <3>1. PICK r : r = Replay(SavedEvents)  OBVIOUS
      <3>2. /\ r.identityUncertain \in BOOLEAN
            /\ (r.missing # {} \/ r.identityUncertain = TRUE) <=> SavedMetadata.warned
            /\ SavedMetadata.warned <=> ~SavedMetadata.complete
        BY <3>1, AdmissionAgrees
      <3>3. PICK warned, complete : SavedMetadata = [warned |-> warned, complete |-> complete,
                                                     provenance |-> Provenance]
        BY DEF SavedMetadata
      <3>4. ValidateTraceProvenance(metadata, SavedEvents) =>
              /\ r.missing # {} \/ r.identityUncertain => metadata.warned /\ ~metadata.complete
              /\ ProvenanceValid(SavedEvents, metadata.provenance)
        BY <3>1 DEF ValidateTraceProvenance
      <3>5. CASE /\ ~SavedMetadata.complete
                 /\ \/ metadata = [SavedMetadata EXCEPT !.complete = TRUE]
                    \/ metadata = [SavedMetadata EXCEPT !.warned = FALSE]
        <4>1. metadata.complete = TRUE \/ metadata.warned = FALSE  BY <3>3, <3>5
        <4>2. r.missing # {} \/ r.identityUncertain = TRUE  BY <3>2, <3>5
        <4>3. QED  BY <3>4, <4>1, <4>2
      <3>6. ASSUME NEW q, metadata = [SavedMetadata EXCEPT !.provenance = q],
                   ~ProvenanceValid(SavedEvents, q)
            PROVE  ~ValidateTraceProvenance(metadata, SavedEvents)
        <4>1. metadata.provenance = q  BY <3>3, <3>6
        <4>2. QED  BY <3>4, <3>6, <4>1
      <3>7. QED  BY <3>5, <3>6, AlteredClaims, AlteredReferencesRefused
    <2>3. QED  BY <2>1, <2>2
  <1>2. QED  BY <1>1, TraceInvariant, PTL
====

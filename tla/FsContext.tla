------------------------------ MODULE FsContext ------------------------------
(***************************************************************************)
(* Working directories attributed to the rows of a trace, from FsState and *)
(* resolve_context in src/parse/mod.rs.                                    *)
(*                                                                         *)
(* Real tasks share, copy and split kernel fs_structs while strace writes  *)
(* the lines of their calls: one line, or an entry and a return with other *)
(* lines between, the effect happening somewhere inside.  The trace may    *)
(* end in any state, so the rows are a function of what is written so far. *)
(* Lifetimes are those of TaskTimeline; every call carries, as history the *)
(* code cannot see, the directory its task really was in on entry.         *)
(***************************************************************************)
EXTENDS Naturals, Sequences, FiniteSets, SequencesExt, Functions, TLC

CONSTANTS
  Dirs,         \* absolute directory names
  NoDir,        \* no directory evidence
  MaxTasks,     \* bound on real tasks
  MaxCalls,     \* bound on calls, finished or not
  MaxLost,      \* bound on exits missing from the trace
  Changes,      \* kinds of calls that happen besides clone, unshare and plain ones
  CloneFlags,   \* flag sets passed to successful clones
  UnshareFlags  \* flag sets passed to successful unshares

(* Of a flag set only this matters: FS, a namespace that implies FS for    *)
(* unshare, a namespace that does not, and a term no decoder knows.        *)
Flags == {"FS", "NEWNS", "NEWNET", "other"}

ASSUME FsAssumption ==
  /\ NoDir \notin Dirs
  /\ Changes \subseteq {"Cwd", "Relative", "RelativeCwd", "InvalidateConnected", "InvalidateAll"}
  /\ CloneFlags \subseteq SUBSET Flags /\ UnshareFlags \subseteq SUBSET Flags
  /\ \A f \in CloneFlags : ~({"FS", "NEWNS"} \subseteq f)  \* EINVAL

Tasks == 1 .. MaxTasks
Structs == 1 .. MaxTasks + MaxCalls

VARIABLES
  born,     \* tasks so far
  running,  \* those not yet gone
  fs,       \* kernel fs_struct of a task
  cwd,      \* working directory of an fs_struct
  initial,  \* the directory the first task starts in, known to the recorder
  structs,  \* fs_structs so far
  inside,   \* call a task is inside, 0 if none
  calls,    \* in the order of their entries
  line,     \* lines of the trace so far
  lost,     \* tasks whose exit line is missing, their PIDs free again
  losses,   \* how many such lines there were
  cut       \* a call took effect and its task was killed before the return

fsVars == <<born, running, fs, cwd, initial, structs, inside, calls, line, lost, losses, cut>>

FsInit ==
  /\ born = 1 /\ running = {1} /\ fs = [t \in Tasks |-> 1]
  /\ initial \in Dirs /\ cwd = [s \in Structs |-> initial]
  /\ structs = 1 /\ inside = [t \in Tasks |-> 0] /\ calls = <<>>
  /\ line = 0 /\ lost = {} /\ losses = 0 /\ cut = FALSE

-----------------------------------------------------------------------------
(* The traced tasks, their kernel and strace (external) *)

NewCall(t, action, flags, end, previous) ==
  [task |-> t, action |-> action, flags |-> flags, line |-> line + 1, end |-> end,
   done |-> FALSE, target |-> NoDir, child |-> 0, previous |-> previous,
   was |-> cwd[fs[t]]]

Idle(t) == t \in running /\ inside[t] = 0 /\ Len(calls) < MaxCalls

(* A call without effect on directories, for example a failed one, perhaps *)
(* with a relative operand.                                                *)
Call(t) ==
  /\ Idle(t)
  /\ \E action \in {"None"} \cup (Changes \cap {"Relative"}) :
       calls' = Append(calls, NewCall(t, action, {}, line + 1, 0))
  /\ line' = line + 1
  /\ UNCHANGED <<initial, born, running, fs, cwd, structs, inside, lost, losses, cut>>

Enter(t, action, flags, previous) ==
  /\ Idle(t)
  /\ calls' = Append(calls, NewCall(t, action, flags, 0, previous))
  /\ inside' = [inside EXCEPT ![t] = Len(calls) + 1]
  /\ line' = line + 1
  /\ lost' = lost \ {previous}
  /\ UNCHANGED <<initial, born, running, fs, cwd, structs, losses, cut>>

(* chdir and fchdir, with or without an absolute directory in the line. *)
EnterCwd(t) == \E action \in Changes \cap {"Cwd", "RelativeCwd"} : Enter(t, action, {}, 0)
(* The child may get the PID of a task whose exit line is missing. *)
EnterSpawn(t) ==
  \E flags \in CloneFlags, previous \in lost \cup {0} : Enter(t, "Spawn", flags, previous)
EnterUnshare(t) == \E flags \in UnshareFlags : Enter(t, "Unshare", flags, 0)
(* chroot and setns, or the mount calls and pivot_root. *)
EnterInvalidate(t) ==
  \E action \in Changes \cap {"InvalidateConnected", "InvalidateAll"} : Enter(t, action, {}, 0)

(* A namespace, root or mount change gives a directory another name. *)
Renamed(s) == Dirs \ {cwd[s]}

Takes(t, actions) ==
  /\ t \in running /\ inside[t] # 0
  /\ ~calls[inside[t]].done /\ calls[inside[t]].action \in actions

TakeCwd(t) ==
  /\ Takes(t, {"Cwd", "RelativeCwd"})
  /\ \E d \in Dirs :
       /\ cwd' = [cwd EXCEPT ![fs[t]] = d]
       /\ calls' = [calls EXCEPT ![inside[t]].done = TRUE,
                                 ![inside[t]].target =
                                    IF calls[inside[t]].action = "Cwd" THEN d ELSE NoDir]
  /\ UNCHANGED <<initial, born, running, fs, structs, inside, line, lost, losses, cut>>

TakeSpawn(t) ==
  LET c == born + 1
      shared == "FS" \in calls[inside[t]].flags
  IN /\ Takes(t, {"Spawn"}) /\ born < MaxTasks
     /\ born' = c /\ running' = running \cup {c}
     /\ fs' = [fs EXCEPT ![c] = IF shared THEN fs[t] ELSE structs + 1]
     /\ structs' = IF shared THEN structs ELSE structs + 1
     /\ \E d \in IF "NEWNS" \in calls[inside[t]].flags THEN Renamed(fs[t]) ELSE {cwd[fs[t]]} :
          cwd' = [cwd EXCEPT ![fs'[c]] = d]
     /\ calls' = [calls EXCEPT ![inside[t]].done = TRUE, ![inside[t]].child = c]
     /\ UNCHANGED <<initial, inside, line, lost, losses, cut>>

TakeUnshare(t) ==
  LET splits == calls[inside[t]].flags \cap {"FS", "NEWNS"} # {}
  IN /\ Takes(t, {"Unshare"})
     /\ fs' = [fs EXCEPT ![t] = IF splits THEN structs + 1 ELSE @]
     /\ structs' = IF splits THEN structs + 1 ELSE structs
     /\ \E d \in IF "NEWNS" \in calls[inside[t]].flags THEN Renamed(fs[t]) ELSE {cwd[fs[t]]} :
          cwd' = [cwd EXCEPT ![fs'[t]] = d]
     /\ calls' = [calls EXCEPT ![inside[t]].done = TRUE]
     /\ UNCHANGED <<initial, born, running, inside, line, lost, losses, cut>>

(* The names of one task's directories change, or those of any task. *)
TakeInvalidate(t) ==
  /\ Takes(t, {"InvalidateConnected", "InvalidateAll"})
  /\ LET reached == {fs[u] : u \in IF calls[inside[t]].action = "InvalidateAll" THEN running ELSE {t}}
     IN \E new \in [reached -> Dirs] : (\A s \in reached : new[s] # cwd[s]) /\ cwd' = new @@ cwd
  /\ calls' = [calls EXCEPT ![inside[t]].done = TRUE]
  /\ UNCHANGED <<initial, born, running, fs, structs, inside, line, lost, losses, cut>>

(* A return needs a line of its own once another line followed the entry. *)
Return(t) ==
  /\ t \in running /\ inside[t] # 0 /\ calls[inside[t]].done
  /\ line' = IF calls[inside[t]].line = line THEN line ELSE line + 1
  /\ calls' = [calls EXCEPT ![inside[t]].end = line']
  /\ inside' = [inside EXCEPT ![t] = 0]
  /\ UNCHANGED <<initial, born, running, fs, cwd, structs, lost, losses, cut>>

(* A task ends, or is killed inside a call that then has no event; the     *)
(* line about its end may be missing.                                      *)
Exit(t) ==
  /\ t \in running /\ Len(calls) < MaxCalls
  /\ running' = running \ {t}
  /\ cut' = (cut \/ (inside[t] # 0 /\ calls[inside[t]].done))
  /\ inside' = [inside EXCEPT ![t] = 0]
  /\ \/ /\ calls' = Append(calls, NewCall(t, "Exit", {}, line + 1, 0))
        /\ line' = line + 1
        /\ UNCHANGED <<lost, losses>>
     \/ /\ losses < MaxLost
        /\ lost' = lost \cup {t} /\ losses' = losses + 1
        /\ UNCHANGED <<calls, line>>
  /\ UNCHANGED <<initial, born, fs, cwd, structs>>

FsNext ==
  \E t \in Tasks :
    \/ Call(t) \/ EnterCwd(t) \/ EnterSpawn(t) \/ EnterUnshare(t) \/ EnterInvalidate(t)
    \/ TakeCwd(t) \/ TakeSpawn(t) \/ TakeUnshare(t) \/ TakeInvalidate(t)
    \/ Return(t) \/ Exit(t)

FsSpec == FsInit /\ [][FsNext]_fsVars

-----------------------------------------------------------------------------
(* The parsed trace and its timeline *)

(* Complete events, in evidence order. *)
Evidence == SelectSeq(calls, LAMBDA c : c.end # 0)

(* decode_legacy_clone_flags, decode_clone3_flags: the whole expression    *)
(* must be understood, and FS never goes with a namespace.                 *)
SpawnEffect(flags) ==
  CASE "other" \in flags \/ ("FS" \in flags /\ flags # {"FS"}) -> "Unknown"
    [] flags \cap {"NEWNS", "NEWNET"} # {} -> "PrivateFsNamespaceUncertain"
    [] "FS" \in flags -> "SharedFs"
    [] OTHER -> "PrivateFs"

(* decode_unshare_flags *)
UnshareEffect(flags) ==
  CASE "other" \in flags -> "Unknown"
    [] flags \cap {"NEWNS", "NEWNET"} # {} ->
         IF flags \cap {"FS", "NEWNS"} # {}
         THEN "SplitFsNamespaceUncertain" ELSE "ConnectedFsNamespaceUncertain"
    [] "FS" \in flags -> "SplitFs"
    [] OTHER -> "NoFsChange"

(* Origin of a generation: the first one seen, the child of a reported     *)
(* spawn, or neither.  A collision's previous generation must be known.    *)
Introduces(e, t) == e.action = "Spawn" /\ e.child = t
Known(trace, i, t) == \E j \in 1 .. i - 1 : trace[j].task = t \/ Introduces(trace[j], t)
Collides(trace, i) == trace[i].previous # 0 /\ Known(trace, i, trace[i].previous)
Origin(trace, t) ==
  CASE trace[1].task = t -> "Initial"
    [] \E i \in DOMAIN trace : Introduces(trace[i], t) ->
         IF \E i \in DOMAIN trace : Introduces(trace[i], t) /\ Collides(trace, i)
         THEN "LiveCollision" ELSE "Spawned"
    [] OTHER -> "Unintroduced"
IsUntrusted(trace, t) == Origin(trace, t) \in {"LiveCollision", "Unintroduced"}

-----------------------------------------------------------------------------
(* FsState: tasks, contexts, and the rows and warnings already produced.   *)
(* A pending window is a set of at most one record, forks excepted.        *)

Context(dir, uncertain) ==
  [cwd |-> dir, uncertain |-> uncertain, members |-> 1,
   pendingCwd |-> {}, pendingTransition |-> {}, pendingForks |-> {}]

NewContext(st, dir, uncertain, t) ==
  [st EXCEPT !.contexts = (st.next :> Context(dir, uncertain)) @@ @,
             !.tasks = (t :> [fs |-> st.next, exited |-> FALSE]) @@ @,
             !.next = @ + 1]

(* Variant: the first member to leave takes the context with it. *)
RemoveMemberWithContext(st, f) == [st EXCEPT !.contexts = Restrict(@, DOMAIN @ \ {f})]

RemoveMember(st, f) ==
  IF f \notin DOMAIN st.contexts THEN st
  ELSE IF st.contexts[f].members > 1
  THEN [st EXCEPT !.contexts[f].members = @ - 1]
  ELSE [st EXCEPT !.contexts = Restrict(@, DOMAIN @ \ {f})]

Live(st, t) == t \in DOMAIN st.tasks /\ ~st.tasks[t].exited

EnsureTask(st, trace, t) ==
  IF Live(st, t) /\ st.tasks[t].fs \in DOMAIN st.contexts THEN st
  ELSE IF Origin(trace, t) = "Initial"
  THEN NewContext(st, initial, FALSE, t)
  ELSE NewContext(st, NoDir, TRUE, t)

Open(pending, l) == {p \in pending : p.until > l}
Due(pending, l) == {p \in pending : p.until <= l}

Settle(c, l) ==
  [c EXCEPT !.cwd = IF Due(c.pendingCwd, l) = {} \/ c.uncertain THEN @
                    ELSE (CHOOSE p \in c.pendingCwd : TRUE).target,
            !.pendingCwd = Open(@, l),
            !.pendingTransition = Open(@, l),
            !.pendingForks = Open(@, l)]

(* cwd_before, of a settled context *)
CwdBefore(c) ==
  IF c.uncertain \/ c.pendingCwd # {} \/ c.pendingTransition # {} THEN NoDir ELSE c.cwd

HasUnsettledChange(st, f, l) ==
  /\ f \in DOMAIN st.contexts
  /\ Open(st.contexts[f].pendingCwd, l) # {} \/ Open(st.contexts[f].pendingTransition, l) # {}

HasPendingForkSnapshot(st, f, l) ==
  f \in DOMAIN st.contexts /\ Open(st.contexts[f].pendingForks, l) # {}

Snapshot(st, f) ==
  IF f \in DOMAIN st.contexts THEN st.contexts[f] ELSE Context(NoDir, TRUE)

(* Variant: invalidation stops at the context itself. *)
ConnectedAlone(st, f, l) == {f} \cap DOMAIN st.contexts

(* Contexts that an open split or fork window ties to f. *)
Connected(st, f, l) ==
  LET Tied(g) == {p.peer : p \in Open(st.contexts[g].pendingTransition, l)}
                   \cup {p.child : p \in Open(st.contexts[g].pendingForks, l)}
      Grow(reached, g) == (reached \cup UNION {Tied(h) : h \in reached}) \cap DOMAIN st.contexts
  IN FoldSet(LAMBDA g, reached : Grow(reached, g), {f} \cap DOMAIN st.contexts, DOMAIN st.contexts)

(* invalidate, with the rows whose claim became ambiguous. *)
Invalidate(st, group, l, rows) ==
  LET affected == rows \cup
        UNION {{p.event : p \in Open(st.contexts[g].pendingCwd \cup st.contexts[g].pendingTransition
                                       \cup st.contexts[g].pendingForks, l)} : g \in group}
  IN [st EXCEPT
        !.contexts = [g \in DOMAIN @ |->
           IF g \in group THEN [Context(NoDir, TRUE) EXCEPT !.members = st.contexts[g].members]
           ELSE @[g]],
        !.rows = [i \in DOMAIN @ |-> IF i \in affected THEN [@[i] EXCEPT !.uncertain = TRUE] ELSE @[i]]]

(* apply_fs_uncertainty leaves the warning to the identity finding. *)
ApplyFsUncertainty(st, f, l) == Invalidate(st, Connected(st, f, l), l, {})
MarkFsUncertain(st, f, l, i) ==
  [Invalidate(st, Connected(st, f, l), l, {i}) EXCEPT !.warned = TRUE]
MarkAllFsUncertain(st, l, i) ==
  [Invalidate(st, DOMAIN st.contexts, l, {i}) EXCEPT !.warned = TRUE]

ReplaceChild(st, t, f) ==
  [st EXCEPT !.tasks = (t :> [fs |-> f, exited |-> FALSE]) @@ @,
             !.contexts[f].members = @ + 1]

PrivateChild(st, t, dir, uncertain) ==
  NewContext(IF Live(st, t) THEN RemoveMember(st, st.tasks[t].fs) ELSE st, dir, uncertain, t)

ExitTask(st, t) ==
  IF Live(st, t) THEN RemoveMember([st EXCEPT !.tasks[t].exited = TRUE], st.tasks[t].fs) ELSE st

-----------------------------------------------------------------------------
(* resolve_context: one row, after its task's context is settled.  st is   *)
(* the state, i the row, e its event, f the context of its task.           *)

(* The spawned child's numeric ID belongs to a task thought alive. *)
SpawnColliding(st, i, e, f) ==
  LET freed == IF Live(st, e.previous)
               THEN ApplyFsUncertainty(st, st.tasks[e.previous].fs, e.line) ELSE st
      placed == PrivateChild(freed, e.child, NoDir, TRUE)
      effect == SpawnEffect(e.flags)
  IN CASE effect = "PrivateFsNamespaceUncertain" ->
            MarkFsUncertain(placed, placed.tasks[e.child].fs, e.line, i)
       [] effect = "Unknown" -> MarkFsUncertain(placed, f, e.line, i)
       [] effect = "SharedFs" -> ApplyFsUncertainty(placed, f, e.line)
       [] effect = "PrivateFs" -> placed

(* The copy was made before the spawn returned and before the child acted. *)
SpawnPrivate(st, trace, i, e, f) ==
  LET from == Snapshot(st, f)
      placed == PrivateChild(st, e.child, from.cwd, from.uncertain)
      until == Min({e.end} \cup {trace[j].line : j \in {k \in DOMAIN trace : trace[k].task = e.child}})
  IN IF HasUnsettledChange(st, f, e.line)
     THEN PrivateChild(MarkFsUncertain(st, f, e.line, i), e.child, NoDir, TRUE)
     ELSE IF from.uncertain \/ until <= e.line THEN placed
     ELSE [placed EXCEPT !.contexts[f].pendingForks =
             @ \cup {[until |-> until, event |-> i, child |-> placed.tasks[e.child].fs]}]

Spawn(st, trace, i, e, f) ==
  LET effect == SpawnEffect(e.flags)
      apart == PrivateChild(st, e.child, NoDir, TRUE)
  IN CASE Collides(trace, i) -> SpawnColliding(st, i, e, f)
       [] ~Collides(trace, i) /\ effect = "SharedFs" -> ReplaceChild(st, e.child, f)
       [] ~Collides(trace, i) /\ effect = "PrivateFs" -> SpawnPrivate(st, trace, i, e, f)
       [] ~Collides(trace, i) /\ effect = "PrivateFsNamespaceUncertain" ->
            MarkFsUncertain(apart, apart.tasks[e.child].fs, e.line, i)
       [] ~Collides(trace, i) /\ effect = "Unknown" ->
            PrivateChild(MarkFsUncertain(st, f, e.line, i), e.child, NoDir, TRUE)

(* Former sharers race a split that is still inside its interval. *)
SplitFs(st, i, e, f) ==
  LET checked == IF HasPendingForkSnapshot(st, f, e.line) \/ HasUnsettledChange(st, f, e.line)
                 THEN MarkFsUncertain(st, f, e.line, i) ELSE st
      from == Snapshot(checked, f)
      moved == PrivateChild(checked, e.task, from.cwd, from.uncertain)
      new == moved.tasks[e.task].fs
      Window(peer) == {[until |-> e.end, event |-> i, peer |-> peer]}
  IN IF e.end > e.line /\ ~from.uncertain /\ f \in DOMAIN moved.contexts
     THEN [moved EXCEPT !.contexts[f].pendingTransition = Window(new),
                        !.contexts[new].pendingTransition = Window(f)]
     ELSE moved

(* Variant: leaving for a new namespace is not explained. *)
UnshareQuietly(st, i, e, f) ==
  IF UnshareEffect(e.flags) = "SplitFsNamespaceUncertain"
  THEN PrivateChild(st, e.task, NoDir, TRUE) ELSE st

Unshare(st, i, e, f) ==
  LET effect == UnshareEffect(e.flags)
      overlaps == HasPendingForkSnapshot(st, f, e.line)
      moved == PrivateChild(IF overlaps THEN MarkFsUncertain(st, f, e.line, i) ELSE st,
                            e.task, NoDir, TRUE)
  IN CASE effect = "NoFsChange" -> st
       [] effect \in {"ConnectedFsNamespaceUncertain", "Unknown"} -> MarkFsUncertain(st, f, e.line, i)
       [] effect = "SplitFs" -> SplitFs(st, i, e, f)
       [] effect = "SplitFsNamespaceUncertain" ->
            IF overlaps THEN moved ELSE MarkFsUncertain(moved, moved.tasks[e.task].fs, e.line, i)

(* A successful chdir or fchdir. *)
ChangeDirectory(st, i, e, f) ==
  IF \/ HasPendingForkSnapshot(st, f, e.line)
     \/ e.target = NoDir
     \/ HasUnsettledChange(st, f, e.line)
  THEN MarkFsUncertain(st, f, e.line, i)
  ELSE IF e.end > e.line /\ ~st.contexts[f].uncertain
  THEN [st EXCEPT !.contexts[f].pendingCwd = {[until |-> e.end, event |-> i, target |-> e.target]}]
  ELSE [st EXCEPT !.contexts[f].cwd = e.target]

Transition(st, trace, i, e, f) ==
  CASE e.action = "Spawn" -> Spawn(st, trace, i, e, f)
    [] e.action = "Unshare" -> Unshare(st, i, e, f)
    [] e.action = "InvalidateConnected" -> MarkFsUncertain(st, f, e.line, i)
    [] e.action = "InvalidateAll" -> MarkAllFsUncertain(st, e.line, i)
    [] e.action \in {"Cwd", "RelativeCwd"} -> ChangeDirectory(st, i, e, f)
    [] e.action = "Exit" -> ExitTask(st, e.task)
    [] e.action = "Relative" -> [st EXCEPT !.rows[i].uncertain = TRUE, !.warned = TRUE]
    [] e.action = "None" -> st

ResolveRow(st, trace, i) ==
  LET e == trace[i]
      known == EnsureTask(st, trace, e.task)
      f == known.tasks[e.task].fs
      settled == [known EXCEPT !.contexts[f] = Settle(@, e.line)]
      row == [cwd |-> CwdBefore(settled.contexts[f]),
              uncertain |-> \/ settled.contexts[f].uncertain \/ IsUntrusted(trace, e.task)
                            \/ e.action = "Spawn" /\ Collides(trace, i)]
  IN Transition([settled EXCEPT !.rows = Append(@, row)], trace, i, e, f)

(* The rows and warnings of a trace; identity findings warn as well. *)
ResolveContext(trace) ==
  FoldLeft(LAMBDA st, i : ResolveRow(st, trace, i),
           [tasks |-> <<>>, contexts |-> <<>>, next |-> 1, rows |-> <<>>,
            warned |-> \E i \in DOMAIN trace :
              \/ IsUntrusted(trace, trace[i].task)
              \/ trace[i].action = "Spawn" /\ IsUntrusted(trace, trace[i].child)],
           [i \in DOMAIN trace |-> i])

(***************************************************************************)
(* Properties                                                              *)
(***************************************************************************)

(* Every effect of the calls so far has its event. *)
AllReported == ~cut /\ \A t \in running : inside[t] # 0 => ~calls[inside[t]].done

(* The trace once idle task t writes one more row and then the calls that  *)
(* took effect return.                                                     *)
Continued(t) ==
  LET Returned(i) == IF \E u \in running : inside[u] = i /\ calls[i].done
                     THEN [calls[i] EXCEPT !.end = line + 1 + i] ELSE calls[i]
  IN SelectSeq(Append([i \in DOMAIN calls |-> Returned(i)], NewCall(t, "None", {}, line + 1, 0)),
               LAMBDA c : c.end # 0)

(* A row that claims a working directory without marking it uncertain      *)
(* claims the one its task was really in on entry, although directories    *)
(* are shared, copied and split by calls whose effects other tasks race.   *)
(* A call killed before its return is excluded: the line parser warns.     *)
CwdSound ==
  ~cut => \A t \in {u \in running : inside[u] = 0} :
    LET trace == Continued(t)
        rows == ResolveContext(trace).rows
    IN \A i \in DOMAIN trace :
         ~rows[i].uncertain /\ rows[i].cwd # NoDir => rows[i].cwd = trace[i].was

(* When no interval contains another line and every call is understood,    *)
(* nothing is given up: every row is certain and has its directory.        *)
Understood(e) ==
  CASE e.action = "Spawn" -> SpawnEffect(e.flags) \in {"SharedFs", "PrivateFs"}
    [] e.action = "Unshare" -> UnshareEffect(e.flags) \in {"NoFsChange", "SplitFs"}
    [] OTHER -> e.action \in {"None", "Cwd", "Exit"}
ExactWhenOrdered ==
  AllReported /\ losses = 0 /\ (\A i \in DOMAIN Evidence :
                                  Evidence[i].end = Evidence[i].line /\ Understood(Evidence[i]))
  => LET trace == Evidence
         rows == ResolveContext(trace).rows
     IN \A i \in DOMAIN trace : rows[i] = [cwd |-> trace[i].was, uncertain |-> FALSE]

(* An uncertain row never stands in a trace without a warning, so the run  *)
(* that contains it cannot be recorded as complete.                        *)
UncertainIsWarned ==
  LET result == ResolveContext(Evidence)
  IN (\E i \in DOMAIN result.rows : result.rows[i].uncertain) => result.warned
==============================================================================

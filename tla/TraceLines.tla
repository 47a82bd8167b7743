----------------------------- MODULE TraceLines ------------------------------
(***************************************************************************)
(* Events decoded from the lines of a trace, from TraceParser and          *)
(* parse_trace_line in src/parse/mod.rs.                                   *)
(*                                                                         *)
(* A call is one line, or an unfinished entry and a resumed return that    *)
(* are matched by numeric task ID and name only; the IDs are reused, lines *)
(* may be missing and tasks are killed inside calls.  Every line is parsed *)
(* in the step that writes it: the parser reads them in this order.        *)
(* Halves carry, as history the code cannot see, the call they belong to.  *)
(***************************************************************************)
EXTENDS Naturals, Sequences, FiniteSets, TLC

CONSTANTS
  Pids,      \* numeric task IDs
  NoPid,     \* no child
  Names,     \* names of calls other than "spawn"
  MaxCalls,  \* bound on calls
  MaxFaults  \* bound on lines that are missing or cannot be decoded

ASSUME LinesAssumption ==
  /\ NoPid \notin Pids /\ "spawn" \notin Names
  /\ MaxCalls \in Nat /\ MaxFaults \in Nat

VARIABLES
  alive,     \* IDs of running tasks
  inside,    \* call a task is inside, 0 if none
  calls,     \* calls, in the order of their entries
  faults,    \* lines missing or not decoded
  killed,    \* a task ended inside a call
  parser     \* TraceParser

worldVars == <<alive, inside, calls, faults, killed>>
linesVars == <<worldVars, parser>>

NoPrefix == [line |-> 0, call |-> 0, name |-> "none"]

LinesInit ==
  /\ \E root \in Pids : alive = {root}
  /\ inside = [p \in Pids |-> 0] /\ calls = <<>>
  /\ faults = 0 /\ killed = FALSE
  /\ parser = [pending |-> [p \in Pids |-> NoPrefix], events |-> <<>>, warned |-> FALSE, lines |-> 0]

-----------------------------------------------------------------------------
(* parse_trace_line.  ps is the parser after counting the line. *)

Warn(ps) == [ps EXCEPT !.warned = TRUE]

(* Variant: the older prefix is given up without a word. *)
PushUnfinishedQuietly(ps, p, name, call) ==
  [ps EXCEPT !.pending[p] = [line |-> ps.lines, call |-> call, name |-> name]]

(* A second entry replaces the first. *)
PushUnfinished(ps, p, name, call) ==
  [ps EXCEPT !.pending[p] = [line |-> ps.lines, call |-> call, name |-> name],
             !.warned = @ \/ ps.pending[p] # NoPrefix]

(* A prefix of the child older than the spawn's entry is from another task. *)
PushEvent(ps, p, name, first, entered, returned, child) ==
  LET stale == child # NoPid /\ ps.pending[child].line \in 1 .. first - 1
      kept == IF stale THEN [ps EXCEPT !.pending[child] = NoPrefix, !.warned = TRUE] ELSE ps
  IN [kept EXCEPT !.events = Append(@, [pid |-> p, name |-> name, line |-> first, end |-> ps.lines,
                                        child |-> child, entered |-> entered, returned |-> returned])]

(* The prefix is used up even if the names differ. *)
PushResumed(ps, p, name, call, child) ==
  LET prefix == ps.pending[p]
      taken == [ps EXCEPT !.pending[p] = NoPrefix]
  IN IF prefix = NoPrefix \/ prefix.name # name THEN Warn(taken)
     ELSE PushEvent(taken, p, name, prefix.line, prefix.call, call, child)

(* Variant: an exit leaves the prefix of its task in place. *)
PushExitKeepingPrefix(ps, p) ==
  [ps EXCEPT !.events = Append(@, [pid |-> p, name |-> "exit", line |-> ps.lines, end |-> ps.lines,
                                   child |-> NoPid, entered |-> 0, returned |-> 0])]

(* An exit closes the lifetime and takes its prefix along. *)
PushExit(ps, p) ==
  [ps EXCEPT !.pending[p] = NoPrefix,
             !.warned = @ \/ ps.pending[p] # NoPrefix,
             !.events = Append(@, [pid |-> p, name |-> "exit", line |-> ps.lines, end |-> ps.lines,
                                   child |-> NoPid, entered |-> 0, returned |-> 0])]

(* A line without a task ID or with an unknown status, or a body that is    *)
(* no supported event; a resumed body is joined to its prefix first.        *)
PushBad(ps, p, resumed) ==
  Warn(IF resumed THEN [ps EXCEPT !.pending[p] = NoPrefix] ELSE ps)

(* finish: prefixes left over are warned about. *)
FinallyWarned(ps) == ps.warned \/ \E p \in Pids : ps.pending[p] # NoPrefix

-----------------------------------------------------------------------------
(* The traced tasks and strace (external) *)

Counted == [parser EXCEPT !.lines = @ + 1]

(* The line is parsed as `result`, or is missing, or cannot be decoded. *)
Fates == {"written", "missing", "garbled"}
Write(fate, p, result, resumed) ==
  \/ fate = "written" /\ parser' = result /\ UNCHANGED faults
  \/ /\ fate # "written" /\ faults < MaxFaults /\ faults' = faults + 1
     /\ \/ fate = "missing" /\ parser' = parser
        \/ /\ fate = "garbled"
           /\ \E joined \in {FALSE, resumed} : parser' = PushBad(Counted, p, joined)

(* `seen`: a line of the call is in the trace. *)
NewCall(p, name, child, fate) ==
  Append(calls, [pid |-> p, name |-> name, child |-> child, seen |-> fate # "missing"])
Idle(p) == p \in alive /\ inside[p] = 0 /\ Len(calls) < MaxCalls

(* A call whose entry and return are on one line; a spawn that succeeds     *)
(* makes its child.                                                         *)
WholeCall(p, name, child, fate) ==
  /\ Idle(p)
  /\ child # NoPid => name = "spawn" /\ child \notin alive
  /\ alive' = alive \cup ({child} \ {NoPid})
  /\ calls' = NewCall(p, name, child, fate)
  /\ Write(fate, p, PushEvent(Counted, p, name, Counted.lines, Len(calls'), Len(calls'), child), FALSE)
  /\ UNCHANGED <<inside, killed>>

Enter(p, name, fate) ==
  /\ Idle(p)
  /\ calls' = NewCall(p, name, NoPid, fate)
  /\ inside' = [inside EXCEPT ![p] = Len(calls')]
  /\ Write(fate, p, PushUnfinished(Counted, p, name, Len(calls')), FALSE)
  /\ UNCHANGED <<alive, killed>>

(* The child runs before its parent returns. *)
Fork(p, child) ==
  /\ p \in alive /\ inside[p] # 0
  /\ calls[inside[p]].name = "spawn" /\ calls[inside[p]].child = NoPid
  /\ child \in Pids \ alive /\ alive' = alive \cup {child}
  /\ calls' = [calls EXCEPT ![inside[p]].child = child]
  /\ UNCHANGED <<inside, faults, killed, parser>>

(* A spawn that returns without a fork has failed. *)
Resume(p, fate) ==
  LET c == inside[p]
  IN /\ p \in alive /\ c # 0
     /\ calls' = [calls EXCEPT ![c].seen = @ \/ fate # "missing"]
     /\ inside' = [inside EXCEPT ![p] = 0]
     /\ Write(fate, p, PushResumed(Counted, p, calls[c].name, c, calls[c].child), TRUE)
     /\ UNCHANGED <<alive, killed>>

Exit(p, fate) ==
  /\ p \in alive
  /\ alive' = alive \ {p} /\ inside' = [inside EXCEPT ![p] = 0]
  /\ killed' = (killed \/ inside[p] # 0)
  /\ Write(fate, p, PushExit(Counted, p), FALSE)
  /\ UNCHANGED calls

LinesNext ==
  \E p \in Pids :
    \/ \E child \in Pids : Fork(p, child)
    \/ \E fate \in Fates :
         \/ \E name \in Names \cup {"spawn"}, child \in Pids \cup {NoPid} : WholeCall(p, name, child, fate)
         \/ \E name \in Names \cup {"spawn"} : Enter(p, name, fate)
         \/ Resume(p, fate)
         \/ Exit(p, fate)

LinesSpec == LinesInit /\ [][LinesNext]_linesVars

(***************************************************************************)
(* Properties                                                              *)
(***************************************************************************)

(* An event never joins the entry of one call to the return of another,    *)
(* although only a reusable ID and a name tie them together, a line may be *)
(* missing and tasks are killed inside calls.                              *)
PairsAreReal ==
  \A i \in DOMAIN parser.events : parser.events[i].entered = parser.events[i].returned

(* A trace parsed without a warning leaves nothing out: every call that    *)
(* has a line in it is exactly one event with its own child.  And nothing  *)
(* is warned about as long as all lines are there, readable, and no call   *)
(* is open or cut short, however children overlap their parents' spawns.   *)
EventsOf(c) == {i \in DOMAIN parser.events : parser.events[i].returned = c}
QuietIsExact ==
  /\ ~FinallyWarned(parser) =>
       \A c \in {k \in DOMAIN calls : calls[k].seen} :
         /\ Cardinality(EventsOf(c)) = 1
         /\ \A i \in EventsOf(c) :
              /\ parser.events[i].pid = calls[c].pid /\ parser.events[i].name = calls[c].name
              /\ parser.events[i].child = calls[c].child
  /\ faults = 0 /\ ~killed /\ (\A p \in Pids : inside[p] = 0) => ~FinallyWarned(parser)
==============================================================================

--------------------------- MODULE TraceLinesProofs ---------------------------
(***************************************************************************)
(* Proofs about TraceLines: whatever the tasks, names and number of calls, *)
(* as long as at most one line is missing or undecodable, halves of        *)
(* different calls are never joined and a trace parsed without a warning   *)
(* is exact; two faults can join such halves.                              *)
(***************************************************************************)
EXTENDS TraceLines, FiniteSetTheorems, TLAPS

CallNames == Names \cup {"spawn"}
Calls == [pid : Pids, name : CallNames, child : Pids \cup {NoPid}, seen : BOOLEAN]
Pending == [line : Nat, call : Nat, name : CallNames \cup {"none"}]
LineEvents == [pid : Pids, name : CallNames \cup {"exit"}, line : Nat, end : Nat,
               child : Pids \cup {NoPid}, entered : Nat, returned : Nat]
Parsers == [pending : [Pids -> Pending], events : Seq(LineEvents), warned : BOOLEAN, lines : Nat]

LinesTypeOK ==
  /\ alive \subseteq Pids /\ inside \in [Pids -> Nat] /\ calls \in Seq(Calls)
  /\ faults \in Nat /\ killed \in BOOLEAN /\ parser \in Parsers

(* Only running tasks are inside calls, each in one of its own, and no     *)
(* spawn makes its own task.                                               *)
World ==
  \A p \in Pids :
    /\ p \notin alive => inside[p] = 0
    /\ inside[p] # 0 => /\ inside[p] \in 1 .. Len(calls)
                        /\ calls[inside[p]].pid = p /\ calls[inside[p]].child # p

(* A prefix is the entry of a call of its task, on a line already read. *)
Prefixed ==
  \A p \in Pids : parser.pending[p] # NoPrefix =>
    LET prefix == parser.pending[p]
    IN /\ prefix.line \in 1 .. parser.lines /\ prefix.call \in 1 .. Len(calls)
       /\ calls[prefix.call].pid = p /\ calls[prefix.call].name = prefix.name

(* The prefix of a task is that of the call it is inside: of any task      *)
(* before the first fault, of a task inside a call before the second.      *)
Aligned ==
  \A p \in Pids : parser.pending[p] # NoPrefix =>
    /\ faults = 0 => parser.pending[p].call = inside[p]
    /\ faults <= 1 /\ inside[p] # 0 => parser.pending[p].call = inside[p]

(* A call that has become an event is neither pending nor under way. *)
Decoded ==
  \A i \in DOMAIN parser.events :
    LET c == parser.events[i].returned
    IN /\ c \in 0 .. Len(calls)
       /\ c # 0 => \A p \in Pids : inside[p] # c /\ parser.pending[p].call # c

Paired == faults <= 1 => PairsAreReal

(* The only event of a call, with its task, name and child. *)
EventIs(c, i) ==
  /\ EventsOf(c) = {i}
  /\ parser.events[i].pid = calls[c].pid /\ parser.events[i].name = calls[c].name
  /\ parser.events[i].child = calls[c].child

(* Without a warning every call that has a line is pending or decoded. *)
Covered ==
  ~parser.warned /\ faults <= 1 =>
    \A c \in DOMAIN calls : calls[c].seen =>
      \/ parser.pending[calls[c].pid].call = c
      \/ \E i \in DOMAIN parser.events : EventIs(c, i)

(* With all lines there and nobody killed inside a call, nothing is warned *)
(* about, every open call has its prefix, and the prefix of a child is     *)
(* younger than the open spawn that made it.                               *)
Clean ==
  faults = 0 /\ ~killed =>
    /\ ~parser.warned
    /\ \A p \in Pids : inside[p] # 0 =>
         /\ parser.pending[p].call = inside[p]
         /\ \A q \in Pids : calls[inside[p]].child = q /\ parser.pending[q] # NoPrefix =>
              parser.pending[p].line < parser.pending[q].line

LinesInv ==
  LinesTypeOK /\ World /\ Prefixed /\ Aligned /\ Decoded /\ Paired /\ Covered /\ Clean

-----------------------------------------------------------------------------
(* What the parser's operations change *)

(* A line that is missing or cannot be decoded adds no event and no        *)
(* prefix; if it was read, it is warned about.                             *)
Lost(fate) ==
  /\ parser' \in Parsers /\ parser'.events = parser.events /\ parser'.lines >= parser.lines
  /\ \A q \in Pids : parser'.pending[q] = parser.pending[q] \/ parser'.pending[q] = NoPrefix
  /\ \/ fate = "missing" /\ parser' = parser
     \/ fate = "garbled" /\ parser'.warned

(* The parser after counting a line: only the count differs. *)
LEMMA CountedFields ==
  ASSUME parser \in Parsers
  PROVE  /\ Counted \in Parsers /\ Counted.pending = parser.pending /\ Counted.events = parser.events
         /\ Counted.warned = parser.warned /\ Counted.lines = parser.lines + 1
<1>1. parser.lines + 1 \in Nat
  BY DEF Parsers
<1>2. Counted \in Parsers
  BY <1>1 DEF Counted, Parsers
<1>3. Counted.pending = parser.pending /\ Counted.events = parser.events
  BY DEF Counted, Parsers
<1>4. Counted.warned = parser.warned
  BY DEF Counted, Parsers
<1>5. Counted.lines = parser.lines + 1
  BY DEF Counted, Parsers
<1> QED
  BY <1>2, <1>3, <1>4, <1>5

(* NoPrefix is a prefix no line has. *)
LEMMA NoPrefixType == NoPrefix \in Pending /\ NoPrefix.line = 0 /\ NoPrefix.call = 0
  BY DEF NoPrefix, Pending

(* A sequence with one more element. *)
LEMMA AppendFacts ==
  ASSUME NEW S, NEW s \in Seq(S), NEW e \in S
  PROVE  /\ Append(s, e) \in Seq(S) /\ Len(Append(s, e)) = Len(s) + 1
         /\ DOMAIN Append(s, e) = 1 .. Len(s) + 1 /\ DOMAIN s = 1 .. Len(s) /\ Len(s) \in Nat
         /\ \A i \in 1 .. Len(s) : Append(s, e)[i] = s[i]
         /\ Append(s, e)[Len(s) + 1] = e
  OBVIOUS

(* A sequence with one element replaced. *)
LEMMA ReplaceFacts ==
  ASSUME NEW S, NEW s \in Seq(S), NEW c \in 1 .. Len(s), NEW e \in S
  PROVE  /\ [s EXCEPT ![c] = e] \in Seq(S) /\ Len([s EXCEPT ![c] = e]) = Len(s)
         /\ DOMAIN [s EXCEPT ![c] = e] = 1 .. Len(s) /\ [s EXCEPT ![c] = e][c] = e
         /\ \A k \in 1 .. Len(s) : k # c => [s EXCEPT ![c] = e][k] = s[k]
  OBVIOUS

(* push_unfinished: a new prefix, with a warning if it replaces one. *)
PrefixPushed(r, ps, p, name, call) ==
  /\ r \in Parsers /\ r.events = ps.events /\ r.lines = ps.lines
  /\ r.pending = [ps.pending EXCEPT ![p] = [line |-> ps.lines, call |-> call, name |-> name]]
  /\ r.warned = (ps.warned \/ ps.pending[p] # NoPrefix)

(* PushUnfinished does that. *)
LEMMA UnfinishedFields ==
  ASSUME NEW ps \in Parsers, NEW p \in Pids, NEW name \in CallNames, NEW call \in Nat
  PROVE  PrefixPushed(PushUnfinished(ps, p, name, call), ps, p, name, call)
<1> DEFINE w == ps.warned \/ ps.pending[p] # NoPrefix
           pd == [ps.pending EXCEPT ![p] = [line |-> ps.lines, call |-> call, name |-> name]]
           r == [ps EXCEPT !.pending = pd, !.warned = w]
<1>1. [line |-> ps.lines, call |-> call, name |-> name] \in Pending
  BY DEF Parsers, Pending
<1>2. w \in BOOLEAN /\ pd \in [Pids -> Pending]
  BY <1>1 DEF Parsers
<1>3. PushUnfinished(ps, p, name, call) = r
  BY DEF PushUnfinished
<1> HIDE DEF w, pd
<1>4. r \in Parsers /\ r.events = ps.events /\ r.lines = ps.lines /\ r.pending = pd /\ r.warned = w
  BY <1>2 DEF Parsers
<1>5. PrefixPushed(r, ps, p, name, call)
  <2> HIDE DEF r
  <2> QED
    BY <1>4 DEF PrefixPushed, w, pd
<1> QED
  BY <1>3, <1>5

(* push_event: one more event; the child loses a prefix only with a        *)
(* warning, and only one older than the first line of the call.            *)
EventPushed(r, ps, p, name, first, entered, returned, child) ==
  /\ r \in Parsers /\ r.lines = ps.lines
  /\ r.events = Append(ps.events, [pid |-> p, name |-> name, line |-> first, end |-> ps.lines,
                                   child |-> child, entered |-> entered, returned |-> returned])
  /\ \A q \in Pids : r.pending[q] = ps.pending[q] \/ r.pending[q] = NoPrefix
  /\ ~r.warned => ~ps.warned /\ r.pending = ps.pending
  /\ child = NoPid \/ ps.pending[child].line \notin 1 .. first - 1 =>
       r.pending = ps.pending /\ r.warned = ps.warned

(* PushEvent does that. *)
LEMMA EventFields ==
  ASSUME NEW ps \in Parsers, NEW p \in Pids, NEW name \in CallNames, NEW first \in Nat,
         NEW entered \in Nat, NEW returned \in Nat, NEW child \in Pids \cup {NoPid}
  PROVE  EventPushed(PushEvent(ps, p, name, first, entered, returned, child),
                     ps, p, name, first, entered, returned, child)
<1> DEFINE e == [pid |-> p, name |-> name, line |-> first, end |-> ps.lines,
                 child |-> child, entered |-> entered, returned |-> returned]
           stale == child # NoPid /\ ps.pending[child].line \in 1 .. first - 1
           kept == IF stale THEN [ps EXCEPT !.pending[child] = NoPrefix, !.warned = TRUE] ELSE ps
           r == PushEvent(ps, p, name, first, entered, returned, child)
<1>1. e \in LineEvents
  BY DEF LineEvents, Parsers
<1>2. r = [kept EXCEPT !.events = Append(@, e)]
  BY DEF PushEvent
<1>3. kept \in Parsers /\ kept.lines = ps.lines /\ kept.events = ps.events
  BY NoPrefixType DEF Parsers
<1>4. /\ \A q \in Pids : kept.pending[q] = ps.pending[q] \/ kept.pending[q] = NoPrefix
      /\ ~kept.warned => ~ps.warned /\ kept.pending = ps.pending
      /\ ~stale => kept.pending = ps.pending /\ kept.warned = ps.warned
  BY NoPrefixType DEF Parsers
<1>5. r.pending = kept.pending /\ r.warned = kept.warned /\ r.lines = kept.lines
      /\ r.events = Append(kept.events, e) /\ r \in Parsers
  <2> HIDE DEF e, kept
  <2>1. Append(kept.events, e) \in Seq(LineEvents)
    BY <1>1, <1>3 DEF Parsers
  <2> HIDE DEF r
  <2> QED
    BY <1>2, <1>3, <2>1 DEF Parsers
<1>6. child = NoPid \/ ps.pending[child].line \notin 1 .. first - 1 => ~stale
  OBVIOUS
<1>7. r.events = Append(ps.events, e) /\ r.lines = ps.lines /\ r \in Parsers
  BY <1>3, <1>5
<1>8. /\ \A q \in Pids : r.pending[q] = ps.pending[q] \/ r.pending[q] = NoPrefix
      /\ ~r.warned => ~ps.warned /\ r.pending = ps.pending
      /\ ~stale => r.pending = ps.pending /\ r.warned = ps.warned
  BY <1>4, <1>5
<1> SUFFICES EventPushed(r, ps, p, name, first, entered, returned, child)
  OBVIOUS
<1> HIDE DEF r, kept, stale
<1> QED
  BY <1>6, <1>7, <1>8 DEF EventPushed

(* A return uses up the prefix of its task; it becomes an event only if    *)
(* the names agree, and is warned about otherwise.                         *)
ReturnPushed(r, ps, p, name, call, child) ==
  /\ r \in Parsers /\ r.lines = ps.lines /\ r.pending[p] = NoPrefix
  /\ \A q \in Pids : r.pending[q] = ps.pending[q] \/ r.pending[q] = NoPrefix
  /\ \/ /\ ps.pending[p] = NoPrefix \/ ps.pending[p].name # name
        /\ r.warned /\ r.events = ps.events
     \/ /\ ps.pending[p] # NoPrefix /\ ps.pending[p].name = name
        /\ r.events = Append(ps.events,
             [pid |-> p, name |-> name, line |-> ps.pending[p].line, end |-> ps.lines,
              child |-> child, entered |-> ps.pending[p].call, returned |-> call])
        /\ ~r.warned => ~ps.warned /\ \A q \in Pids \ {p} : r.pending[q] = ps.pending[q]
        /\ child = NoPid \/ ps.pending[child].line \notin 1 .. ps.pending[p].line - 1 =>
             r.warned = ps.warned /\ \A q \in Pids \ {p} : r.pending[q] = ps.pending[q]

(* PushResumed does that. *)
LEMMA ResumedFields ==
  ASSUME NEW ps \in Parsers, NEW p \in Pids, NEW name \in CallNames, NEW call \in Nat,
         NEW child \in Pids \cup {NoPid}, child # p
  PROVE  ReturnPushed(PushResumed(ps, p, name, call, child), ps, p, name, call, child)
<1> DEFINE prefix == ps.pending[p]
           taken == [ps EXCEPT !.pending[p] = NoPrefix]
           r == PushResumed(ps, p, name, call, child)
<1>1. /\ taken \in Parsers /\ taken.lines = ps.lines /\ taken.events = ps.events
      /\ taken.warned = ps.warned /\ taken.pending[p] = NoPrefix
      /\ \A q \in Pids \ {p} : taken.pending[q] = ps.pending[q]
  BY NoPrefixType DEF Parsers
<1>2. CASE prefix = NoPrefix \/ prefix.name # name
  <2>1. r = [taken EXCEPT !.warned = TRUE]
    BY <1>2 DEF PushResumed, Warn
  <2> HIDE DEF taken, r
  <2>2. r \in Parsers /\ r.lines = taken.lines /\ r.pending = taken.pending /\ r.warned /\ r.events = taken.events
    BY <1>1, <2>1 DEF Parsers
  <2>3. ReturnPushed(r, ps, p, name, call, child)
    BY <1>1, <1>2, <2>2 DEF ReturnPushed
  <2> QED
    BY <2>3 DEF r
<1>3. CASE ~(prefix = NoPrefix \/ prefix.name # name)
  <2>1. prefix.call \in Nat /\ prefix.line \in Nat
    BY DEF Parsers, Pending
  <2>2. r = PushEvent(taken, p, name, prefix.line, prefix.call, call, child)
    BY <1>3 DEF PushResumed
  <2> HIDE DEF taken, prefix, r
  <2>3. EventPushed(r, taken, p, name, prefix.line, prefix.call, call, child)
    BY <1>1, <2>1, <2>2, EventFields
  <2>4. child = NoPid \/ taken.pending[child] = ps.pending[child]
    BY <1>1
  <2>5. ReturnPushed(r, ps, p, name, call, child)
    BY <1>1, <1>3, <2>3, <2>4 DEF prefix, EventPushed, ReturnPushed
  <2> QED
    BY <2>5 DEF r
<1> QED
  BY <1>2, <1>3

(* push_exit: one more event and no prefix, with a warning if there was    *)
(* one.                                                                    *)
ExitPushed(r, ps, p) ==
  /\ r \in Parsers /\ r.lines = ps.lines
  /\ r.pending = [ps.pending EXCEPT ![p] = NoPrefix]
  /\ r.warned = (ps.warned \/ ps.pending[p] # NoPrefix)
  /\ r.events = Append(ps.events,
       [pid |-> p, name |-> "exit", line |-> ps.lines, end |-> ps.lines,
        child |-> NoPid, entered |-> 0, returned |-> 0])

(* PushExit does that. *)
LEMMA ExitFields ==
  ASSUME NEW ps \in Parsers, NEW p \in Pids
  PROVE  ExitPushed(PushExit(ps, p), ps, p)
<1> DEFINE e == [pid |-> p, name |-> "exit", line |-> ps.lines, end |-> ps.lines,
                 child |-> NoPid, entered |-> 0, returned |-> 0]
<1>1. e \in LineEvents
  BY DEF LineEvents, Parsers
<1> DEFINE w == ps.warned \/ ps.pending[p] # NoPrefix
           es == Append(ps.events, e)
           pd == [ps.pending EXCEPT ![p] = NoPrefix]
           r == [ps EXCEPT !.pending = pd, !.warned = w, !.events = es]
<1>2. PushExit(ps, p) = r
  BY DEF PushExit
<1>3. es \in Seq(LineEvents) /\ w \in BOOLEAN /\ pd \in [Pids -> Pending]
  BY <1>1, NoPrefixType DEF Parsers
<1> HIDE DEF es, w, pd
<1>4. r \in Parsers /\ r.lines = ps.lines /\ r.pending = pd /\ r.warned = w /\ r.events = es
  BY <1>3 DEF Parsers
<1>5. ExitPushed(r, ps, p)
  <2> HIDE DEF r
  <2> QED
    BY <1>4 DEF ExitPushed, e, es, w, pd
<1> QED
  BY <1>2, <1>5

(* A line with a fault. *)
LEMMA FaultyWrite ==
  ASSUME LinesTypeOK, NEW fate, NEW p \in Pids, NEW result, NEW resumed \in BOOLEAN,
         Write(fate, p, result, resumed)
  PROVE  \/ fate = "written" /\ parser' = result /\ faults' = faults
         \/ fate # "written" /\ faults' = faults + 1 /\ Lost(fate)
<1>1. CASE fate = "written"
  BY <1>1 DEF Write
<1>2. CASE fate = "missing" /\ parser' = parser
  <2>1. Lost(fate)
    BY <1>2 DEF Lost, LinesTypeOK, Parsers
  <2>2. faults' = faults + 1
    BY <1>2 DEF Write
  <2> QED
    BY <1>2, <2>1, <2>2
<1>3. CASE fate = "garbled" /\ \E joined \in {FALSE, resumed} : parser' = PushBad(Counted, p, joined)
  <2>1. PICK joined \in {FALSE, resumed} : parser' = PushBad(Counted, p, joined)
    BY <1>3
  <2>2. faults' = faults + 1
    BY <1>3 DEF Write
  <2> DEFINE ps == IF joined THEN [Counted EXCEPT !.pending[p] = NoPrefix] ELSE Counted
  <2>3. /\ ps \in Parsers /\ ps.events = parser.events /\ ps.lines = parser.lines + 1
        /\ \A q \in Pids : ps.pending[q] = parser.pending[q] \/ ps.pending[q] = NoPrefix
    BY CountedFields, NoPrefixType DEF Parsers, LinesTypeOK
  <2>4. parser' = [ps EXCEPT !.warned = TRUE]
    BY <2>1 DEF PushBad, Warn
  <2> HIDE DEF ps
  <2>5. /\ parser' \in Parsers /\ parser'.events = ps.events /\ parser'.lines = ps.lines
        /\ parser'.pending = ps.pending /\ parser'.warned
    BY <2>3, <2>4 DEF Parsers
  <2>6. Lost(fate)
    BY <1>3, <2>3, <2>5 DEF Lost, LinesTypeOK, Parsers
  <2> QED
    BY <1>3, <2>2, <2>6
<1> QED
  BY <1>1, <1>2, <1>3 DEF Write

-----------------------------------------------------------------------------
(* The invariant is preserved *)

(* Before the first fault only a task inside a call has a prefix. *)
LEMMA IdleHasNoPrefix ==
  ASSUME LinesInv, NEW p \in Pids, faults = 0, inside[p] = 0
  PROVE  parser.pending[p] = NoPrefix
  BY DEF LinesInv, Aligned, Prefixed

(* The events of a call after one more event. *)
LEMMA EventAppended ==
  ASSUME parser \in Parsers, NEW e \in LineEvents, parser'.events = Append(parser.events, e), NEW k
  PROVE  /\ Len(parser.events) \in Nat
         /\ DOMAIN parser'.events = 1 .. Len(parser.events) + 1
         /\ DOMAIN parser.events = 1 .. Len(parser.events)
         /\ \A i \in DOMAIN parser.events : parser'.events[i] = parser.events[i]
         /\ parser'.events[Len(parser.events) + 1] = e
         /\ e.returned # k => EventsOf(k)' = EventsOf(k)
         /\ e.returned = k => EventsOf(k)' = EventsOf(k) \cup {Len(parser.events) + 1}
<1>1. parser.events \in Seq(LineEvents)
  BY DEF Parsers
<1>2. /\ DOMAIN parser'.events = 1 .. Len(parser.events) + 1
      /\ DOMAIN parser.events = 1 .. Len(parser.events) /\ Len(parser.events) \in Nat
      /\ \A i \in 1 .. Len(parser.events) : parser'.events[i] = parser.events[i]
      /\ parser'.events[Len(parser.events) + 1] = e
  BY <1>1, AppendFacts
<1> QED
  BY <1>2 DEF EventsOf

(* An event of one call leaves the only event of another what it is. *)
LEMMA EventKept ==
  ASSUME parser \in Parsers, NEW e \in LineEvents, parser'.events = Append(parser.events, e),
         NEW k, NEW i \in DOMAIN parser.events, EventIs(k, i), e.returned # k,
         calls'[k].pid = calls[k].pid, calls'[k].name = calls[k].name, calls'[k].child = calls[k].child
  PROVE  i \in DOMAIN parser'.events /\ EventIs(k, i)'
  BY EventAppended DEF EventIs

(* One more event keeps what is decoded apart from what is pending or      *)
(* under way, if the call of the event is.                                 *)
LEMMA DecodedStep ==
  ASSUME parser \in Parsers, Decoded, Len(calls) \in Nat, Len(calls') \in Nat, Len(calls') >= Len(calls),
         NEW e \in LineEvents, parser'.events = Append(parser.events, e),
         \A q \in Pids : inside'[q] \in {inside[q], 0},
         \A q \in Pids : parser'.pending[q] = parser.pending[q] \/ parser'.pending[q] = NoPrefix,
         e.returned \in 0 .. Len(calls'),
         e.returned # 0 => \A q \in Pids : inside'[q] # e.returned /\ parser'.pending[q].call # e.returned
  PROVE  Decoded'
<1>1. ASSUME NEW i \in DOMAIN parser'.events
      PROVE  /\ parser'.events[i].returned \in 0 .. Len(calls')
             /\ parser'.events[i].returned # 0 => \A q \in Pids :
                  /\ inside'[q] # parser'.events[i].returned
                  /\ parser'.pending[q].call # parser'.events[i].returned
  <2>1. CASE i = Len(parser.events) + 1
    BY <2>1, EventAppended
  <2>2. CASE i # Len(parser.events) + 1
    <3>1. i \in DOMAIN parser.events /\ parser'.events[i] = parser.events[i]
      BY <1>1, <2>2, EventAppended
    <3>2. \A q \in Pids : parser'.pending[q].call \in {parser.pending[q].call, 0}
      BY NoPrefixType
    <3>3. /\ parser.events[i].returned \in 0 .. Len(calls)
          /\ parser.events[i].returned # 0 => \A q \in Pids :
               /\ inside[q] # parser.events[i].returned
               /\ parser.pending[q].call # parser.events[i].returned
      BY <3>1 DEF Decoded
    <3> QED
      BY <3>1, <3>2, <3>3
  <2> QED
    BY <2>1, <2>2
<1> QED
  BY <1>1 DEF Decoded

(* Prefixes stay what they are while none is added and calls keep their    *)
(* tasks and names.                                                        *)
LEMMA PrefixedStep ==
  ASSUME parser \in Parsers, parser' \in Parsers, Prefixed, parser'.lines >= parser.lines,
         Len(calls) \in Nat, Len(calls') \in Nat, Len(calls') >= Len(calls),
         \A q \in Pids : parser'.pending[q] = parser.pending[q] \/ parser'.pending[q] = NoPrefix,
         \A k \in 1 .. Len(calls) : calls'[k].pid = calls[k].pid /\ calls'[k].name = calls[k].name
  PROVE  Prefixed'
<1>1. parser.lines \in Nat /\ parser'.lines \in Nat
  BY DEF Parsers
<1>2. ASSUME NEW q \in Pids, parser'.pending[q] # NoPrefix
      PROVE  /\ parser'.pending[q].line \in 1 .. parser'.lines
             /\ parser'.pending[q].call \in 1 .. Len(calls')
             /\ calls'[parser'.pending[q].call].pid = q
             /\ calls'[parser'.pending[q].call].name = parser'.pending[q].name
  <2>1. parser'.pending[q] = parser.pending[q]
    BY <1>2
  <2>2. /\ parser.pending[q].line \in 1 .. parser.lines /\ parser.pending[q].call \in 1 .. Len(calls)
        /\ calls[parser.pending[q].call].pid = q
        /\ calls[parser.pending[q].call].name = parser.pending[q].name
    BY <1>2, <2>1 DEF Prefixed
  <2> QED
    BY <1>1, <2>1, <2>2
<1> QED
  BY <1>2 DEF Prefixed

(* An entry, as a prefix or lost. *)
LEMMA EnterStep ==
  ASSUME LinesInv, NEW p \in Pids, NEW name \in CallNames, NEW fate \in Fates, Enter(p, name, fate)
  PROVE  LinesInv'
<1> DEFINE c == Len(calls) + 1
           new == [pid |-> p, name |-> name, child |-> NoPid, seen |-> fate # "missing"]
<1> USE DEF LinesInv
<1>1. new \in Calls /\ calls' = Append(calls, new)
  BY DEF Enter, NewCall, Calls
<1>2. /\ calls' \in Seq(Calls) /\ Len(calls') = c /\ DOMAIN calls' = 1 .. c
      /\ DOMAIN calls = 1 .. Len(calls) /\ Len(calls) \in Nat
      /\ \A i \in 1 .. Len(calls) : calls'[i] = calls[i]
      /\ calls'[c] = new
  BY <1>1, AppendFacts DEF LinesTypeOK
<1>3. /\ p \in alive /\ inside[p] = 0 /\ inside' = [inside EXCEPT ![p] = c]
      /\ alive' = alive /\ killed' = killed
  BY <1>2 DEF Enter, Idle
<1>4. \/ fate = "written" /\ parser' = PushUnfinished(Counted, p, name, c) /\ faults' = faults
      \/ fate # "written" /\ faults' = faults + 1 /\ Lost(fate)
  BY <1>2, FaultyWrite DEF Enter
<1>5. new.pid = p /\ new.name = name /\ new.child = NoPid /\ NoPid \notin Pids
      /\ (new.seen <=> fate # "missing")
  BY LinesAssumption
<1> HIDE DEF new
<1>6. World'
  BY <1>2, <1>3, <1>5 DEF World, LinesTypeOK
<1>7. CASE fate = "written"
  <2> DEFINE prefix == [line |-> parser.lines + 1, call |-> c, name |-> name]
  <2>1. /\ parser' \in Parsers /\ parser'.events = parser.events /\ parser'.lines = parser.lines + 1
        /\ parser'.pending = [parser.pending EXCEPT ![p] = prefix]
        /\ parser'.warned = (parser.warned \/ parser.pending[p] # NoPrefix)
    <3>1. PrefixPushed(parser', Counted, p, name, c)
      BY <1>2, <1>4, <1>7, CountedFields, UnfinishedFields DEF LinesTypeOK
    <3> QED
      BY <3>1, CountedFields DEF PrefixPushed, LinesTypeOK
  <2>2. prefix.line = parser.lines + 1 /\ prefix.call = c /\ prefix.name = name /\ faults' = faults
    BY <1>4, <1>7
  <2>3. parser.lines \in Nat /\ parser.pending \in [Pids -> Pending]
    BY DEF LinesTypeOK, Parsers
  <2>4. prefix # NoPrefix
    BY <2>3, NoPrefixType
  <2> HIDE DEF prefix
  <2>5. LinesTypeOK'
    BY <1>2, <1>3, <2>1, <2>2 DEF LinesTypeOK
  <2>6. Prefixed'
    BY <1>2, <1>5, <2>1, <2>2, <2>3 DEF Prefixed
  <2>7. Aligned'
    BY <1>2, <1>3, <2>1, <2>2, <2>3 DEF Aligned, LinesTypeOK
  <2>8. Decoded'
    BY <1>2, <1>3, <2>1, <2>2, <2>3 DEF Decoded, LinesTypeOK
  <2>9. Paired'
    BY <2>1, <2>2 DEF Paired, PairsAreReal
  <2>10. Covered'
    <3>1. SUFFICES ASSUME ~parser'.warned, faults <= 1, NEW k \in 1 .. Len(calls), calls[k].seen
                   PROVE  \/ parser'.pending[calls[k].pid].call = k
                          \/ \E i \in DOMAIN parser.events : EventIs(k, i)'
      <4>1. parser'.pending[p].call = c
        BY <2>1, <2>2, <2>3
      <4> QED
        BY <1>2, <1>5, <2>1, <2>2, <4>1 DEF Covered
    <3>2. ~parser.warned /\ parser.pending[p].call = 0
      BY <3>1, <2>1, NoPrefixType
    <3>3. calls[k].pid # p => parser'.pending[calls[k].pid] = parser.pending[calls[k].pid]
      BY <2>1, <2>3 DEF LinesTypeOK, Calls
    <3>4. \A i \in DOMAIN parser.events : EventIs(k, i) => EventIs(k, i)'
      BY <1>2, <2>1 DEF EventIs, EventsOf
    <3> QED
      BY <1>2, <3>1, <3>2, <3>3, <3>4 DEF Covered
  <2>11. Clean'
    <3>1. SUFFICES ASSUME faults = 0, ~killed
                   PROVE  Clean'
      BY <1>3, <2>2 DEF Clean
    <3>2. ~parser'.warned
      <4>1. parser.pending[p] = NoPrefix /\ ~parser.warned
        BY <1>3, <3>1, IdleHasNoPrefix DEF Clean
      <4> QED
        BY <2>1, <4>1
    <3>3. ASSUME NEW q \in Pids, inside'[q] # 0
          PROVE  /\ parser'.pending[q].call = inside'[q]
                 /\ \A o \in Pids : calls'[inside'[q]].child = o /\ parser'.pending[o] # NoPrefix =>
                      parser'.pending[q].line < parser'.pending[o].line
      <4>1. CASE q = p
        BY <1>2, <1>3, <1>5, <2>1, <2>2, <2>3, <4>1 DEF LinesTypeOK
      <4>2. CASE q # p
        <5>1. /\ inside[q] \in 1 .. Len(calls) /\ inside'[q] = inside[q] /\ inside[q] # 0
              /\ calls'[inside[q]] = calls[inside[q]] /\ calls[inside[q]].child # q
              /\ parser'.pending[q] = parser.pending[q]
          BY <1>2, <1>3, <2>1, <2>3, <3>3, <4>2 DEF World, LinesTypeOK
        <5>2. parser.pending[q].call = inside[q] /\ parser.pending[q].line \in 1 .. parser.lines
          BY <3>1, <5>1, NoPrefixType DEF Clean, Prefixed
        <5>3. \A o \in Pids : o # p => parser'.pending[o] = parser.pending[o]
          BY <2>1, <2>3
        <5> QED
          BY <2>1, <2>2, <2>3, <3>1, <5>1, <5>2, <5>3 DEF Clean
      <4> QED
        BY <4>1, <4>2
    <3> QED
      BY <3>2, <3>3 DEF Clean
  <2> QED
    BY <1>6, <2>5, <2>6, <2>7, <2>8, <2>9, <2>10, <2>11
<1>8. CASE fate # "written"
  <2>1. faults' = faults + 1 /\ Lost(fate)
    BY <1>4, <1>8
  <2>2. LinesTypeOK'
    BY <1>2, <1>3, <2>1 DEF LinesTypeOK, Lost
  <2>3. Prefixed'
    BY <1>2, <2>1, PrefixedStep DEF Lost, LinesTypeOK
  <2>4. Aligned'
    <3>1. \A q \in Pids \ {p} : inside'[q] = inside[q]
      BY <1>3 DEF LinesTypeOK
    <3>2. faults = 0 => parser.pending[p] = NoPrefix
      BY <1>3 DEF Aligned, Prefixed
    <3> QED
      BY <2>1, <3>1, <3>2 DEF Aligned, Lost, LinesTypeOK
  <2>5. Decoded'
    <3>1. \A q \in Pids : inside'[q] = inside[q] \/ inside'[q] = c
      BY <1>3 DEF LinesTypeOK
    <3>2. \A q \in Pids : parser'.pending[q].call = parser.pending[q].call \/ parser'.pending[q].call = 0
      BY <2>1, NoPrefixType DEF Lost
    <3> QED
      BY <1>2, <2>1, <3>1, <3>2 DEF Decoded, Lost
  <2>6. Paired'
    BY <2>1 DEF Paired, PairsAreReal, Lost, LinesTypeOK
  <2>7. Covered'
    <3>1. SUFFICES ASSUME ~parser'.warned, faults + 1 <= 1, NEW k \in 1 .. Len(calls), calls[k].seen
                   PROVE  \/ parser'.pending[calls[k].pid].call = k
                          \/ \E i \in DOMAIN parser.events : EventIs(k, i)'
      BY <1>2, <1>5, <1>8, <2>1 DEF Covered, Lost, Fates
    <3>2. parser' = parser
      BY <2>1, <3>1 DEF Lost
    <3>3. \A i \in DOMAIN parser.events : EventIs(k, i) => EventIs(k, i)'
      BY <1>2, <3>2 DEF EventIs, EventsOf
    <3> QED
      BY <1>2, <3>1, <3>2, <3>3 DEF Covered, LinesTypeOK
  <2>8. Clean'
    BY <2>1 DEF Clean, LinesTypeOK
  <2> QED
    BY <1>6, <2>2, <2>3, <2>4, <2>5, <2>6, <2>7, <2>8
<1> QED
  BY <1>7, <1>8

(* A task starts another one inside its spawn. *)
LEMMA ForkStep ==
  ASSUME LinesInv, NEW p \in Pids, NEW child \in Pids, Fork(p, child)
  PROVE  LinesInv'
<1> DEFINE c == inside[p]
<1> USE DEF LinesInv
<1>1. /\ p \in alive /\ c # 0 /\ child \notin alive /\ alive' = alive \cup {child}
      /\ calls' = [calls EXCEPT ![c].child = child]
      /\ inside' = inside /\ faults' = faults /\ killed' = killed /\ parser' = parser
  BY DEF Fork
<1>2. /\ c \in 1 .. Len(calls) /\ calls[c].pid = p /\ DOMAIN calls = 1 .. Len(calls)
      /\ calls \in Seq(Calls) /\ Len(calls) \in Nat
  BY <1>1 DEF World, LinesTypeOK
<1>3. /\ calls' \in Seq(Calls) /\ Len(calls') = Len(calls) /\ DOMAIN calls' = 1 .. Len(calls)
      /\ calls'[c].child = child
      /\ \A k \in 1 .. Len(calls) : /\ calls'[k].pid = calls[k].pid /\ calls'[k].name = calls[k].name
                                    /\ calls'[k].seen = calls[k].seen
                                    /\ k # c => calls'[k] = calls[k]
  <2> DEFINE new == [calls[c] EXCEPT !.child = child]
  <2>1. calls[c] \in Calls
    BY <1>2
  <2>2. /\ new \in Calls /\ new.child = child /\ new.pid = calls[c].pid /\ new.name = calls[c].name
        /\ new.seen = calls[c].seen
    BY <2>1 DEF Calls
  <2>3. calls' = [calls EXCEPT ![c] = new]
    BY <1>1
  <2> HIDE DEF new, c
  <2> QED
    BY <1>2, <2>2, <2>3, ReplaceFacts
<1>4. LinesTypeOK'
  BY <1>1, <1>3 DEF LinesTypeOK
<1>5. World'
  BY <1>1, <1>2, <1>3 DEF World
<1>6. Prefixed' /\ Aligned' /\ Paired'
  BY <1>1, <1>3 DEF Prefixed, Aligned, Paired, PairsAreReal
<1>7. Decoded'
  BY <1>1, <1>3 DEF Decoded
<1>8. Covered'
  <2>1. \A k \in 1 .. Len(calls), i \in DOMAIN parser.events : k # c /\ EventIs(k, i) => EventIs(k, i)'
    BY <1>1, <1>3 DEF EventIs, EventsOf
  <2>2. \A i \in DOMAIN parser.events : ~EventIs(c, i)
    BY <1>1 DEF EventIs, EventsOf, Decoded
  <2> QED
    BY <1>1, <1>2, <1>3, <2>1, <2>2 DEF Covered
<1>9. Clean'
  <2>1. faults = 0 => parser.pending[child] = NoPrefix
    BY <1>1, IdleHasNoPrefix DEF World
  <2>2. \A q \in Pids \ {p} : inside[q] # 0 => inside[q] # c /\ inside[q] \in 1 .. Len(calls)
    BY <1>2 DEF World
  <2> QED
    BY <1>1, <1>2, <1>3, <2>1, <2>2 DEF Clean
<1> QED
  BY <1>4, <1>5, <1>6, <1>7, <1>8, <1>9

(* The exit of a task, inside a call or not. *)
LEMMA ExitStep ==
  ASSUME LinesInv, NEW p \in Pids, NEW fate \in Fates, Exit(p, fate)
  PROVE  LinesInv'
<1> USE DEF LinesInv
<1>1. /\ p \in alive /\ alive' = alive \ {p} /\ inside' = [inside EXCEPT ![p] = 0]
      /\ killed' = (killed \/ inside[p] # 0) /\ calls' = calls
  BY DEF Exit
<1>2. \/ fate = "written" /\ parser' = PushExit(Counted, p) /\ faults' = faults
      \/ fate # "written" /\ faults' = faults + 1 /\ Lost(fate)
  BY FaultyWrite DEF Exit
<1>3. /\ inside'[p] = 0 /\ \A q \in Pids \ {p} : inside'[q] = inside[q]
      /\ killed' \in BOOLEAN /\ inside' \in [Pids -> Nat] /\ alive' \subseteq Pids
  BY <1>1 DEF LinesTypeOK
<1>4. World'
  BY <1>1, <1>3 DEF World
<1>5. CASE fate = "written"
  <2> DEFINE e == [pid |-> p, name |-> "exit", line |-> parser.lines + 1, end |-> parser.lines + 1,
                   child |-> NoPid, entered |-> 0, returned |-> 0]
  <2>1. /\ parser' \in Parsers /\ parser'.lines = parser.lines + 1 /\ faults' = faults
        /\ parser'.pending = [parser.pending EXCEPT ![p] = NoPrefix]
        /\ parser'.warned = (parser.warned \/ parser.pending[p] # NoPrefix)
        /\ parser'.events = Append(parser.events, e)
    <3>1. ExitPushed(parser', Counted, p)
      BY <1>2, <1>5, CountedFields, ExitFields DEF LinesTypeOK
    <3> QED
      BY <1>2, <1>5, <3>1, CountedFields DEF ExitPushed, LinesTypeOK
  <2>2. e \in LineEvents /\ e.entered = 0 /\ e.returned = 0
    BY DEF LineEvents, LinesTypeOK, Parsers
  <2> HIDE DEF e
  <2>3. /\ DOMAIN parser'.events = 1 .. Len(parser.events) + 1
        /\ DOMAIN parser.events = 1 .. Len(parser.events) /\ Len(parser.events) \in Nat
        /\ \A i \in DOMAIN parser.events : parser'.events[i] = parser.events[i]
        /\ parser'.events[Len(parser.events) + 1] = e
    BY <2>1, <2>2, EventAppended DEF LinesTypeOK
  <2>4. /\ parser'.pending[p] = NoPrefix
        /\ \A q \in Pids \ {p} : parser'.pending[q] = parser.pending[q]
        /\ parser.lines \in Nat
    BY <2>1 DEF LinesTypeOK, Parsers
  <2>5. LinesTypeOK'
    BY <1>1, <1>3, <2>1 DEF LinesTypeOK
  <2>6. Prefixed'
    BY <1>1, <2>1, <2>4 DEF Prefixed
  <2>7. Aligned'
    BY <1>3, <2>1, <2>4 DEF Aligned
  <2>8. Decoded'
    <3>1. \A q \in Pids : inside'[q] \in {inside[q], 0}
      BY <1>3
    <3>2. \A q \in Pids : parser'.pending[q] = parser.pending[q] \/ parser'.pending[q] = NoPrefix
      BY <2>4
    <3>3. parser \in Parsers /\ Len(calls) \in Nat /\ calls' = calls
      BY <1>1 DEF LinesTypeOK
    <3> QED
      BY <2>1, <2>2, <3>1, <3>2, <3>3, DecodedStep
  <2>9. Paired'
    BY <2>1, <2>2, <2>3 DEF Paired, PairsAreReal
  <2>10. Covered'
    <3>1. SUFFICES ASSUME ~parser'.warned, faults <= 1, NEW k \in DOMAIN calls, calls[k].seen
                   PROVE  \/ parser'.pending[calls[k].pid].call = k
                          \/ \E i \in DOMAIN parser'.events : EventIs(k, i)'
      BY <1>1, <2>1 DEF Covered
    <3>2. ~parser.warned /\ parser'.pending = parser.pending
      BY <2>1, <3>1 DEF LinesTypeOK, Parsers
    <3>3. k # 0
      BY DEF LinesTypeOK
    <3>4. CASE \E i \in DOMAIN parser.events : EventIs(k, i)
      BY <1>1, <2>1, <2>2, <3>3, <3>4, EventKept DEF LinesTypeOK
    <3> QED
      BY <3>1, <3>2, <3>4 DEF Covered
  <2>11. Clean'
    <3>1. SUFFICES ASSUME faults = 0, ~killed, inside[p] = 0
                   PROVE  Clean'
      BY <1>1, <2>1 DEF Clean
    <3>2. parser.pending[p] = NoPrefix /\ ~parser.warned
      BY <3>1, IdleHasNoPrefix DEF Clean
    <3>3. ~parser'.warned /\ parser'.pending = parser.pending
      BY <2>1, <3>2 DEF LinesTypeOK, Parsers
    <3> QED
      BY <1>1, <1>3, <3>1, <3>3 DEF Clean
  <2> QED
    BY <1>4, <2>5, <2>6, <2>7, <2>8, <2>9, <2>10, <2>11
<1>6. CASE fate # "written"
  <2>1. faults' = faults + 1 /\ Lost(fate)
    BY <1>2, <1>6
  <2>2. LinesTypeOK'
    BY <1>1, <1>3, <2>1 DEF LinesTypeOK, Lost
  <2>3. Prefixed'
    BY <1>1, <2>1 DEF Prefixed, Lost, LinesTypeOK, Parsers
  <2>4. Aligned'
    BY <1>3, <2>1 DEF Aligned, Lost, LinesTypeOK
  <2>5. Decoded'
    <3>1. \A q \in Pids : inside'[q] \in {inside[q], 0}
      BY <1>3
    <3>2. \A q \in Pids : parser'.pending[q].call = parser.pending[q].call \/ parser'.pending[q].call = 0
      BY <2>1, NoPrefixType DEF Lost
    <3> QED
      BY <1>1, <2>1, <3>1, <3>2 DEF Decoded, Lost
  <2>6. Paired'
    BY <2>1 DEF Paired, PairsAreReal, Lost, LinesTypeOK
  <2>7. Covered'
    BY <1>1, <2>1 DEF Covered, EventIs, EventsOf, Lost, LinesTypeOK
  <2>8. Clean'
    BY <2>1 DEF Clean, LinesTypeOK
  <2> QED
    BY <1>4, <2>2, <2>3, <2>4, <2>5, <2>6, <2>7, <2>8
<1> QED
  BY <1>5, <1>6

(* A call on one line. *)
LEMMA WholeCallStep ==
  ASSUME LinesInv, NEW p \in Pids, NEW name \in CallNames, NEW child \in Pids \cup {NoPid},
         NEW fate \in Fates, WholeCall(p, name, child, fate)
  PROVE  LinesInv'
<1> DEFINE new == [pid |-> p, name |-> name, child |-> child, seen |-> fate # "missing"]
<1> USE DEF LinesInv
<1>0. PICK c \in Nat : c = Len(calls) + 1
  BY DEF LinesTypeOK
<1>1. new \in Calls /\ calls' = Append(calls, new)
  BY DEF WholeCall, NewCall, Calls
<1>2. /\ calls' \in Seq(Calls) /\ Len(calls') = c /\ DOMAIN calls' = 1 .. c
      /\ DOMAIN calls = 1 .. Len(calls) /\ Len(calls) \in Nat /\ c = Len(calls) + 1
      /\ \A i \in 1 .. Len(calls) : calls'[i] = calls[i]
      /\ calls'[c] = new
  BY <1>0, <1>1, AppendFacts DEF LinesTypeOK
<1>3. /\ p \in alive /\ inside[p] = 0 /\ inside' = inside /\ killed' = killed
      /\ child # NoPid => child \notin alive
      /\ alive' \subseteq Pids /\ alive \subseteq alive'
  BY DEF WholeCall, Idle, LinesTypeOK
<1>4. \/ /\ fate = "written" /\ faults' = faults
         /\ parser' = PushEvent(Counted, p, name, Counted.lines, c, c, child)
      \/ fate # "written" /\ faults' = faults + 1 /\ Lost(fate)
  BY <1>2, FaultyWrite DEF WholeCall
<1>5. new.pid = p /\ new.name = name /\ new.child = child /\ (new.seen <=> fate # "missing")
  OBVIOUS
<1> HIDE DEF new
<1>6. World'
  BY <1>2, <1>3 DEF World
<1>7. CASE fate = "written"
  <2> DEFINE e == [pid |-> p, name |-> name, line |-> parser.lines + 1, end |-> parser.lines + 1,
                   child |-> child, entered |-> c, returned |-> c]
  <2>1. /\ parser' \in Parsers /\ parser'.lines = parser.lines + 1 /\ faults' = faults
        /\ parser'.events = Append(parser.events, e)
        /\ \A q \in Pids : parser'.pending[q] = parser.pending[q] \/ parser'.pending[q] = NoPrefix
        /\ ~parser'.warned => ~parser.warned /\ parser'.pending = parser.pending
        /\ child = NoPid \/ parser.pending[child].line \notin 1 .. parser.lines =>
             parser'.pending = parser.pending /\ parser'.warned = parser.warned
    <3>1. Counted.lines \in Nat /\ c \in Nat /\ Counted.lines - 1 = parser.lines
      BY <1>2, CountedFields DEF LinesTypeOK, Parsers
    <3>2. EventPushed(parser', Counted, p, name, Counted.lines, c, c, child)
      BY <1>4, <1>7, <3>1, CountedFields, EventFields DEF LinesTypeOK
    <3> QED
      BY <1>4, <1>7, <3>1, <3>2, CountedFields DEF EventPushed, LinesTypeOK
  <2>2. e \in LineEvents
    BY <1>2 DEF LineEvents, LinesTypeOK, Parsers
  <2>3. /\ e.entered = c /\ e.returned = c /\ e.pid = p /\ e.name = name /\ e.child = child
    OBVIOUS
  <2> HIDE DEF e
  <2>4. /\ DOMAIN parser'.events = 1 .. Len(parser.events) + 1
        /\ DOMAIN parser.events = 1 .. Len(parser.events) /\ Len(parser.events) \in Nat
        /\ \A i \in DOMAIN parser.events : parser'.events[i] = parser.events[i]
        /\ parser'.events[Len(parser.events) + 1] = e
        /\ EventsOf(c)' = EventsOf(c) \cup {Len(parser.events) + 1}
    BY <2>1, <2>2, <2>3, EventAppended DEF LinesTypeOK
  <2>5. LinesTypeOK'
    BY <1>2, <1>3, <2>1 DEF LinesTypeOK
  <2>6. Prefixed'
    BY <1>2, <2>1 DEF Prefixed, LinesTypeOK, Parsers
  <2>7. Aligned'
    BY <1>3, <2>1 DEF Aligned
  <2>8. Decoded'
    <3>1. \A q \in Pids : inside'[q] \in {inside[q], 0} /\ inside'[q] # c /\ parser'.pending[q].call # c
      BY <1>2, <1>3, <2>1, NoPrefixType DEF World, Prefixed
    <3> QED
      BY <1>2, <2>1, <2>2, <2>3, <3>1, DecodedStep DEF LinesTypeOK
  <2>9. Paired'
    BY <2>1, <2>3, <2>4 DEF Paired, PairsAreReal
  <2>10. Covered'
    <3>1. SUFFICES ASSUME ~parser'.warned, faults <= 1, NEW k \in 1 .. c, calls'[k].seen
                   PROVE  \/ parser'.pending[calls'[k].pid].call = k
                          \/ \E i \in DOMAIN parser'.events : EventIs(k, i)'
      BY <1>2, <2>1 DEF Covered
    <3>2. ~parser.warned /\ parser'.pending = parser.pending
      BY <2>1, <3>1
    <3>3. CASE k = c
      <4>1. EventsOf(c) = {}
        BY <1>2 DEF EventsOf, Decoded
      <4>2. PICK n \in DOMAIN parser'.events : n = Len(parser.events) + 1
        BY <2>4
      <4>3. EventIs(c, n)'
        BY <1>2, <1>5, <2>3, <2>4, <4>1, <4>2 DEF EventIs
      <4> QED
        BY <3>3, <4>3
    <3>4. CASE k # c
      <4>1. k \in 1 .. Len(calls) /\ calls'[k] = calls[k]
        BY <1>2, <3>4
      <4>2. CASE \E i \in DOMAIN parser.events : EventIs(k, i)
        BY <2>1, <2>2, <2>3, <3>4, <4>1, <4>2, EventKept DEF LinesTypeOK
      <4> QED
        BY <1>2, <3>1, <3>2, <4>1, <4>2 DEF Covered
    <3> QED
      BY <3>3, <3>4
  <2>11. Clean'
    <3>1. SUFFICES ASSUME faults = 0, ~killed
                   PROVE  Clean'
      BY <1>3, <2>1 DEF Clean
    <3>2. child # NoPid => parser.pending[child] = NoPrefix
      BY <1>3, <3>1, IdleHasNoPrefix DEF World
    <3>3. parser'.pending = parser.pending /\ parser'.warned = parser.warned
      BY <2>1, <3>2, NoPrefixType DEF LinesTypeOK, Parsers
    <3>4. \A q \in Pids : inside[q] # 0 => calls'[inside[q]] = calls[inside[q]]
      BY <1>2 DEF World
    <3> QED
      BY <1>3, <3>1, <3>3, <3>4 DEF Clean
  <2> QED
    BY <1>6, <2>5, <2>6, <2>7, <2>8, <2>9, <2>10, <2>11
<1>8. CASE fate # "written"
  <2>1. faults' = faults + 1 /\ Lost(fate)
    BY <1>4, <1>8
  <2>2. LinesTypeOK'
    BY <1>2, <1>3, <2>1 DEF LinesTypeOK, Lost
  <2>3. Prefixed'
    BY <1>2, <2>1, PrefixedStep DEF Lost, LinesTypeOK
  <2>4. Aligned'
    BY <1>3, <2>1 DEF Aligned, Lost, LinesTypeOK
  <2>5. Decoded'
    <3>1. \A q \in Pids : parser'.pending[q].call = parser.pending[q].call \/ parser'.pending[q].call = 0
      BY <2>1, NoPrefixType DEF Lost
    <3> QED
      BY <1>2, <1>3, <2>1, <3>1 DEF Decoded, Lost
  <2>6. Paired'
    BY <2>1 DEF Paired, PairsAreReal, Lost, LinesTypeOK
  <2>7. Covered'
    <3>1. SUFFICES ASSUME ~parser'.warned, faults + 1 <= 1, NEW k \in 1 .. Len(calls), calls[k].seen
                   PROVE  \/ parser'.pending[calls[k].pid].call = k
                          \/ \E i \in DOMAIN parser.events : EventIs(k, i)'
      BY <1>2, <1>5, <1>8, <2>1 DEF Covered, Lost, Fates
    <3>2. parser' = parser
      BY <2>1, <3>1 DEF Lost
    <3>3. \A i \in DOMAIN parser.events : EventIs(k, i) => EventIs(k, i)'
      BY <1>2, <3>2 DEF EventIs, EventsOf
    <3> QED
      BY <1>2, <3>1, <3>2, <3>3 DEF Covered, LinesTypeOK
  <2>8. Clean'
    BY <2>1 DEF Clean, LinesTypeOK
  <2> QED
    BY <1>6, <2>2, <2>3, <2>4, <2>5, <2>6, <2>7, <2>8
<1> QED
  BY <1>7, <1>8

(* The return of a call. *)
LEMMA ResumeStep ==
  ASSUME LinesInv, NEW p \in Pids, NEW fate \in Fates, Resume(p, fate)
  PROVE  LinesInv'
<1> USE DEF LinesInv
<1>0. PICK c \in Nat : c = inside[p]
  BY DEF LinesTypeOK
<1>1. /\ p \in alive /\ c # 0 /\ calls' = [calls EXCEPT ![c].seen = @ \/ fate # "missing"]
      /\ alive' = alive /\ killed' = killed /\ inside' = [inside EXCEPT ![p] = 0]
  BY <1>0 DEF Resume
<1>2. /\ c \in 1 .. Len(calls) /\ calls[c].pid = p /\ calls[c].child # p /\ DOMAIN calls = 1 .. Len(calls)
      /\ calls \in Seq(Calls) /\ calls[c] \in Calls /\ Len(calls) \in Nat
  BY <1>0, <1>1 DEF World, LinesTypeOK
<1>3. /\ calls' \in Seq(Calls) /\ Len(calls') = Len(calls) /\ DOMAIN calls' = 1 .. Len(calls)
      /\ calls'[c].seen <=> calls[c].seen \/ fate # "missing"
      /\ \A k \in 1 .. Len(calls) : /\ calls'[k].pid = calls[k].pid /\ calls'[k].name = calls[k].name
                                    /\ calls'[k].child = calls[k].child
                                    /\ k # c => calls'[k] = calls[k]
  <2> DEFINE b == calls[c].seen \/ fate # "missing"
             new == [calls[c] EXCEPT !.seen = b]
  <2>1. b \in BOOLEAN
    BY <1>2 DEF Calls
  <2>2. calls' = [calls EXCEPT ![c] = new]
    BY <1>1
  <2> HIDE DEF b
  <2>3. /\ new \in Calls /\ new.child = calls[c].child /\ new.pid = calls[c].pid
        /\ new.name = calls[c].name /\ new.seen = b
    BY <1>2, <2>1 DEF Calls
  <2> HIDE DEF new
  <2>4. /\ calls' \in Seq(Calls) /\ Len(calls') = Len(calls) /\ DOMAIN calls' = 1 .. Len(calls)
        /\ calls'[c] = new /\ \A k \in 1 .. Len(calls) : k # c => calls'[k] = calls[k]
    BY <1>2, <2>2, <2>3, ReplaceFacts
  <2>5. calls'[c].seen <=> calls[c].seen \/ fate # "missing"
    BY <2>3, <2>4 DEF b
  <2> QED
    BY <2>3, <2>4, <2>5
<1>4. /\ inside'[p] = 0 /\ \A q \in Pids \ {p} : inside'[q] = inside[q] /\ inside'[q] # c
      /\ inside' \in [Pids -> Nat]
  BY <1>1, <1>2 DEF LinesTypeOK, World
<1>5. \/ /\ fate = "written" /\ faults' = faults
         /\ parser' = PushResumed(Counted, p, calls[c].name, c, calls[c].child)
      \/ fate # "written" /\ faults' = faults + 1 /\ Lost(fate)
  BY <1>0, FaultyWrite DEF Resume
<1>6. World'
  BY <1>1, <1>3, <1>4 DEF World
<1> DEFINE prefix == parser.pending[p]
           child == calls[c].child
           e == [pid |-> p, name |-> calls[c].name, line |-> prefix.line, end |-> parser.lines + 1,
                 child |-> child, entered |-> prefix.call, returned |-> c]
<1>7. CASE fate = "written"
  <2>1. /\ parser' \in Parsers /\ parser'.lines = parser.lines + 1 /\ parser'.pending[p] = NoPrefix
        /\ faults' = faults
        /\ \A q \in Pids : parser'.pending[q] = parser.pending[q] \/ parser'.pending[q] = NoPrefix
        /\ \/ /\ prefix = NoPrefix \/ prefix.name # calls[c].name
              /\ parser'.warned /\ parser'.events = parser.events
           \/ /\ prefix # NoPrefix /\ prefix.name = calls[c].name
              /\ parser'.events = Append(parser.events, e)
              /\ ~parser'.warned =>
                   ~parser.warned /\ \A q \in Pids \ {p} : parser'.pending[q] = parser.pending[q]
              /\ child = NoPid \/ parser.pending[child].line \notin 1 .. prefix.line - 1 =>
                   /\ parser'.warned = parser.warned
                   /\ \A q \in Pids \ {p} : parser'.pending[q] = parser.pending[q]
    <3>1. calls[c].name \in CallNames /\ child \in Pids \cup {NoPid}
      BY <1>2 DEF Calls
    <3>2. ReturnPushed(parser', Counted, p, calls[c].name, c, child)
      BY <1>2, <1>5, <1>7, <3>1, CountedFields, ResumedFields DEF LinesTypeOK
    <3> QED
      BY <1>5, <1>7, <3>2, CountedFields DEF ReturnPushed, LinesTypeOK
  <2>2. LinesTypeOK'
    BY <1>1, <1>3, <1>4, <2>1 DEF LinesTypeOK
  <2>3. Prefixed'
    BY <1>3, <2>1 DEF Prefixed, LinesTypeOK, Parsers
  <2>4. Aligned'
    BY <1>4, <2>1 DEF Aligned
  <2>5. \A q \in Pids : inside'[q] \in {inside[q], 0} /\ inside'[q] # c
    BY <1>2, <1>4
  <2>6. \A q \in Pids : parser'.pending[q].call # c
    BY <1>2, <2>1, NoPrefixType DEF Prefixed
  <2>7. parser.pending \in [Pids -> Pending] /\ parser.lines \in Nat /\ parser \in Parsers
    BY DEF LinesTypeOK, Parsers
  <2>8. CASE prefix = NoPrefix \/ prefix.name # calls[c].name
    <3>1. parser'.warned /\ parser'.events = parser.events
      BY <2>1, <2>8
    <3>2. Decoded'
      <4>1. \A q \in Pids : parser'.pending[q].call \in {parser.pending[q].call, 0}
        BY <2>1, NoPrefixType
      <4> QED
        BY <1>3, <2>5, <3>1, <4>1 DEF Decoded
    <3>3. Paired' /\ Covered'
      BY <2>1, <3>1 DEF Paired, PairsAreReal, Covered
    <3>4. Clean'
      BY <1>0, <1>1, <1>2, <2>1, <2>8, NoPrefixType DEF Clean, Prefixed
    <3> QED
      BY <1>6, <2>2, <2>3, <2>4, <3>2, <3>3, <3>4
  <2>9. CASE prefix # NoPrefix /\ prefix.name = calls[c].name
    <3>1. /\ e \in LineEvents /\ e.returned = c /\ e.entered = prefix.call
          /\ e.pid = p /\ e.name = calls[c].name /\ e.child = calls[c].child
      BY <1>2, <2>7 DEF LineEvents, Calls, Pending
    <3>2. parser'.events = Append(parser.events, e)
      BY <2>1, <2>9
    <3> HIDE DEF e
    <3>3. /\ DOMAIN parser'.events = 1 .. Len(parser.events) + 1
          /\ DOMAIN parser.events = 1 .. Len(parser.events) /\ Len(parser.events) \in Nat
          /\ \A i \in DOMAIN parser.events : parser'.events[i] = parser.events[i]
          /\ parser'.events[Len(parser.events) + 1] = e
          /\ EventsOf(c)' = EventsOf(c) \cup {Len(parser.events) + 1}
      BY <2>7, <3>1, <3>2, EventAppended
    <3>4. faults <= 1 => prefix.call = c
      BY <1>0, <1>1, <2>9 DEF Aligned
    <3>5. Decoded'
      BY <1>2, <1>3, <2>1, <2>5, <2>6, <2>7, <3>1, <3>2, DecodedStep
    <3>6. Paired'
      <4>1. SUFFICES ASSUME faults <= 1, NEW i \in DOMAIN parser'.events
                     PROVE  parser'.events[i].entered = parser'.events[i].returned
        BY <2>1 DEF Paired, PairsAreReal
      <4>2. CASE i = Len(parser.events) + 1
        BY <3>1, <3>3, <3>4, <4>1, <4>2
      <4>3. CASE i # Len(parser.events) + 1
        <5>1. i \in DOMAIN parser.events /\ parser'.events[i] = parser.events[i]
          BY <3>3, <4>1, <4>3
        <5> QED
          BY <4>1, <5>1 DEF Paired, PairsAreReal
      <4> QED
        BY <4>2, <4>3
    <3>7. Covered'
      <4>1. SUFFICES ASSUME ~parser'.warned, faults <= 1, NEW k \in 1 .. Len(calls), calls'[k].seen
                     PROVE  \/ parser'.pending[calls'[k].pid].call = k
                            \/ \E i \in DOMAIN parser'.events : EventIs(k, i)'
        BY <1>3, <2>1 DEF Covered
      <4>2. ~parser.warned /\ \A q \in Pids \ {p} : parser'.pending[q] = parser.pending[q]
        BY <2>1, <2>9, <4>1
      <4>3. CASE k = c
        <5>1. EventsOf(c) = {}
          BY <1>0, <1>1 DEF EventsOf, Decoded
        <5>2. PICK n \in DOMAIN parser'.events : n = Len(parser.events) + 1
          <6>1. Len(parser.events) + 1 \in 1 .. Len(parser.events) + 1
            BY <3>3
          <6> QED
            BY <3>3, <6>1
        <5>3. EventIs(c, n)'
          BY <1>2, <1>3, <3>1, <3>3, <5>1, <5>2 DEF EventIs
        <5> QED
          BY <4>3, <5>3
      <4>4. CASE k # c
        <5>1. calls'[k] = calls[k] /\ calls[k].seen /\ calls[k].pid \in Pids
          <6>1. calls'[k] = calls[k]
            BY <1>3, <4>4
          <6>2. calls[k] \in Calls
            BY <1>2
          <6> QED
            BY <4>1, <6>1, <6>2 DEF Calls
        <5>2. CASE \E i \in DOMAIN parser.events : EventIs(k, i)
          BY <2>7, <3>1, <3>2, <4>4, <5>1, <5>2, EventKept
        <5>3. CASE parser.pending[calls[k].pid].call = k
          <6>1. calls[k].pid # p
            BY <3>4, <4>1, <4>4, <5>3
          <6> QED
            BY <4>2, <5>1, <5>3, <6>1
        <5> QED
          BY <1>2, <4>1, <4>2, <5>1, <5>2, <5>3 DEF Covered
      <4> QED
        BY <4>3, <4>4
    <3>8. Clean'
      <4>1. SUFFICES ASSUME faults = 0, ~killed
                     PROVE  Clean'
        BY <1>1, <2>1 DEF Clean
      <4>2. ~parser.warned
        BY <4>1 DEF Clean
      <4>3. child = NoPid \/ parser.pending[child].line \notin 1 .. prefix.line - 1
        <5>1. CASE child \in Pids /\ parser.pending[child] # NoPrefix
          <6>1. prefix.line < parser.pending[child].line
            BY <1>0, <1>1, <4>1, <5>1 DEF Clean
          <6>2. prefix.line \in Nat /\ parser.pending[child].line \in Nat
            BY <2>7, <5>1 DEF Pending
          <6> QED
            BY <6>1, <6>2
        <5>2. CASE child \in Pids /\ parser.pending[child] = NoPrefix
          BY <5>2, NoPrefixType
        <5> QED
          BY <1>2, <5>1, <5>2 DEF Calls
      <4>4. parser'.warned = parser.warned /\ \A q \in Pids \ {p} : parser'.pending[q] = parser.pending[q]
        BY <2>1, <2>9, <4>3
      <4>5. ASSUME NEW q \in Pids, inside'[q] # 0
            PROVE  /\ parser'.pending[q].call = inside'[q]
                   /\ \A o \in Pids : calls'[inside'[q]].child = o /\ parser'.pending[o] # NoPrefix =>
                        parser'.pending[q].line < parser'.pending[o].line
        <5>1. q # p /\ inside'[q] = inside[q] /\ inside[q] # c /\ parser'.pending[q] = parser.pending[q]
          BY <1>4, <4>4, <4>5
        <5>2. calls'[inside[q]] = calls[inside[q]]
          BY <1>3, <4>5, <5>1 DEF World
        <5> QED
          BY <2>1, <4>1, <4>4, <4>5, <5>1, <5>2 DEF Clean
      <4> QED
        BY <4>2, <4>4, <4>5 DEF Clean
    <3> QED
      BY <1>6, <2>2, <2>3, <2>4, <3>5, <3>6, <3>7, <3>8
  <2> QED
    BY <2>8, <2>9
<1>8. CASE fate # "written"
  <2>1. faults' = faults + 1 /\ Lost(fate)
    BY <1>5, <1>8
  <2>2. LinesTypeOK'
    BY <1>1, <1>3, <1>4, <2>1 DEF LinesTypeOK, Lost
  <2>3. Prefixed'
    BY <1>2, <1>3, <2>1, PrefixedStep DEF Lost, LinesTypeOK
  <2>4. Aligned'
    BY <1>4, <2>1 DEF Aligned, Lost, LinesTypeOK
  <2>5. Decoded'
    <3>1. \A q \in Pids : inside'[q] \in {inside[q], 0}
      BY <1>4
    <3>2. \A q \in Pids : parser'.pending[q].call = parser.pending[q].call \/ parser'.pending[q].call = 0
      BY <2>1, NoPrefixType DEF Lost
    <3> QED
      BY <1>3, <2>1, <3>1, <3>2 DEF Decoded, Lost
  <2>6. Paired'
    BY <2>1 DEF Paired, PairsAreReal, Lost, LinesTypeOK
  <2>7. Covered'
    <3>1. SUFFICES ASSUME ~parser'.warned, faults + 1 <= 1, NEW k \in 1 .. Len(calls), calls'[k].seen
                   PROVE  \/ parser'.pending[calls'[k].pid].call = k
                          \/ \E i \in DOMAIN parser'.events : EventIs(k, i)'
      BY <1>3, <2>1 DEF Covered
    <3>2. parser' = parser /\ fate = "missing"
      BY <2>1, <3>1 DEF Lost
    <3>3. calls[k].seen /\ calls'[k].pid = calls[k].pid
      BY <1>3, <3>1, <3>2
    <3>4. \A i \in DOMAIN parser.events : EventIs(k, i) => EventIs(k, i)'
      BY <1>3, <3>2 DEF EventIs, EventsOf
    <3> QED
      BY <1>2, <3>1, <3>2, <3>3, <3>4 DEF Covered, LinesTypeOK
  <2>8. Clean'
    BY <2>1 DEF Clean, LinesTypeOK
  <2> QED
    BY <1>6, <2>2, <2>3, <2>4, <2>5, <2>6, <2>7, <2>8
<1> QED
  BY <1>7, <1>8

-----------------------------------------------------------------------------
(* Theorems *)

(* The invariant the properties rest on: prefixes are aligned with the     *)
(* calls under way, and every call with a line is pending or decoded       *)
(* unless something has been warned about.                                 *)
THEOREM LinesInvariant == LinesSpec => []LinesInv
<1>1. LinesInit => LinesInv
  <2> SUFFICES ASSUME LinesInit
               PROVE  LinesInv
    OBVIOUS
  <2>1. /\ inside = [q \in Pids |-> 0] /\ calls = <<>> /\ faults = 0 /\ killed = FALSE /\ alive \subseteq Pids
        /\ parser = [pending |-> [q \in Pids |-> NoPrefix], events |-> <<>>, warned |-> FALSE, lines |-> 0]
    BY DEF LinesInit
  <2>2. parser \in Parsers /\ parser.events = <<>> /\ ~parser.warned /\ \A q \in Pids : parser.pending[q] = NoPrefix
    BY <2>1, NoPrefixType DEF Parsers
  <2>3. LinesTypeOK
    <3>1. calls \in Seq(Calls) /\ inside \in [Pids -> Nat]
      BY <2>1
    <3>2. faults \in Nat /\ killed \in BOOLEAN /\ alive \subseteq Pids
      BY <2>1
    <3> QED
      BY <2>2, <3>1, <3>2 DEF LinesTypeOK
  <2>4. World /\ Prefixed /\ Aligned
    BY <2>1, <2>2 DEF World, Prefixed, Aligned
  <2>5. Decoded /\ Paired
    BY <2>2 DEF Decoded, Paired, PairsAreReal
  <2>6. Covered /\ Clean
    BY <2>1, <2>2 DEF Covered, Clean
  <2> QED
    BY <2>3, <2>4, <2>5, <2>6 DEF LinesInv
<1>2. LinesInv /\ [LinesNext]_linesVars => LinesInv'
  <2> SUFFICES ASSUME LinesInv, [LinesNext]_linesVars
               PROVE  LinesInv'
    OBVIOUS
  <2>1. CASE LinesNext
    <3>1. PICK p \in Pids :
            \/ \E child \in Pids : Fork(p, child)
            \/ \E fate \in Fates :
                 \/ \E name \in CallNames, child \in Pids \cup {NoPid} : WholeCall(p, name, child, fate)
                 \/ \E name \in CallNames : Enter(p, name, fate)
                 \/ Resume(p, fate)
                 \/ Exit(p, fate)
      BY <2>1 DEF LinesNext, CallNames
    <3> QED
      BY <3>1, ForkStep, WholeCallStep, EnterStep, ResumeStep, ExitStep
  <2>2. CASE UNCHANGED linesVars
    BY <2>2 DEF linesVars, worldVars, LinesInv, LinesTypeOK, World, Prefixed, Aligned, Decoded, Paired,
                PairsAreReal, Covered, EventIs, EventsOf, Clean
  <2> QED
    BY <2>1, <2>2
<1> QED
  BY <1>1, <1>2, PTL DEF LinesSpec

(* As long as at most one line is missing or undecodable, no event joins   *)
(* the entry of one call to the return of another, although only a         *)
(* reusable ID and a name tie them together.                               *)
THEOREM HalvesBelongTogether == LinesSpec => [](faults <= 1 => PairsAreReal)
<1>1. LinesInv => (faults <= 1 => PairsAreReal)
  BY DEF LinesInv, Paired
<1> QED
  BY <1>1, LinesInvariant, PTL

(* As long as at most one line is missing or undecodable, a trace parsed   *)
(* without a warning has exactly one event, with its own child, for every  *)
(* call with a line; and without faults, kills and open calls nothing is   *)
(* warned about.                                                           *)
THEOREM SilenceMeansExact == LinesSpec => [](faults <= 1 => QuietIsExact)
<1>1. LinesInv => (faults <= 1 => QuietIsExact)
  <2> SUFFICES ASSUME LinesInv, faults <= 1
               PROVE  QuietIsExact
    OBVIOUS
  <2> USE DEF LinesInv
  <2>1. ASSUME ~FinallyWarned(parser), NEW c \in DOMAIN calls, calls[c].seen
        PROVE  /\ Cardinality(EventsOf(c)) = 1
               /\ \A i \in EventsOf(c) :
                    /\ parser.events[i].pid = calls[c].pid /\ parser.events[i].name = calls[c].name
                    /\ parser.events[i].child = calls[c].child
    <3>1. ~parser.warned /\ calls[c].pid \in Pids /\ c # 0
      <4>1. calls[c] \in Calls /\ c # 0
        BY DEF LinesTypeOK
      <4> QED
        BY <2>1, <4>1 DEF FinallyWarned, Calls
    <3>2. parser.pending[calls[c].pid].call # c
      BY <2>1, <3>1, NoPrefixType DEF FinallyWarned
    <3>3. PICK i \in DOMAIN parser.events : EventIs(c, i)
      BY <2>1, <3>1, <3>2 DEF Covered
    <3>4. Cardinality({i}) = 1
      BY FS_Singleton
    <3> QED
      BY <3>3, <3>4 DEF EventIs
  <2>2. ASSUME faults = 0, ~killed, \A p \in Pids : inside[p] = 0
        PROVE  ~FinallyWarned(parser)
    <3>1. ~parser.warned
      BY <2>2 DEF Clean
    <3>2. \A p \in Pids : parser.pending[p] = NoPrefix
      BY <2>2, IdleHasNoPrefix
    <3> QED
      BY <3>1, <3>2 DEF FinallyWarned
  <2> QED
    BY <2>1, <2>2 DEF QuietIsExact
<1> QED
  BY <1>1, LinesInvariant, PTL

=============================================================================

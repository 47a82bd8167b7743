---------------------------- MODULE TraceContract ----------------------------
(***************************************************************************)
(* What a saved trace must satisfy to be read again, from                  *)
(* validate_trace_provenance in src/model/mod.rs, against what the writer  *)
(* saves: the events with the generations of bind_task_generations, the    *)
(* marks of apply_identity_findings and the references of Completion.      *)
(* The reader has only these annotations, not the timeline, and replays    *)
(* the lifetimes by itself.                                                *)
(***************************************************************************)
EXTENDS TaskTimeline

-----------------------------------------------------------------------------
(* The writer *)

(* Variant: the row of a colliding spawn is not marked. *)
MarkedActors(i) == IsUntrusted(actor[i])

(* apply_identity_findings: every row of an untrusted lifetime and the row *)
(* that introduced a colliding one.                                        *)
Marked(i) ==
  \/ IsUntrusted(actor[i])
  \/ child[i] # 0 /\ generations[child[i]].origin = "LiveCollision"

(* bind_task_generations *)
SavedEvents ==
  [i \in DOMAIN events |->
     [pid |-> events[i].pid, kind |-> events[i].kind, line |-> events[i].line, end |-> events[i].end,
      taskGeneration |-> generations[actor[i]].ordinal,
      childPid |-> events[i].childPid,
      childGeneration |-> IF child[i] = 0 THEN 0 ELSE generations[child[i]].ordinal,
      uncertain |-> Marked(i)]]

Reference(i) == [index |-> i, line |-> events[i].line, end |-> events[i].end]

NoReference == [index |-> 0, line |-> 0, end |-> 0]
NoProvenance == [root |-> <<NoPid, 0>>, exec |-> NoReference, exit |-> NoReference]

(* Completion::provenance *)
Provenance ==
  IF RootExit = 0 THEN NoProvenance
  ELSE [root |-> TaskGeneration(RootExec),
        exec |-> Reference(RootExec), exit |-> Reference(RootExit)]

(* What the findings leave in the metadata: missing exits and identity     *)
(* findings are warnings, and with a warning nothing is complete.          *)
SavedMetadata ==
  LET warned == MissingExits # {} \/ \E g \in DOMAIN generations : IsUntrusted(g)
  IN [warned |-> warned, complete |-> ~warned, provenance |-> Provenance]

-----------------------------------------------------------------------------
(* The reader: validate_trace_provenance of saved events `saved` *)

Evidence(saved, i) == <<saved[i].line, saved[i].end, i>>
Precedes(a, b) ==
  \/ a[1] < b[1]
  \/ a[1] = b[1] /\ a[2] < b[2]
  \/ a[1] = b[1] /\ a[2] = b[2] /\ a[3] < b[3]
Ordered(saved) ==
  [n \in DOMAIN saved |->
     CHOOSE i \in DOMAIN saved :
       Cardinality({j \in DOMAIN saved : Precedes(Evidence(saved, j), Evidence(saved, i))}) = n - 1]

(* Lifetime of a PID in `active`; ordinal 0 is no entry. *)
NotActive == [ordinal |-> 0, untrusted |-> FALSE]

Unread == [latest |-> [p \in Pids |-> 0], active |-> [p \in Pids |-> NotActive],
           missing |-> {}, hasInitial |-> FALSE, identityUncertain |-> FALSE, ok |-> TRUE]

(* The actor keeps its active ordinal until its exit; only the first actor *)
(* needs no introduction.                                                  *)
ReadActor(r, e) ==
  LET known == r.active[e.pid] # NotActive
      expected == IF known THEN r.active[e.pid].ordinal ELSE r.latest[e.pid] + 1
      untrusted == IF known THEN r.active[e.pid].untrusted ELSE r.hasInitial
  IN [r EXCEPT
        !.ok = @ /\ e.taskGeneration = expected /\ (untrusted => e.uncertain),
        !.hasInitial = TRUE,
        !.identityUncertain = @ \/ untrusted,
        !.latest[e.pid] = e.taskGeneration,
        !.active[e.pid] = IF e.kind = "exit" THEN NotActive
                          ELSE [ordinal |-> e.taskGeneration, untrusted |-> untrusted],
        !.missing = IF e.kind = "exit" THEN @ \ {<<e.pid, e.taskGeneration>>}
                    ELSE @ \cup {<<e.pid, e.taskGeneration>>}]

(* A child always is the next lifetime of its PID. *)
ReadChild(r, e) ==
  LET collision == r.active[e.childPid] # NotActive
  IN [r EXCEPT
        !.ok = @ /\ e.childGeneration = r.latest[e.childPid] + 1 /\ (collision => e.uncertain),
        !.identityUncertain = @ \/ collision,
        !.latest[e.childPid] = e.childGeneration,
        !.active[e.childPid] = [ordinal |-> e.childGeneration, untrusted |-> collision],
        !.missing = @ \cup {<<e.childPid, e.childGeneration>>}]

(* Once an event is refused nothing more is read. *)
ReadEvent(r, e) ==
  LET acted == ReadActor(r, e)
  IN IF ~r.ok THEN r
     ELSE IF e.childPid = NoPid \/ ~acted.ok THEN acted ELSE ReadChild(acted, e)

Replay(saved) ==
  LET order == Ordered(saved)
      read[n \in 0 .. Len(saved)] ==
        IF n = 0 THEN Unread ELSE ReadEvent(read[n - 1], saved[order[n]])
  IN read[Len(saved)]

(* The first of some rows in evidence order, 0 if there is none. *)
FirstOf(saved, rows) ==
  LET order == Ordered(saved)
      places == {n \in DOMAIN saved : order[n] \in rows}
  IN IF places = {} THEN 0 ELSE order[CHOOSE n \in places : \A m \in places : n <= m]

FirstExec(saved) == FirstOf(saved, {i \in DOMAIN saved : saved[i].kind = "exec"})
ExitOf(saved, pid, generation) ==
  FirstOf(saved, {i \in DOMAIN saved : /\ saved[i].kind = "exit" /\ saved[i].pid = pid
                                       /\ saved[i].taskGeneration = generation})

(* validate_target_provenance_envelope; `lines` is metadata.raw_lines *)
EnvelopeValid(provenance, count, lines) ==
  /\ provenance.root[2] # 0
  /\ \A r \in {provenance.exec, provenance.exit} :
       r.index \in 1 .. count /\ 0 < r.line /\ r.line <= r.end /\ r.end <= lines
  /\ provenance.exec.index # provenance.exit.index
  /\ Precedes(<<provenance.exec.line, provenance.exec.end, provenance.exec.index>>,
              <<provenance.exit.line, provenance.exit.end, provenance.exit.index>>)

(* A reference names an event of the root lifetime at its own coordinates. *)
Refers(saved, provenance, r) ==
  /\ saved[r.index].line = r.line /\ saved[r.index].end = r.end
  /\ <<saved[r.index].pid, saved[r.index].taskGeneration>> = provenance.root

ProvenanceValid(saved, provenance) ==
  LET exec == FirstExec(saved)
  IN IF provenance = NoProvenance
     THEN exec # 0 => ExitOf(saved, saved[exec].pid, saved[exec].taskGeneration) = 0
     ELSE /\ EnvelopeValid(provenance, Len(saved), line)
          /\ Refers(saved, provenance, provenance.exec)
          /\ Refers(saved, provenance, provenance.exit)
          /\ exec = provenance.exec.index
          /\ ExitOf(saved, provenance.root[1], provenance.root[2]) = provenance.exit.index

(* Variant: a missing exit needs no admission in the metadata. *)
ValidateIdentityOnly(metadata, saved) ==
  LET r == Replay(saved)
  IN /\ r.ok
     /\ r.identityUncertain => metadata.warned /\ ~metadata.complete
     /\ ProvenanceValid(saved, metadata.provenance)

ValidateTraceProvenance(metadata, saved) ==
  LET r == Replay(saved)
  IN /\ r.ok
     /\ r.missing # {} \/ r.identityUncertain => metadata.warned /\ ~metadata.complete
     /\ ProvenanceValid(saved, metadata.provenance)

(***************************************************************************)
(* Properties                                                              *)
(***************************************************************************)

(* Whatever the trace was (PIDs reused, lines missing, spawns overlapping) *)
(* the record that the writer derives from its timeline is accepted by the *)
(* reader's own replay: no recorded run is later refused as corrupt.       *)
WrittenIsAccepted == Finished => ValidateTraceProvenance(SavedMetadata, SavedEvents)

(* One altered annotation: another ordinal for an actor or a child, or a   *)
(* lost mark.                                                              *)
AlteredEvents ==
  UNION {
    LET e == SavedEvents[i]
        Ordinals == 0 .. Len(events) + 1
    IN {[SavedEvents EXCEPT ![i].taskGeneration = n] : n \in Ordinals \ {e.taskGeneration}}
       \cup (IF e.childPid = NoPid THEN {}
             ELSE {[SavedEvents EXCEPT ![i].childGeneration = n] : n \in Ordinals \ {e.childGeneration}})
       \cup (IF e.uncertain THEN {[SavedEvents EXCEPT ![i].uncertain = FALSE]} ELSE {})
    : i \in DOMAIN events}

(* One altered claim: complete or unexplained in spite of a finding,       *)
(* another root exec, exit or lifetime, or no references at all.           *)
AlteredMetadata ==
  LET p == Provenance
      Others(r) == {Reference(i) : i \in DOMAIN events} \ {r}
  IN (IF SavedMetadata.complete THEN {}
      ELSE {[SavedMetadata EXCEPT !.complete = TRUE], [SavedMetadata EXCEPT !.warned = FALSE]})
     \cup (IF p = NoProvenance
           THEN {[SavedMetadata EXCEPT !.provenance = [root |-> TaskGeneration(i), exec |-> Reference(i),
                                                        exit |-> Reference(j)]] :
                   i, j \in DOMAIN events}
           ELSE {[SavedMetadata EXCEPT !.provenance = NoProvenance]}
                \cup {[SavedMetadata EXCEPT !.provenance.exec = r] : r \in Others(p.exec)}
                \cup {[SavedMetadata EXCEPT !.provenance.exit = r] : r \in Others(p.exit)}
                \cup {[SavedMetadata EXCEPT !.provenance.root = TaskGeneration(i)] :
                        i \in {j \in DOMAIN events : TaskGeneration(j) # p.root}})

(* The annotations cannot drift: the reader refuses every record in which  *)
(* one stored lifetime, mark, admission or target reference was changed.   *)
AlterationIsRefused ==
  Finished =>
    /\ \A saved \in AlteredEvents : ~ValidateTraceProvenance(SavedMetadata, saved)
    /\ \A metadata \in AlteredMetadata : ~ValidateTraceProvenance(metadata, SavedEvents)
==============================================================================

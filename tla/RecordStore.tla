----------------------------- MODULE RecordStore ------------------------------
(***************************************************************************)
(* The record namespace and its deletion protocol, from src/store/mod.rs   *)
(* (lock, check_name_available, begin_run, resolve, identities, delete)    *)
(* and src/store/deletion.rs (isolate_record, purge_slot, finish_slot,     *)
(* purge, restore).                                                        *)
(*                                                                         *)
(* Several rundelta processes run commands against one storage root.  Each *)
(* file-system change is a step of its own.  A process may stop after any  *)
(* step, because a system call failed or because it was killed; its lock   *)
(* is then released and what it left behind stays.                         *)
(***************************************************************************)
EXTENDS Naturals, FiniteSets

CONSTANTS
  Procs,      \* rundelta processes
  Records,    \* record directories (inodes)
  Ids,        \* generated record IDs; time and PID do not prove uniqueness
  Labels,     \* user labels; a label may be spelled like an ID
  Tickets,    \* deletion tickets
  Unknown,    \* a label that metadata.json does not (yet) supply
  None        \* no process, record, ticket or receipt

ASSUME UnknownAssumption == Unknown \notin Labels \cup Ids
ASSUME NoneAssumption == None \notin Procs \cup Records \cup Tickets

VARIABLES
  lock,       \* holder of .record.lock
  pc, job,    \* each process's next step and what it works on
  created,    \* directories ever made under runs/
  active,     \* directories now under runs/
  id, label,  \* each record's directory name and the label in its metadata
  evidence,   \* its saved bytes: "whole", "partial" or "none"
  slots,      \* ticket directories that exist under deleted/
  receipt,    \* receipt.json of a slot: None, "partial" or the record it names
  intent,     \* purge-started of a slot: "none", "damaged", "written", "synced"
  held,       \* the record directory inside a slot
  receiptLabel, \* the label copied into the receipt
  \* history
  intended    \* records whose purge intent was completely written

procVars == <<lock, pc, job>>
runVars  == <<created, active, id, label, evidence>>
slotVars == <<slots, receipt, intent, held, receiptLabel>>
vars == <<procVars, runVars, slotVars, intended>>

NoJob == [record |-> None, label |-> Unknown, ticket |-> None]

Init ==
  /\ lock = None
  /\ pc = [p \in Procs |-> "idle"] /\ job = [p \in Procs |-> NoJob]
  /\ created = {} /\ active = {}
  /\ id \in [Records -> Ids]
  /\ label = [r \in Records |-> Unknown]
  /\ evidence = [r \in Records |-> "none"]
  /\ slots = {} /\ receipt = [t \in Tickets |-> None]
  /\ intent = [t \in Tickets |-> "none"] /\ held = [t \in Tickets |-> None]
  /\ receiptLabel = [t \in Tickets |-> Unknown]
  /\ intended = {}

-----------------------------------------------------------------------------
(* identities and reject_name_collision: labels and IDs share one namespace. *)
NamesOf(r) == {id[r], label[r]} \ {Unknown}
Taken == UNION {NamesOf(r) : r \in active}

(* resolve: exactly one entry whose ID or label is the key. *)
Matches(key) == {r \in active : key \in NamesOf(r)}

Acquire(p) == lock = None /\ lock' = p
Go(p, step) == pc' = [pc EXCEPT ![p] = step]
Step(p, from, to) == pc[p] = from /\ Go(p, to)
Holding(p, from, to) == lock = p /\ Step(p, from, to) /\ UNCHANGED <<lock, job>>
Release(p, from) ==
  /\ lock = p /\ pc[p] = from
  /\ lock' = None /\ Go(p, "idle") /\ job' = [job EXCEPT ![p] = NoJob]

(* Any step may fail, and the process may die before any: nothing is undone. *)
Stop(p) ==
  /\ pc[p] # "idle"
  /\ Go(p, "idle")
  /\ job' = [job EXCEPT ![p] = NoJob]
  /\ lock' = IF lock = p THEN None ELSE lock
  /\ UNCHANGED <<runVars, slotVars, intended>>

-----------------------------------------------------------------------------
(* record *)

(* check_name_available takes the lock only for this check; the backend probe
   that follows runs without it. *)
CheckName(p) ==
  /\ pc[p] = "idle" /\ lock = None
  /\ \E name \in Labels :
       /\ name \notin Taken
       /\ job' = [job EXCEPT ![p] = [NoJob EXCEPT !.label = name]]
  /\ Go(p, "probed")
  /\ UNCHANGED <<lock, runVars, slotVars, intended>>

(* Variant: the check made before the probe is trusted. *)
BeginRunUnchecked(p) ==
  /\ Step(p, "probed", "begun")
  /\ Acquire(p)
  /\ \E r \in Records \ created :
       /\ id[r] \notin Taken
       /\ created' = created \cup {r} /\ active' = active \cup {r}
       /\ evidence' = [evidence EXCEPT ![r] = "whole"]
       /\ job' = [job EXCEPT ![p].record = r]
  /\ UNCHANGED <<id, label, slotVars, intended>>

(* begin_run rechecks under the lock it then keeps, and creates the directory. *)
BeginRun(p) ==
  /\ Step(p, "probed", "begun")
  /\ Acquire(p)
  /\ job[p].label \notin Taken
  /\ \E r \in Records \ created :
       /\ id[r] \notin Taken
       /\ created' = created \cup {r} /\ active' = active \cup {r}
       /\ evidence' = [evidence EXCEPT ![r] = "whole"]
       /\ job' = [job EXCEPT ![p].record = r]
  /\ UNCHANGED <<id, label, slotVars, intended>>

(* write_metadata makes the label visible to later scans. *)
WriteMetadata(p) ==
  /\ Holding(p, "begun", "recording")
  /\ label' = [label EXCEPT ![job[p].record] = job[p].label]
  /\ UNCHANGED <<created, active, id, evidence, slotVars, intended>>

(* finish (RecordCommit) ends the writer, whose lock goes with it. *)
FinishRun(p) ==
  /\ Release(p, "recording")
  /\ UNCHANGED <<runVars, slotVars, intended>>

-----------------------------------------------------------------------------
(* delete: isolate_record, then purge_slot *)

Delete(p) ==
  /\ Step(p, "idle", "slot")
  /\ Acquire(p)
  /\ \E key \in Labels \cup Ids : \E r \in active :
       /\ Matches(key) = {r}
       /\ job' = [job EXCEPT ![p].record = r]
  /\ UNCHANGED <<runVars, slotVars, intended>>

(* Variant: the record is moved before its receipt exists. *)
MakeSlotWithoutReceipt(p) ==
  /\ lock = p /\ Step(p, "slot", "move")
  /\ \E t \in Tickets \ slots :
       /\ slots' = slots \cup {t}
       /\ job' = [job EXCEPT ![p].ticket = t]
  /\ UNCHANGED <<lock, runVars, receipt, intent, held, receiptLabel, intended>>

(* The ticket directory is created exclusively. *)
MakeSlot(p) ==
  /\ lock = p /\ Step(p, "slot", "receipt")
  /\ \E t \in Tickets \ slots :
       /\ slots' = slots \cup {t}
       /\ job' = [job EXCEPT ![p].ticket = t]
  /\ UNCHANGED <<lock, runVars, receipt, intent, held, receiptLabel, intended>>

(* write_new of receipt.json; a failed write may leave a partial file. *)
WriteReceipt(p) ==
  LET t == job[p].ticket IN
  /\ lock = p /\ pc[p] = "receipt"
  /\ \/ /\ receipt' = [receipt EXCEPT ![t] = job[p].record]
        /\ receiptLabel' = [receiptLabel EXCEPT ![t] = label[job[p].record]]
        /\ Go(p, "move") /\ UNCHANGED <<lock, job>>
     \/ /\ receipt' = [receipt EXCEPT ![t] = "partial"]
        /\ Release(p, "receipt") /\ UNCHANGED receiptLabel
  /\ UNCHANGED <<runVars, slots, intent, held, intended>>

(* move_exclusive out of runs/: the logical commit of the deletion. *)
Isolate(p) ==
  LET t == job[p].ticket IN
  /\ Holding(p, "move", "preflight")
  /\ active' = active \ {job[p].record}
  /\ held' = [held EXCEPT ![t] = job[p].record]
  /\ UNCHANGED <<created, id, label, evidence, slots, receipt, intent, receiptLabel, intended>>

-----------------------------------------------------------------------------
(* purge_slot and finish_slot *)

(* selected_slot: a ticket whose receipt decodes and names this slot.  record()
   also insists that a held directory is the inode of the receipt. *)
Selectable(t) ==
  /\ t \in slots
  /\ receipt[t] \in Records
  /\ held[t] \in {None, receipt[t]}

Purge(p) ==
  /\ pc[p] = "idle" /\ Acquire(p)
  /\ \E t \in Tickets :
       /\ Selectable(t)
       /\ Go(p, IF held[t] = None THEN "unintend" ELSE "preflight")
       /\ job' = [job EXCEPT ![p].ticket = t]
  /\ UNCHANGED <<runVars, slotVars, intended>>

(* mark_purge: write the intent if absent, refuse a damaged one. *)
WriteIntent(p) ==
  LET t == job[p].ticket IN
  /\ lock = p /\ pc[p] = "preflight"
  /\ intent[t] # "damaged"
  /\ IF intent[t] = "none"
       THEN \/ /\ intent' = [intent EXCEPT ![t] = "written"]
               /\ intended' = intended \cup {held[t]}
               /\ Go(p, "sync") /\ UNCHANGED <<lock, job>>
            \/ /\ intent' = [intent EXCEPT ![t] = "damaged"]
               /\ Release(p, "preflight") /\ UNCHANGED intended
       ELSE Go(p, "sync") /\ UNCHANGED <<intent, intended, lock, job>>
  /\ UNCHANGED <<runVars, slots, receipt, held, receiptLabel>>

SyncIntent(p) ==
  /\ Holding(p, "sync", "remove")
  /\ intent' = [intent EXCEPT ![job[p].ticket] = "synced"]
  /\ UNCHANGED <<runVars, slots, receipt, held, receiptLabel, intended>>

(* walk_delete_tree(Remove): one unlink after the other. *)
RemoveSome(p) ==
  LET r == held[job[p].ticket] IN
  /\ Holding(p, "remove", "remove")
  /\ evidence[r] # "none"
  /\ evidence' = [evidence EXCEPT ![r] = IF @ = "whole" THEN "partial" ELSE "none"]
  /\ UNCHANGED <<created, active, id, label, slotVars, intended>>

UnlinkRecord(p) ==
  LET t == job[p].ticket IN
  /\ Holding(p, "remove", "unintend")
  /\ evidence[held[t]] = "none"
  /\ held' = [held EXCEPT ![t] = None]
  /\ UNCHANGED <<runVars, slots, receipt, intent, receiptLabel, intended>>

(* finish_slot: the intent goes first, then the receipt, then the directory. *)
UnlinkIntent(p) ==
  LET t == job[p].ticket IN
  /\ Holding(p, "unintend", "unreceipt")
  /\ held[t] = None
  /\ intent' = [intent EXCEPT ![t] = "none"]
  /\ UNCHANGED <<runVars, slots, receipt, held, receiptLabel, intended>>

UnlinkReceipt(p) ==
  LET t == job[p].ticket IN
  /\ Holding(p, "unreceipt", "unslot")
  /\ receipt' = [receipt EXCEPT ![t] = None]
  /\ receiptLabel' = [receiptLabel EXCEPT ![t] = Unknown]
  /\ UNCHANGED <<runVars, slots, intent, held, intended>>

RemoveSlot(p) ==
  /\ Release(p, "unslot")
  /\ slots' = slots \ {job[p].ticket}
  /\ UNCHANGED <<runVars, receipt, intent, held, receiptLabel, intended>>

-----------------------------------------------------------------------------
(* restore *)

(* Variant: purge-started is not consulted. *)
RestoreIgnoringIntent(p) ==
  /\ Step(p, "idle", "return")
  /\ Acquire(p)
  /\ \E t \in Tickets :
       /\ Selectable(t)
       /\ held[t] # None
       /\ id[receipt[t]] \notin Taken
       /\ receiptLabel[t] \notin Taken
       /\ job' = [job EXCEPT ![p].ticket = t]
  /\ UNCHANGED <<runVars, slotVars, intended>>

Restore(p) ==
  /\ Step(p, "idle", "return")
  /\ Acquire(p)
  /\ \E t \in Tickets :
       /\ Selectable(t)
       /\ intent[t] = "none"
       /\ held[t] # None
       /\ id[receipt[t]] \notin Taken
       /\ receiptLabel[t] \notin Taken
       /\ job' = [job EXCEPT ![p].ticket = t]
  /\ UNCHANGED <<runVars, slotVars, intended>>

(* move_exclusive back into runs/; bookkeeping is removed afterwards. *)
MoveBack(p) ==
  LET t == job[p].ticket IN
  /\ Holding(p, "return", "unintend")
  /\ \A r \in active : id[r] # id[held[t]]
  /\ active' = active \cup {held[t]}
  /\ held' = [held EXCEPT ![t] = None]
  /\ UNCHANGED <<created, id, label, evidence, slots, receipt, intent, receiptLabel, intended>>

-----------------------------------------------------------------------------
RecordCommand(p) == CheckName(p) \/ BeginRun(p) \/ WriteMetadata(p) \/ FinishRun(p)
IsolateSteps(p)  == Delete(p) \/ MakeSlot(p) \/ WriteReceipt(p) \/ Isolate(p)
PurgeSteps(p)    ==
  \/ Purge(p) \/ WriteIntent(p) \/ SyncIntent(p) \/ RemoveSome(p) \/ UnlinkRecord(p)
  \/ UnlinkIntent(p) \/ UnlinkReceipt(p) \/ RemoveSlot(p)
RestoreSteps(p)  == Restore(p) \/ MoveBack(p)

Next ==
  \E p \in Procs :
    RecordCommand(p) \/ IsolateSteps(p) \/ PurgeSteps(p) \/ RestoreSteps(p) \/ Stop(p)

Spec == Init /\ [][Next]_vars

-----------------------------------------------------------------------------
(* Properties *)

(* No two active records answer to the same exact name, be it an ID or a label:
   the name check repeated by begin_run, and the ones of restore, keep every
   record selectable by "expected one safe ID/label match". *)
NamesUnique == \A r, s \in active : r # s => NamesOf(r) \cap NamesOf(s) = {}

(* Every isolated record stays enumerable: its ticket exists, in one slot only,
   with a receipt that names it. *)
IsolatedIsListed ==
  \A t \in Tickets : held[t] # None =>
    /\ t \in slots /\ receipt[t] = held[t]
    /\ held[t] \notin active
    /\ \A u \in Tickets \ {t} : held[u] # held[t]

(* The phase of a record's life that the directory tree and the purge intents show. *)
Phase(r) ==
  CASE r \in active -> "active"
    [] r \notin active /\ r \in intended -> "purging"
    [] r \notin active \cup intended /\ (\E t \in Tickets : held[t] = r) -> "isolated"
    [] OTHER -> "absent"

(* Every command of every process, stopped anywhere and continued by others, is
   a step in the life RecordLifecycle allows: no byte is lost without an announced
   purge, no half-deleted record is active, no purged record comes back. *)
Life == INSTANCE RecordLifecycle WITH phase <- [r \in Records |-> Phase(r)], bytes <- evidence
KeepsLifecycle == Life!Spec

=============================================================================

-------------------------- MODULE RecordStoreProofs ---------------------------
(***************************************************************************)
(* Proofs about RecordStore, for any number of processes, records, IDs,    *)
(* labels and tickets, with processes stopping anywhere.                   *)
(*                                                                         *)
(* The inductive invariant relates the lock to control points (LockHeld),  *)
(* what every ticket directory shows to what happened to its record        *)
(* (Slot), and states what the one process that holds the lock has already *)
(* established at each step (Working).                                     *)
(***************************************************************************)
EXTENDS RecordStore, TLAPS

LockedPcs == {"begun", "recording", "slot", "receipt", "move", "preflight", "sync", "remove",
              "unintend", "unreceipt", "unslot", "return"}

(* Type correctness of the processes, the records and the ticket directories. *)
StoreTypeOK ==
  /\ lock \in Procs \cup {None}
  /\ pc \in [Procs -> LockedPcs \cup {"idle", "probed"}]
  /\ job \in [Procs -> [record : Records \cup {None}, label : Labels \cup {Unknown},
                        ticket : Tickets \cup {None}]]
  /\ created \in SUBSET Records /\ active \in SUBSET Records /\ intended \in SUBSET Records
  /\ id \in [Records -> Ids] /\ label \in [Records -> Labels \cup {Unknown}]
  /\ evidence \in [Records -> {"whole", "partial", "none"}]
  /\ slots \in SUBSET Tickets
  /\ receipt \in [Tickets -> Records \cup {None, "partial"}]
  /\ intent \in [Tickets -> {"none", "damaged", "written", "synced"}]
  /\ held \in [Tickets -> Records \cup {None}]
  /\ receiptLabel \in [Tickets -> Labels \cup {Unknown}]

(* A process is inside a locked section exactly while it holds .record.lock. *)
LockHeld == \A p \in Procs : lock = p <=> pc[p] \in LockedPcs

(* What a ticket directory holds was made once, is active nowhere and is held by
   no other; its receipt describes it; its intent says whether it may be unlinked. *)
Slot(t) ==
  /\ t \notin slots => held[t] = None /\ intent[t] = "none"
  /\ held[t] # None =>
       /\ t \in slots /\ receipt[t] = held[t] /\ receiptLabel[t] = label[held[t]]
       /\ held[t] \in created \ active
       /\ held[t] \in intended <=> intent[t] \in {"written", "synced"}
       /\ \A u \in Tickets \ {t} : held[u] # held[t]

(* Only made records are active, no active one may be unlinked, and a directory
   not made yet has no label. *)
Lives ==
  /\ active \subseteq created /\ intended \subseteq created \ active
  /\ \A r \in Records \ created : label[r] = Unknown

Free(name, records) == \A s \in records : name \notin NamesOf(s)

(* What the process at each control point has established. *)
Working(p) ==
  LET t == job[p].ticket
      r == job[p].record
  IN /\ pc[p] \in {"probed", "begun"} => job[p].label \in Labels
     /\ pc[p] = "begun" => r \in active /\ Free(job[p].label, active \ {r})
     /\ pc[p] \in {"slot", "receipt", "move"} => r \in active
     /\ pc[p] \in {"receipt", "move"} => t \in slots /\ held[t] = None /\ intent[t] = "none"
     /\ pc[p] = "move" => receipt[t] = r /\ receiptLabel[t] = label[r]
     /\ pc[p] \in {"preflight", "sync", "remove", "return"} => t \in slots /\ held[t] # None
     /\ pc[p] \in {"sync", "remove"} => intent[t] \in {"written", "synced"}
     /\ pc[p] \in {"unintend", "unreceipt", "unslot"} => t \in slots /\ held[t] = None
     /\ pc[p] \in {"unreceipt", "unslot"} => intent[t] = "none"
     /\ pc[p] = "return" => /\ intent[t] = "none"
                            /\ Free(id[held[t]], active) /\ Free(label[held[t]], active)

StoreInv ==
  /\ StoreTypeOK /\ LockHeld /\ Lives /\ NamesUnique
  /\ \A t \in Tickets : Slot(t)
  /\ \A p \in Procs : Working(p)

USE UnknownAssumption, NoneAssumption DEF procVars, runVars, slotVars

-----------------------------------------------------------------------------
(* A process outside every locked section keeps what it knows, whatever the one
   inside does. *)
LEMMA OthersWait ==
  ASSUME StoreInv, NEW p \in Procs, lock \in {None, p},
         NEW q \in Procs, q # p, pc'[q] = pc[q], job'[q] = job[q]
  PROVE  Working(q)' /\ pc[q] \notin LockedPcs
<1>1. pc[q] \in {"idle", "probed"} /\ pc[q] \notin LockedPcs
  BY DEF StoreInv, StoreTypeOK, LockHeld, LockedPcs
<1> QED
  BY <1>1 DEF StoreInv, Working

(* Names depend on the records under runs/ and their labels alone. *)
LEMMA NamesAlone ==
  ASSUME StoreInv, UNCHANGED <<created, active, id, label, intended>>
  PROVE  Lives' /\ NamesUnique'
BY DEF StoreInv, Lives, NamesUnique, NamesOf

(* A step that changes one ticket directory leaves the others as they are. *)
LEMMA OtherSlots ==
  ASSUME StoreInv, NEW t \in Tickets, UNCHANGED <<created, active, label, intended>>,
         \A u \in Tickets \ {t} :
           /\ u \in slots' <=> u \in slots
           /\ held'[u] = held[u] /\ intent'[u] = intent[u]
           /\ receipt'[u] = receipt[u] /\ receiptLabel'[u] = receiptLabel[u],
         held'[t] \in {None, held[t]}
  PROVE  \A u \in Tickets \ {t} : Slot(u)'
<1> TAKE u \in Tickets \ {t}
<1>1. Slot(u)
  BY DEF StoreInv
<1>2. ASSUME held[u] # None, NEW v \in Tickets \ {u} PROVE held'[v] # held[u]
  BY <1>1, <1>2 DEF Slot
<1> QED
  BY <1>1, <1>2 DEF Slot

(* The store starts empty. *)
LEMMA StoreInvInit == Init => StoreInv
<1> SUFFICES ASSUME Init PROVE StoreInv
  OBVIOUS
<1>1. StoreTypeOK
  BY DEF Init, StoreTypeOK, NoJob
<1>2. LockHeld /\ Lives /\ NamesUnique
  BY DEF Init, LockHeld, LockedPcs, Lives, NamesUnique
<1>3. \A t \in Tickets : Slot(t)
  BY DEF Init, Slot
<1>4. \A p \in Procs : Working(p)
  BY DEF Init, Working
<1> QED
  BY <1>1, <1>2, <1>3, <1>4 DEF StoreInv

-----------------------------------------------------------------------------
(* record *)

(* A process that stops drops its lock and leaves everything else. *)
LEMMA StopKeeps == ASSUME StoreInv, NEW p \in Procs, Stop(p) PROVE StoreInv'
<1> USE DEF Stop, Go
<1>1. StoreTypeOK'
  BY DEF StoreInv, StoreTypeOK, NoJob
<1>2. LockHeld'
  BY DEF StoreInv, StoreTypeOK, LockHeld, LockedPcs
<1>3. Lives' /\ NamesUnique' /\ \A t \in Tickets : Slot(t)'
  BY DEF StoreInv, Lives, NamesUnique, NamesOf, Slot
<1>4. \A q \in Procs : Working(q)'
  BY DEF StoreInv, StoreTypeOK, Working, Free, NamesOf
<1> QED
  BY <1>1, <1>2, <1>3, <1>4 DEF StoreInv

(* The early name check changes nothing but the process. *)
LEMMA CheckNameKeeps == ASSUME StoreInv, NEW p \in Procs, CheckName(p) PROVE StoreInv'
<1> USE DEF CheckName, Go
<1>1. StoreTypeOK'
  BY DEF StoreInv, StoreTypeOK, NoJob
<1>2. LockHeld'
  BY DEF StoreInv, StoreTypeOK, LockHeld, LockedPcs
<1>3. Lives' /\ NamesUnique' /\ \A t \in Tickets : Slot(t)'
  BY DEF StoreInv, Lives, NamesUnique, NamesOf, Slot
<1>4. \A q \in Procs \ {p} : Working(q)'
  BY OthersWait DEF StoreInv, StoreTypeOK
<1>5. Working(p)'
  BY DEF StoreInv, StoreTypeOK, Working, NoJob
<1> QED
  BY <1>1, <1>2, <1>3, <1>4, <1>5 DEF StoreInv

(* begin_run makes a directory whose ID, and later label, nobody has. *)
LEMMA BeginRunKeeps == ASSUME StoreInv, NEW p \in Procs, BeginRun(p) PROVE StoreInv'
<1> USE DEF BeginRun, Acquire, Step, Go
<1>1. PICK r \in Records \ created :
        /\ id[r] \notin Taken
        /\ created' = created \cup {r} /\ active' = active \cup {r}
        /\ evidence' = [evidence EXCEPT ![r] = "whole"]
        /\ job' = [job EXCEPT ![p].record = r]
  OBVIOUS
<1>2. StoreTypeOK'
  BY <1>1 DEF StoreInv, StoreTypeOK, LockedPcs
<1>3. LockHeld'
  BY DEF StoreInv, StoreTypeOK, LockHeld, LockedPcs
<1>4. /\ Free(id[r], active) /\ Free(job[p].label, active)
      /\ job[p].label \in Labels
  BY <1>1 DEF StoreInv, Working, Free, Taken
<1>5. Lives' /\ NamesOf(r) = {id[r]}
  BY <1>1 DEF StoreInv, StoreTypeOK, Lives, NamesOf
<1>6. NamesUnique'
  BY <1>1, <1>4, <1>5 DEF StoreInv, NamesUnique, NamesOf, Free
<1>7. \A t \in Tickets : Slot(t)'
  BY <1>1 DEF StoreInv, Slot
<1>8. \A q \in Procs \ {p} : Working(q)'
  BY <1>1, OthersWait DEF StoreInv, StoreTypeOK
<1>9. Working(p)'
  BY <1>1, <1>4 DEF StoreInv, StoreTypeOK, Working, Free, NamesOf
<1> QED
  BY <1>2, <1>3, <1>5, <1>6, <1>7, <1>8, <1>9 DEF StoreInv

(* write_metadata gives the new record the name its process found free. *)
LEMMA WriteMetadataKeeps == ASSUME StoreInv, NEW p \in Procs, WriteMetadata(p) PROVE StoreInv'
<1> USE DEF WriteMetadata, Holding, Step, Go
<1> DEFINE r == job[p].record
<1>1. r \in active /\ r \in Records /\ Free(job[p].label, active \ {r}) /\ job[p].label \in Labels
  BY DEF StoreInv, StoreTypeOK, Working
<1>2. StoreTypeOK'
  BY <1>1 DEF StoreInv, StoreTypeOK, LockedPcs
<1>3. LockHeld'
  BY DEF StoreInv, StoreTypeOK, LockHeld, LockedPcs
<1>4. Lives'
  BY <1>1 DEF StoreInv, StoreTypeOK, Lives
<1>5. \A s \in active \ {r} : NamesOf(s)' = NamesOf(s)
  BY <1>1 DEF StoreInv, StoreTypeOK, NamesOf
<1>6. NamesOf(r)' \subseteq NamesOf(r) \cup {job[p].label}
  BY <1>1 DEF StoreInv, StoreTypeOK, NamesOf
<1>7. NamesUnique'
  BY <1>1, <1>5, <1>6 DEF StoreInv, NamesUnique, Free
<1>8. \A t \in Tickets : Slot(t)'
  BY <1>1 DEF StoreInv, StoreTypeOK, Slot
<1>9. \A q \in Procs \ {p} : Working(q)'
  BY OthersWait DEF StoreInv, StoreTypeOK
<1>10. Working(p)'
  BY DEF StoreInv, StoreTypeOK, Working
<1> QED
  BY <1>2, <1>3, <1>4, <1>7, <1>8, <1>9, <1>10 DEF StoreInv

(* The writer's end only releases its lock. *)
LEMMA FinishRunKeeps == ASSUME StoreInv, NEW p \in Procs, FinishRun(p) PROVE StoreInv'
<1> USE DEF FinishRun, Release, Go
<1>1. StoreTypeOK'
  BY DEF StoreInv, StoreTypeOK, NoJob
<1>2. LockHeld'
  BY DEF StoreInv, StoreTypeOK, LockHeld, LockedPcs
<1>3. Lives' /\ NamesUnique' /\ \A t \in Tickets : Slot(t)'
  BY DEF StoreInv, Lives, NamesUnique, NamesOf, Slot
<1>4. \A q \in Procs \ {p} : Working(q)'
  BY OthersWait DEF StoreInv, StoreTypeOK
<1>5. Working(p)'
  BY DEF StoreInv, StoreTypeOK, Working
<1> QED
  BY <1>1, <1>2, <1>3, <1>4, <1>5 DEF StoreInv

-----------------------------------------------------------------------------
(* delete, up to the move out of runs/ *)

(* resolve selects an active record under the lock. *)
LEMMA DeleteKeeps == ASSUME StoreInv, NEW p \in Procs, Delete(p) PROVE StoreInv'
<1> USE DEF Delete, Acquire, Step, Go
<1>1. PICK r \in active : job' = [job EXCEPT ![p].record = r]
  OBVIOUS
<1>2. StoreTypeOK'
  BY <1>1 DEF StoreInv, StoreTypeOK, LockedPcs
<1>3. LockHeld'
  BY DEF StoreInv, StoreTypeOK, LockHeld, LockedPcs
<1>4. Lives' /\ NamesUnique' /\ \A t \in Tickets : Slot(t)'
  BY DEF StoreInv, Lives, NamesUnique, NamesOf, Slot
<1>5. \A q \in Procs \ {p} : Working(q)'
  BY <1>1, OthersWait DEF StoreInv, StoreTypeOK
<1>6. Working(p)'
  BY <1>1 DEF StoreInv, StoreTypeOK, Working
<1> QED
  BY <1>2, <1>3, <1>4, <1>5, <1>6 DEF StoreInv

(* A fresh ticket directory holds nothing and promises nothing. *)
LEMMA MakeSlotKeeps == ASSUME StoreInv, NEW p \in Procs, MakeSlot(p) PROVE StoreInv'
<1> USE DEF MakeSlot, Step, Go
<1>1. PICK t \in Tickets \ slots : slots' = slots \cup {t} /\ job' = [job EXCEPT ![p].ticket = t]
  OBVIOUS
<1>2. StoreTypeOK'
  BY <1>1 DEF StoreInv, StoreTypeOK, LockedPcs
<1>3. LockHeld'
  BY DEF StoreInv, StoreTypeOK, LockHeld, LockedPcs
<1>4. Lives' /\ NamesUnique' /\ \A u \in Tickets : Slot(u)'
  BY <1>1 DEF StoreInv, Lives, NamesUnique, NamesOf, Slot
<1>5. \A q \in Procs \ {p} : Working(q)'
  BY <1>1, OthersWait DEF StoreInv, StoreTypeOK
<1>6. Working(p)'
  <2>1. held[t] = None /\ intent[t] = "none"
    BY <1>1 DEF StoreInv, Slot
  <2>2. job[p].record \in active
    BY DEF StoreInv, Working
  <2> QED
    BY <1>1, <2>1, <2>2 DEF StoreInv, StoreTypeOK, Working
<1> QED
  BY <1>2, <1>3, <1>4, <1>5, <1>6 DEF StoreInv

(* The receipt, whole or partial, is written before the slot holds anything. *)
LEMMA WriteReceiptKeeps == ASSUME StoreInv, NEW p \in Procs, WriteReceipt(p) PROVE StoreInv'
<1> DEFINE t == job[p].ticket
           r == job[p].record
<1>1. r \in active /\ r \in Records /\ t \in slots /\ t \in Tickets /\ held[t] = None /\ intent[t] = "none"
  BY DEF WriteReceipt, StoreInv, StoreTypeOK, Working
<1>2. lock = p /\ pc[p] = "receipt" /\ UNCHANGED <<runVars, slots, intent, held, intended>>
  BY DEF WriteReceipt
<1>3. CASE /\ receipt' = [receipt EXCEPT ![t] = r]
           /\ receiptLabel' = [receiptLabel EXCEPT ![t] = label[r]]
           /\ Go(p, "move") /\ UNCHANGED <<lock, job>>
  <2> USE <1>1, <1>2, <1>3 DEF Go
  <2>1. StoreTypeOK'
    BY DEF StoreInv, StoreTypeOK, LockedPcs
  <2>2. LockHeld'
    BY DEF StoreInv, StoreTypeOK, LockHeld, LockedPcs
  <2>3. Lives' /\ NamesUnique' /\ \A u \in Tickets : Slot(u)'
    <3>1. Lives' /\ NamesUnique'
      BY NamesAlone
    <3>2. \A u \in Tickets \ {t} : Slot(u)'
      BY OtherSlots DEF StoreInv, StoreTypeOK
    <3>3. Slot(t)'
      BY DEF StoreInv, StoreTypeOK, Slot
    <3> QED
      BY <3>1, <3>2, <3>3
  <2>4. \A q \in Procs \ {p} : Working(q)'
    BY OthersWait DEF StoreInv, StoreTypeOK
  <2>5. Working(p)'
    BY DEF StoreInv, StoreTypeOK, Working
  <2> QED
    BY <2>1, <2>2, <2>3, <2>4, <2>5 DEF StoreInv
<1>4. CASE /\ receipt' = [receipt EXCEPT ![t] = "partial"]
           /\ Release(p, "receipt") /\ UNCHANGED receiptLabel
  <2> USE <1>1, <1>2, <1>4 DEF Release, Go
  <2>1. StoreTypeOK'
    BY DEF StoreInv, StoreTypeOK, NoJob
  <2>2. LockHeld'
    BY DEF StoreInv, StoreTypeOK, LockHeld, LockedPcs
  <2>3. Lives' /\ NamesUnique' /\ \A u \in Tickets : Slot(u)'
    <3>1. Lives' /\ NamesUnique'
      BY NamesAlone
    <3>2. PICK u \in Tickets : u = t
      OBVIOUS
    <3>3. \A v \in Tickets \ {u} : Slot(v)'
      BY <3>2, OtherSlots DEF StoreInv, StoreTypeOK
    <3>4. Slot(u)'
      BY <3>2 DEF StoreInv, StoreTypeOK, Slot
    <3> QED
      BY <3>1, <3>3, <3>4
  <2>4. \A q \in Procs \ {p} : Working(q)'
    BY OthersWait DEF StoreInv, StoreTypeOK
  <2>5. Working(p)'
    BY DEF StoreInv, StoreTypeOK, Working
  <2> QED
    BY <2>1, <2>2, <2>3, <2>4, <2>5 DEF StoreInv
<1> QED
  BY <1>3, <1>4 DEF WriteReceipt

(* The move out of runs/ takes the record into the slot whose receipt names it. *)
LEMMA IsolateKeeps == ASSUME StoreInv, NEW p \in Procs, Isolate(p) PROVE StoreInv'
<1> DEFINE t == job[p].ticket
           r == job[p].record
<1> USE DEF Isolate, Holding, Step, Go
<1>1. /\ r \in active /\ r \in Records /\ t \in slots /\ t \in Tickets /\ held[t] = None
      /\ intent[t] = "none" /\ receipt[t] = r /\ receiptLabel[t] = label[r]
  BY DEF StoreInv, StoreTypeOK, Working
<1>2. StoreTypeOK'
  BY <1>1 DEF StoreInv, StoreTypeOK, LockedPcs
<1>3. LockHeld'
  BY DEF StoreInv, StoreTypeOK, LockHeld, LockedPcs
<1>4. Lives' /\ NamesUnique'
  BY <1>1 DEF StoreInv, StoreTypeOK, Lives, NamesUnique, NamesOf
<1>5. \A u \in Tickets : Slot(u)'
  BY <1>1 DEF StoreInv, StoreTypeOK, Lives, Slot
<1>6. \A q \in Procs \ {p} : Working(q)'
  BY OthersWait DEF StoreInv, StoreTypeOK
<1>7. Working(p)'
  BY <1>1 DEF StoreInv, StoreTypeOK, Working
<1> QED
  BY <1>2, <1>3, <1>4, <1>5, <1>6, <1>7 DEF StoreInv

-----------------------------------------------------------------------------
(* purge *)

(* A selected slot holds the record of its receipt, or nothing. *)
LEMMA PurgeKeeps == ASSUME StoreInv, NEW p \in Procs, Purge(p) PROVE StoreInv'
<1> USE DEF Purge, Acquire, Go
<1>1. PICK t \in Tickets :
        /\ Selectable(t)
        /\ pc' = [pc EXCEPT ![p] = IF held[t] = None THEN "unintend" ELSE "preflight"]
        /\ job' = [job EXCEPT ![p].ticket = t]
  OBVIOUS
<1>2. StoreTypeOK'
  BY <1>1 DEF StoreInv, StoreTypeOK, LockedPcs
<1>3. LockHeld'
  BY <1>1 DEF StoreInv, StoreTypeOK, LockHeld, LockedPcs
<1>4. Lives' /\ NamesUnique' /\ \A u \in Tickets : Slot(u)'
  BY DEF StoreInv, Lives, NamesUnique, NamesOf, Slot
<1>5. \A q \in Procs \ {p} : Working(q)'
  BY <1>1, OthersWait DEF StoreInv, StoreTypeOK
<1>6. Working(p)'
  BY <1>1 DEF StoreInv, StoreTypeOK, Working, Selectable
<1> QED
  BY <1>2, <1>3, <1>4, <1>5, <1>6 DEF StoreInv

(* mark_purge announces the purge, finds it announced, or leaves a damaged mark. *)
LEMMA WriteIntentKeeps == ASSUME StoreInv, NEW p \in Procs, WriteIntent(p) PROVE StoreInv'
<1> DEFINE t == job[p].ticket
<1>1. t \in slots /\ t \in Tickets /\ held[t] # None /\ held[t] \in Records /\ held[t] \in created \ active
  BY DEF WriteIntent, StoreInv, StoreTypeOK, Working, Slot
<1>2. /\ lock = p /\ pc[p] = "preflight" /\ intent[t] # "damaged"
      /\ UNCHANGED <<runVars, slots, receipt, held, receiptLabel>>
  BY DEF WriteIntent
<1>3. CASE /\ intent[t] = "none" /\ intent' = [intent EXCEPT ![t] = "written"]
           /\ intended' = intended \cup {held[t]}
           /\ Go(p, "sync") /\ UNCHANGED <<lock, job>>
  <2> USE <1>1, <1>2, <1>3 DEF Go
  <2>1. StoreTypeOK'
    BY DEF StoreInv, StoreTypeOK, LockedPcs
  <2>2. LockHeld'
    BY DEF StoreInv, StoreTypeOK, LockHeld, LockedPcs
  <2>3. Lives' /\ NamesUnique'
    BY DEF StoreInv, StoreTypeOK, Lives, NamesUnique, NamesOf
  <2>4. \A u \in Tickets : Slot(u)'
    BY DEF StoreInv, StoreTypeOK, Slot
  <2>5. \A q \in Procs \ {p} : Working(q)'
    BY OthersWait DEF StoreInv, StoreTypeOK
  <2>6. Working(p)'
    BY DEF StoreInv, StoreTypeOK, Working
  <2> QED
    BY <2>1, <2>2, <2>3, <2>4, <2>5, <2>6 DEF StoreInv
<1>4. CASE /\ intent[t] = "none" /\ intent' = [intent EXCEPT ![t] = "damaged"]
           /\ Release(p, "preflight") /\ UNCHANGED intended
  <2> USE <1>1, <1>2, <1>4 DEF Release, Go
  <2>1. StoreTypeOK'
    BY DEF StoreInv, StoreTypeOK, NoJob
  <2>2. LockHeld'
    BY DEF StoreInv, StoreTypeOK, LockHeld, LockedPcs
  <2>3. Lives' /\ NamesUnique'
    BY DEF StoreInv, StoreTypeOK, Lives, NamesUnique, NamesOf
  <2>4. \A u \in Tickets : Slot(u)'
    BY DEF StoreInv, StoreTypeOK, Slot
  <2>5. \A q \in Procs \ {p} : Working(q)'
    BY OthersWait DEF StoreInv, StoreTypeOK
  <2>6. Working(p)'
    BY DEF StoreInv, StoreTypeOK, Working
  <2> QED
    BY <2>1, <2>2, <2>3, <2>4, <2>5, <2>6 DEF StoreInv
<1>5. CASE intent[t] # "none" /\ Go(p, "sync") /\ UNCHANGED <<intent, intended, lock, job>>
  <2> USE <1>1, <1>2, <1>5 DEF Go
  <2>1. StoreTypeOK'
    BY DEF StoreInv, StoreTypeOK, LockedPcs
  <2>2. LockHeld'
    BY DEF StoreInv, StoreTypeOK, LockHeld, LockedPcs
  <2>3. Lives' /\ NamesUnique' /\ \A u \in Tickets : Slot(u)'
    <3>1. Lives' /\ NamesUnique'
      BY NamesAlone
    <3>2. \A u \in Tickets \ {t} : Slot(u)'
      BY OtherSlots DEF StoreInv, StoreTypeOK
    <3>3. Slot(t)'
      BY DEF StoreInv, StoreTypeOK, Slot
    <3> QED
      BY <3>1, <3>2, <3>3
  <2>4. \A q \in Procs \ {p} : Working(q)'
    BY OthersWait DEF StoreInv, StoreTypeOK
  <2>5. Working(p)'
    BY DEF StoreInv, StoreTypeOK, Working
  <2> QED
    BY <2>1, <2>2, <2>3, <2>4, <2>5 DEF StoreInv
<1> QED
  BY <1>3, <1>4, <1>5 DEF WriteIntent

(* Syncing the intent does not change what it says. *)
LEMMA SyncIntentKeeps == ASSUME StoreInv, NEW p \in Procs, SyncIntent(p) PROVE StoreInv'
<1> DEFINE t == job[p].ticket
<1> USE DEF SyncIntent, Holding, Step, Go
<1>1. t \in slots /\ t \in Tickets /\ held[t] # None /\ intent[t] \in {"written", "synced"}
  BY DEF StoreInv, StoreTypeOK, Working
<1>2. StoreTypeOK'
  BY <1>1 DEF StoreInv, StoreTypeOK, LockedPcs
<1>3. LockHeld'
  BY DEF StoreInv, StoreTypeOK, LockHeld, LockedPcs
<1>4. Lives' /\ NamesUnique' /\ \A u \in Tickets : Slot(u)'
  <2>1. Lives' /\ NamesUnique'
    BY <1>1, NamesAlone
  <2>2. \A u \in Tickets \ {t} : Slot(u)'
    BY <1>1, OtherSlots DEF StoreInv, StoreTypeOK
  <2>3. Slot(t)'
    BY <1>1 DEF StoreInv, StoreTypeOK, Slot
  <2> QED
    BY <2>1, <2>2, <2>3
<1>5. \A q \in Procs \ {p} : Working(q)'
  BY OthersWait DEF StoreInv, StoreTypeOK
<1>6. Working(p)'
  BY <1>1 DEF StoreInv, StoreTypeOK, Working
<1> QED
  BY <1>2, <1>3, <1>4, <1>5, <1>6 DEF StoreInv

(* walk_delete_tree touches only the bytes of the record in the slot. *)
LEMMA RemoveSomeKeeps == ASSUME StoreInv, NEW p \in Procs, RemoveSome(p) PROVE StoreInv'
<1> DEFINE t == job[p].ticket
<1> USE DEF RemoveSome, Holding, Step, Go
<1>1. t \in slots /\ t \in Tickets /\ held[t] # None /\ intent[t] \in {"written", "synced"}
  BY DEF StoreInv, StoreTypeOK, Working
<1>2. StoreTypeOK'
  BY <1>1 DEF StoreInv, StoreTypeOK, LockedPcs
<1>3. LockHeld'
  BY DEF StoreInv, StoreTypeOK, LockHeld, LockedPcs
<1>4. Lives' /\ NamesUnique' /\ \A u \in Tickets : Slot(u)'
  <2>1. Lives' /\ NamesUnique'
    BY NamesAlone
  <2>2. \A u \in Tickets \ {t} : Slot(u)'
    BY <1>1, OtherSlots DEF StoreInv, StoreTypeOK
  <2>3. Slot(t)'
    BY <1>1 DEF StoreInv, StoreTypeOK, Slot
  <2> QED
    BY <2>1, <2>2, <2>3
<1>5. \A q \in Procs \ {p} : Working(q)'
  BY OthersWait DEF StoreInv, StoreTypeOK
<1>6. Working(p)'
  BY <1>1 DEF StoreInv, StoreTypeOK, Working
<1> QED
  BY <1>2, <1>3, <1>4, <1>5, <1>6 DEF StoreInv

(* With its bytes gone the record directory leaves the slot. *)
LEMMA UnlinkRecordKeeps == ASSUME StoreInv, NEW p \in Procs, UnlinkRecord(p) PROVE StoreInv'
<1> DEFINE t == job[p].ticket
<1> USE DEF UnlinkRecord, Holding, Step, Go
<1>1. t \in slots /\ t \in Tickets /\ held[t] # None
  BY DEF StoreInv, StoreTypeOK, Working
<1>2. StoreTypeOK'
  BY <1>1 DEF StoreInv, StoreTypeOK, LockedPcs
<1>3. LockHeld'
  BY DEF StoreInv, StoreTypeOK, LockHeld, LockedPcs
<1>4. Lives' /\ NamesUnique' /\ \A u \in Tickets : Slot(u)'
  <2>1. Lives' /\ NamesUnique'
    BY <1>1, NamesAlone
  <2>2. \A u \in Tickets \ {t} : Slot(u)'
    BY <1>1, OtherSlots DEF StoreInv, StoreTypeOK
  <2>3. Slot(t)'
    BY <1>1 DEF StoreInv, StoreTypeOK, Slot
  <2> QED
    BY <2>1, <2>2, <2>3
<1>5. \A q \in Procs \ {p} : Working(q)'
  BY OthersWait DEF StoreInv, StoreTypeOK
<1>6. Working(p)'
  BY <1>1 DEF StoreInv, StoreTypeOK, Working
<1> QED
  BY <1>2, <1>3, <1>4, <1>5, <1>6 DEF StoreInv

(* finish_slot takes an empty slot apart. *)
LEMMA FinishSlotKeeps ==
  ASSUME StoreInv, NEW p \in Procs, UnlinkIntent(p) \/ UnlinkReceipt(p) \/ RemoveSlot(p)
  PROVE  StoreInv'
<1> DEFINE t == job[p].ticket
<1>1. t \in slots /\ t \in Tickets /\ held[t] = None /\ lock = p
  BY DEF UnlinkIntent, UnlinkReceipt, RemoveSlot, Holding, Step, Release, StoreInv, StoreTypeOK, Working
<1>2. CASE UnlinkIntent(p)
  <2> USE <1>1, <1>2 DEF UnlinkIntent, Holding, Step, Go
  <2>1. StoreTypeOK'
    BY DEF StoreInv, StoreTypeOK, LockedPcs
  <2>2. LockHeld'
    BY DEF StoreInv, StoreTypeOK, LockHeld, LockedPcs
  <2>3. Lives' /\ NamesUnique' /\ \A u \in Tickets : Slot(u)'
    <3>1. Lives' /\ NamesUnique'
      BY NamesAlone
    <3>2. \A u \in Tickets \ {t} : Slot(u)'
      BY OtherSlots DEF StoreInv, StoreTypeOK
    <3>3. Slot(t)'
      BY DEF StoreInv, StoreTypeOK, Slot
    <3> QED
      BY <3>1, <3>2, <3>3
  <2>4. \A q \in Procs \ {p} : Working(q)'
    BY OthersWait DEF StoreInv, StoreTypeOK
  <2>5. Working(p)'
    BY DEF StoreInv, StoreTypeOK, Working
  <2> QED
    BY <2>1, <2>2, <2>3, <2>4, <2>5 DEF StoreInv
<1>3. CASE UnlinkReceipt(p)
  <2> USE <1>1, <1>3 DEF UnlinkReceipt, Holding, Step, Go
  <2>1. StoreTypeOK'
    BY DEF StoreInv, StoreTypeOK, LockedPcs
  <2>2. LockHeld'
    BY DEF StoreInv, StoreTypeOK, LockHeld, LockedPcs
  <2>3. Lives' /\ NamesUnique' /\ \A u \in Tickets : Slot(u)'
    <3>1. Lives' /\ NamesUnique'
      BY NamesAlone
    <3>2. \A u \in Tickets \ {t} : Slot(u)'
      BY OtherSlots DEF StoreInv, StoreTypeOK
    <3>3. Slot(t)'
      BY DEF StoreInv, StoreTypeOK, Slot
    <3> QED
      BY <3>1, <3>2, <3>3
  <2>4. \A q \in Procs \ {p} : Working(q)'
    BY OthersWait DEF StoreInv, StoreTypeOK
  <2>5. Working(p)'
    BY DEF StoreInv, StoreTypeOK, Working
  <2> QED
    BY <2>1, <2>2, <2>3, <2>4, <2>5 DEF StoreInv
<1>4. CASE RemoveSlot(p)
  <2> USE <1>1, <1>4 DEF RemoveSlot, Release, Go
  <2>1. StoreTypeOK'
    BY DEF StoreInv, StoreTypeOK, NoJob
  <2>2. LockHeld'
    BY DEF StoreInv, StoreTypeOK, LockHeld, LockedPcs
  <2>3. intent[t] = "none"
    BY DEF StoreInv, Working
  <2>4. Lives' /\ NamesUnique' /\ \A u \in Tickets : Slot(u)'
    <3>1. Lives' /\ NamesUnique'
      BY <2>3, NamesAlone
    <3>2. PICK u \in Tickets : u = t
      OBVIOUS
    <3>3. \A v \in Tickets \ {u} : Slot(v)'
      BY <2>3, <3>2, OtherSlots DEF StoreInv, StoreTypeOK
    <3>4. Slot(u)'
      BY <2>3, <3>2 DEF StoreInv, StoreTypeOK, Slot
    <3> QED
      BY <3>1, <3>3, <3>4
  <2>5. \A q \in Procs \ {p} : Working(q)'
    BY OthersWait DEF StoreInv, StoreTypeOK
  <2>6. Working(p)'
    BY DEF StoreInv, StoreTypeOK, Working
  <2> QED
    BY <2>1, <2>2, <2>4, <2>5, <2>6 DEF StoreInv
<1> QED
  BY <1>2, <1>3, <1>4

-----------------------------------------------------------------------------
(* restore *)

(* A slot without intent whose record's names nobody has taken since. *)
LEMMA RestoreKeeps == ASSUME StoreInv, NEW p \in Procs, Restore(p) PROVE StoreInv'
<1> USE DEF Restore, Acquire, Step, Go
<1>1. PICK t \in Tickets :
        /\ Selectable(t) /\ intent[t] = "none" /\ held[t] # None
        /\ id[receipt[t]] \notin Taken /\ receiptLabel[t] \notin Taken
        /\ job' = [job EXCEPT ![p].ticket = t]
  OBVIOUS
<1>2. StoreTypeOK'
  BY <1>1 DEF StoreInv, StoreTypeOK, LockedPcs
<1>3. LockHeld'
  BY <1>1 DEF StoreInv, StoreTypeOK, LockHeld, LockedPcs
<1>4. Lives' /\ NamesUnique' /\ \A u \in Tickets : Slot(u)'
  BY DEF StoreInv, Lives, NamesUnique, NamesOf, Slot
<1>5. \A q \in Procs \ {p} : Working(q)'
  BY <1>1, OthersWait DEF StoreInv, StoreTypeOK
<1>6. Free(id[held[t]], active) /\ Free(label[held[t]], active)
  BY <1>1 DEF StoreInv, Slot, Free, Taken
<1>7. Working(p)'
  BY <1>1, <1>6 DEF StoreInv, StoreTypeOK, Working, Selectable, Free, NamesOf
<1> QED
  BY <1>2, <1>3, <1>4, <1>5, <1>7 DEF StoreInv

(* The record comes back under names that are still free. *)
LEMMA MoveBackKeeps == ASSUME StoreInv, NEW p \in Procs, MoveBack(p) PROVE StoreInv'
<1> DEFINE t == job[p].ticket
           r == held[t]
<1> USE DEF MoveBack, Holding, Step, Go
<1>1. /\ t \in slots /\ t \in Tickets /\ r # None /\ r \in Records /\ intent[t] = "none"
      /\ Free(id[r], active) /\ Free(label[r], active)
  BY DEF StoreInv, StoreTypeOK, Working
<1>2. r \in created \ active /\ r \notin intended /\ \A u \in Tickets \ {t} : held[u] # r
  BY <1>1 DEF StoreInv, Slot
<1>3. StoreTypeOK'
  BY <1>1 DEF StoreInv, StoreTypeOK, LockedPcs
<1>4. LockHeld'
  BY DEF StoreInv, StoreTypeOK, LockHeld, LockedPcs
<1>5. Lives'
  BY <1>2 DEF StoreInv, Lives
<1>6. NamesUnique'
  BY <1>1 DEF StoreInv, NamesUnique, NamesOf, Free
<1>7. \A u \in Tickets : Slot(u)'
  BY <1>1, <1>2 DEF StoreInv, StoreTypeOK, Slot
<1>8. \A q \in Procs \ {p} : Working(q)'
  BY OthersWait DEF StoreInv, StoreTypeOK
<1>9. Working(p)'
  BY <1>1 DEF StoreInv, StoreTypeOK, Working
<1> QED
  BY <1>3, <1>4, <1>5, <1>6, <1>7, <1>8, <1>9 DEF StoreInv

-----------------------------------------------------------------------------
(* Every step of every process keeps the invariant. *)
LEMMA StoreStep == StoreInv /\ [Next]_vars => StoreInv'
<1> SUFFICES ASSUME StoreInv, [Next]_vars PROVE StoreInv'
  OBVIOUS
<1>1. CASE UNCHANGED vars
  <2> USE <1>1 DEF vars
  <2>1. StoreTypeOK' /\ LockHeld'
    BY DEF StoreInv, StoreTypeOK, LockHeld
  <2>2. Lives' /\ NamesUnique'
    BY NamesAlone
  <2>3. \A t \in Tickets : Slot(t)'
    BY DEF StoreInv, Slot
  <2>4. \A p \in Procs : Working(p)'
    BY DEF StoreInv, Working, Free, NamesOf
  <2> QED
    BY <2>1, <2>2, <2>3, <2>4 DEF StoreInv
<1>2. ASSUME NEW p \in Procs, RecordCommand(p) \/ Stop(p) PROVE StoreInv'
  BY <1>2, CheckNameKeeps, BeginRunKeeps, WriteMetadataKeeps, FinishRunKeeps, StopKeeps
     DEF RecordCommand
<1>3. ASSUME NEW p \in Procs, IsolateSteps(p) PROVE StoreInv'
  BY <1>3, DeleteKeeps, MakeSlotKeeps, WriteReceiptKeeps, IsolateKeeps DEF IsolateSteps
<1>4. ASSUME NEW p \in Procs, PurgeSteps(p) \/ RestoreSteps(p) PROVE StoreInv'
  BY <1>4, PurgeKeeps, WriteIntentKeeps, SyncIntentKeeps, RemoveSomeKeeps, UnlinkRecordKeeps,
     FinishSlotKeeps, RestoreKeeps, MoveBackKeeps
     DEF PurgeSteps, RestoreSteps
<1> QED
  BY <1>1, <1>2, <1>3, <1>4 DEF Next

(* The invariant holds in every reachable state of the storage root. *)
THEOREM StoreInvariant == Spec => []StoreInv
BY StoreInvInit, StoreStep, PTL DEF Spec

-----------------------------------------------------------------------------
(* Theorems *)

(* However many processes record, delete, purge and restore, no two active records
   ever answer to the same ID or label. *)
THEOREM NamesStayUnique == Spec => []NamesUnique
<1>1. StoreInv => NamesUnique
  BY DEF StoreInv
<1> QED
  BY <1>1, StoreInvariant, PTL

(* A record taken out of runs/ is always found through one ticket, whose receipt
   names it, until it is purged or restored. *)
THEOREM IsolatedStaysListed == Spec => []IsolatedIsListed
<1>1. StoreInv => IsolatedIsListed
  BY DEF StoreInv, Slot, IsolatedIsListed
<1> QED
  BY <1>1, StoreInvariant, PTL

-----------------------------------------------------------------------------
(* The refinement of RecordLifecycle *)

(* The phase of a record depends on whether it is active, announced or held. *)
LEMMA PhaseKept ==
  ASSUME NEW r \in Records,
         r \in active' <=> r \in active,
         r \in intended' <=> r \in intended,
         r \in intended \/ ((\E t \in Tickets : held'[t] = r) <=> (\E t \in Tickets : held[t] = r))
  PROVE  Phase(r)' = Phase(r)
BY DEF Phase

(* A record that changes phase alone makes one move of its life. *)
LEMMA PhaseMove ==
  ASSUME NEW r \in Records, NEW from, NEW to, Phase(r) = from, Phase(r)' = to,
         \A s \in Records \ {r} : Phase(s)' = Phase(s)
  PROVE  Life!Move(r, from, to)
<1> DEFINE f == [s \in Records |-> Phase(s)]
<1>1. f[r] = from
  OBVIOUS
<1>2. f' = [s \in Records |-> Phase(s)']
  OBVIOUS
<1>3. f' = [f EXCEPT ![r] = to]
  BY <1>2
<1> QED
  BY <1>1, <1>3 DEF Life!Move

(* A step that moves no record, announces nothing and removes no byte stutters. *)
LEMMA QuietLife ==
  ASSUME UNCHANGED <<active, intended, held, evidence>>
  PROVE  UNCHANGED Life!lifeVars
<1>1. \A r \in Records : Phase(r)' = Phase(r)
  BY DEF Phase
<1> QED
  BY <1>1 DEF Life!lifeVars

(* begin_run creates. *)
LEMMA BeginRunCreates ==
  ASSUME StoreInv, NEW p \in Procs, BeginRun(p) PROVE Life!Next
<1>1. PICK r \in Records \ created :
        active' = active \cup {r} /\ evidence' = [evidence EXCEPT ![r] = "whole"]
  BY DEF BeginRun
<1>2. UNCHANGED <<intended, held>>
  BY DEF BeginRun
<1>3. r \notin active /\ r \notin intended /\ \A t \in Tickets : held[t] # r
  BY DEF StoreInv, Lives, Slot
<1>4. Phase(r) = "absent" /\ Phase(r)' = "active"
  BY <1>1, <1>3 DEF Phase
<1>5. \A s \in Records \ {r} : Phase(s)' = Phase(s)
  BY <1>1, <1>2, PhaseKept
<1>6. Life!Create(r)
  BY <1>1, <1>4, <1>5, PhaseMove DEF Life!Create
<1> QED
  BY <1>6 DEF Life!Next

(* isolate_record sets aside. *)
LEMMA IsolateSetsAside ==
  ASSUME StoreInv, NEW p \in Procs, Isolate(p) PROVE Life!Next
<1> DEFINE t == job[p].ticket
           r == job[p].record
<1>1. r \in active /\ r \in Records /\ t \in Tickets /\ held[t] = None /\ r \notin intended /\ r # None
  <2>1. r \in active /\ r \in Records /\ t \in Tickets /\ held[t] = None
    BY DEF Isolate, Holding, Step, StoreInv, StoreTypeOK, Working
  <2> QED
    BY <2>1 DEF StoreInv, Lives
<1>2. /\ active' = active \ {r} /\ held' = [held EXCEPT ![t] = r] /\ held \in [Tickets -> Records \cup {None}]
      /\ UNCHANGED <<intended, evidence, job>>
  BY DEF Isolate, Holding, StoreInv, StoreTypeOK
<1>3. PICK s \in Records : s = r
  BY <1>1
<1>4. Phase(s) = "active" /\ Phase(s)' = "isolated"
  BY <1>1, <1>2, <1>3 DEF Phase
<1>5. \A q \in Records \ {s} : Phase(q)' = Phase(q)
  <2> TAKE q \in Records \ {s}
  <2>1. (\E u \in Tickets : held'[u] = q) <=> (\E u \in Tickets : held[u] = q)
    BY <1>1, <1>2, <1>3
  <2> QED
    BY <1>2, <1>3, <2>1, PhaseKept
<1>6. Life!SetAside(s)
  BY <1>2, <1>4, <1>5, PhaseMove DEF Life!SetAside
<1> QED
  BY <1>6 DEF Life!Next

(* restore brings back. *)
LEMMA MoveBackBringsBack ==
  ASSUME StoreInv, NEW p \in Procs, MoveBack(p) PROVE Life!Next
<1>1. PICK t \in Tickets : t = job[p].ticket /\ held[t] # None /\ intent[t] = "none"
  BY DEF MoveBack, Holding, Step, StoreInv, StoreTypeOK, Working
<1>2. PICK r \in Records : r = held[t]
  BY <1>1 DEF StoreInv, StoreTypeOK
<1>3. r \notin active /\ r \notin intended /\ \A u \in Tickets \ {t} : held[u] # r
  BY <1>1, <1>2 DEF StoreInv, Slot
<1>4. /\ active' = active \cup {r} /\ held' = [held EXCEPT ![t] = None] /\ UNCHANGED <<intended, evidence>>
      /\ held \in [Tickets -> Records \cup {None}]
  BY <1>1, <1>2 DEF MoveBack, StoreInv, StoreTypeOK
<1>5. Phase(r) = "isolated" /\ Phase(r)' = "active"
  BY <1>2, <1>3, <1>4 DEF Phase
<1>6. \A q \in Records \ {r} : Phase(q)' = Phase(q)
  <2> TAKE q \in Records \ {r}
  <2>1. (\E u \in Tickets : held'[u] = q) <=> (\E u \in Tickets : held[u] = q)
    BY <1>2, <1>4
  <2> QED
    BY <1>4, <2>1, PhaseKept
<1>7. Life!BringBack(r)
  BY <1>4, <1>5, <1>6, PhaseMove DEF Life!BringBack
<1> QED
  BY <1>7 DEF Life!Next

(* mark_purge announces a purge once, and otherwise changes nothing of a record. *)
LEMMA WriteIntentAnnounces ==
  ASSUME StoreInv, NEW p \in Procs, WriteIntent(p) PROVE Life!Next \/ UNCHANGED Life!lifeVars
<1>1. PICK t \in Tickets : t = job[p].ticket /\ held[t] # None
  BY DEF WriteIntent, StoreInv, StoreTypeOK, Working
<1>2. PICK r \in Records : r = held[t]
  BY <1>1 DEF StoreInv, StoreTypeOK
<1>3. UNCHANGED <<active, held, evidence>>
  BY DEF WriteIntent
<1>4. CASE intent[t] = "none" /\ intended' = intended \cup {r}
  <2>1. r \notin active /\ r \notin intended
    BY <1>1, <1>2, <1>4 DEF StoreInv, Slot
  <2>2. Phase(r) = "isolated" /\ Phase(r)' = "purging"
    BY <1>2, <1>3, <1>4, <2>1 DEF Phase
  <2>3. \A q \in Records \ {r} : Phase(q)' = Phase(q)
    BY <1>3, <1>4, PhaseKept
  <2>4. Life!Announce(r)
    BY <1>3, <2>2, <2>3, PhaseMove DEF Life!Announce
  <2> QED
    BY <2>4 DEF Life!Next
<1>5. CASE UNCHANGED intended
  BY <1>3, <1>5, QuietLife
<1> QED
  BY <1>1, <1>2, <1>4, <1>5 DEF WriteIntent

(* walk_delete_tree erases only what is announced. *)
LEMMA RemoveSomeErases ==
  ASSUME StoreInv, NEW p \in Procs, RemoveSome(p) PROVE Life!Next
<1>1. PICK t \in Tickets : t = job[p].ticket /\ held[t] # None /\ intent[t] \in {"written", "synced"}
  BY DEF RemoveSome, Holding, Step, StoreInv, StoreTypeOK, Working
<1>2. PICK r \in Records : r = held[t]
  BY <1>1 DEF StoreInv, StoreTypeOK
<1>3. r \notin active /\ r \in intended
  BY <1>1, <1>2 DEF StoreInv, Slot
<1>4. Phase(r) = "purging"
  BY <1>3 DEF Phase
<1>5. \A q \in Records : Phase(q)' = Phase(q)
  BY DEF RemoveSome, Phase
<1>6. /\ evidence[r] # "none"
      /\ evidence' = [evidence EXCEPT ![r] = IF @ = "whole" THEN "partial" ELSE "none"]
  BY <1>1, <1>2 DEF RemoveSome
<1>7. Life!Erase(r)
  BY <1>4, <1>5, <1>6 DEF Life!Erase
<1> QED
  BY <1>7 DEF Life!Next

(* Unlinking the emptied directory of an announced record changes no phase. *)
LEMMA UnlinkRecordStutters ==
  ASSUME StoreInv, NEW p \in Procs, UnlinkRecord(p) PROVE UNCHANGED Life!lifeVars
<1>1. PICK t \in Tickets : t = job[p].ticket /\ held[t] # None /\ intent[t] \in {"written", "synced"}
  BY DEF UnlinkRecord, Holding, Step, StoreInv, StoreTypeOK, Working
<1>2. held[t] \in intended
  BY <1>1 DEF StoreInv, Slot
<1>3. held' = [held EXCEPT ![t] = None] /\ held \in [Tickets -> Records \cup {None}]
  BY <1>1 DEF UnlinkRecord, StoreInv, StoreTypeOK
<1>4. UNCHANGED <<active, intended, evidence>>
  BY DEF UnlinkRecord
<1>5. ASSUME NEW r \in Records PROVE Phase(r)' = Phase(r)
  <2>1. r \in intended \/ ((\E u \in Tickets : held'[u] = r) <=> (\E u \in Tickets : held[u] = r))
    BY <1>2, <1>3
  <2> QED
    BY <1>4, <2>1, PhaseKept
<1> QED
  BY <1>4, <1>5 DEF Life!lifeVars

(* Every step of every command is one step in the life of one record, or none. *)
LEMMA LifeStep == StoreInv /\ [Next]_vars => [Life!Next]_(Life!lifeVars)
<1> SUFFICES ASSUME StoreInv, [Next]_vars PROVE Life!Next \/ UNCHANGED Life!lifeVars
  OBVIOUS
<1>1. CASE UNCHANGED vars
  BY <1>1, QuietLife DEF vars
<1>2. ASSUME NEW p \in Procs,
             \/ CheckName(p) \/ WriteMetadata(p) \/ FinishRun(p) \/ Stop(p)
             \/ Delete(p) \/ MakeSlot(p) \/ WriteReceipt(p) \/ Purge(p) \/ SyncIntent(p)
             \/ UnlinkIntent(p) \/ UnlinkReceipt(p) \/ RemoveSlot(p) \/ Restore(p)
      PROVE  UNCHANGED Life!lifeVars
  <2>1. UNCHANGED <<active, intended, held, evidence>>
    BY <1>2 DEF CheckName, WriteMetadata, FinishRun, Stop, Delete, MakeSlot, WriteReceipt, Purge,
       SyncIntent, UnlinkIntent, UnlinkReceipt, RemoveSlot, Restore
  <2> QED
    BY <2>1, QuietLife
<1> QED
  BY <1>1, <1>2, BeginRunCreates, IsolateSetsAside, MoveBackBringsBack, WriteIntentAnnounces,
     RemoveSomeErases, UnlinkRecordStutters
     DEF Next, RecordCommand, IsolateSteps, PurgeSteps, RestoreSteps

(* The storage implements RecordLifecycle for any number of processes, records and
   tickets, stopped anywhere: a record is set aside whole and can come back until a
   purge is announced; bytes go only after that, and nothing then leads back. *)
THEOREM LifecycleRefinement == Spec => KeepsLifecycle
<1>1. Init => Life!Init
  <2> SUFFICES ASSUME Init PROVE Life!Init
    OBVIOUS
  <2>1. \A r \in Records : Phase(r) = "absent"
    BY DEF Init, Phase
  <2> QED
    BY <2>1 DEF Init, Life!Init
<1> QED
  BY <1>1, StoreInvariant, LifeStep, PTL DEF Spec, KeepsLifecycle, Life!Spec

=============================================================================

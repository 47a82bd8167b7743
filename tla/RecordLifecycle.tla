--------------------------- MODULE RecordLifecycle ----------------------------
(***************************************************************************)
(* What the storage promises about the life of a record, whatever commands *)
(* run against it and wherever they stop: deleting only sets the record    *)
(* aside, whole, and it can come back; its bytes are touched only after a  *)
(* purge was announced, from where nothing leads back.                     *)
(***************************************************************************)
CONSTANT Records

VARIABLES
  phase,     \* of each record: "absent", "active", "isolated" or "purging"
  bytes      \* what is left of it: "whole", "partial" or "none"

lifeVars == <<phase, bytes>>

Init ==
  /\ phase = [r \in Records |-> "absent"]
  /\ bytes = [r \in Records |-> "none"]

Move(r, from, to) == phase[r] = from /\ phase' = [phase EXCEPT ![r] = to]

Create(r)   == Move(r, "absent", "active") /\ bytes' = [bytes EXCEPT ![r] = "whole"]
SetAside(r) == Move(r, "active", "isolated") /\ UNCHANGED bytes
BringBack(r) == Move(r, "isolated", "active") /\ UNCHANGED bytes
Announce(r) == Move(r, "isolated", "purging") /\ UNCHANGED bytes

Erase(r) ==
  /\ phase[r] = "purging" /\ bytes[r] # "none"
  /\ bytes' = [bytes EXCEPT ![r] = IF @ = "whole" THEN "partial" ELSE "none"]
  /\ UNCHANGED phase

Next == \E r \in Records : Create(r) \/ SetAside(r) \/ BringBack(r) \/ Announce(r) \/ Erase(r)

Spec == Init /\ [][Next]_lifeVars

===============================================================================

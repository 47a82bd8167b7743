----------------------------- MODULE SignalScope ------------------------------
(***************************************************************************)
(* The recorder's temporary signal state, from SignalScope in              *)
(* src/capture/supervision.rs: with_faults, observe, freeze,               *)
(* restore_parent, Drop and the rollback of a failed setup.  Every system  *)
(* call may fail, and control signals arrive between any two.              *)
(*                                                                         *)
(* The module is driven by a client: here by an arbitrary one, in          *)
(* CaptureWorkflow by the record command.                                  *)
(***************************************************************************)
EXTENDS Naturals

CONSTANTS
  Signals,    \* watched control signals (HUP, INT, TERM), as their numbers
  NoSignal    \* first_observed = None

ASSUME SignalsAssumption == Signals \subseteq Nat /\ NoSignal \notin Signals

VARIABLES
  ignored, callerBlocked,   \* saved: dispositions that are SIG_IGN, the mask
  step,        \* where the scope is in its life
  installed,   \* signals whose temporary SIG_DFL action is installed
  masked,      \* the watched set is blocked by the recorder
  pending,     \* signals pending on the thread
  first,       \* first_observed
  frozen, restored,
  attempts,    \* restorations begun: the explicit one, then Drop's
  todo,        \* actions this rollback or restoration has still to set
  drainError, actionError,   \* failures met by this attempt
  reported,    \* an error was returned to the caller
  consumed, ranTemporary     \* history: signals read; run by a temporary action

savedVars == <<ignored, callerBlocked>>
attemptVars == <<attempts, todo, drainError, actionError>>
factVars  == <<first, frozen, consumed>>
scopeVars == <<savedVars, step, installed, masked, pending, factVars, restored, attemptVars,
               reported, ranTemporary>>

ScopeInit ==
  /\ ignored \in SUBSET Signals /\ callerBlocked \in SUBSET Signals
  /\ step = "new" /\ installed = {} /\ masked = FALSE /\ pending = {}
  /\ first = NoSignal /\ frozen = FALSE /\ restored = FALSE
  /\ attempts = 0 /\ todo = {} /\ drainError = FALSE /\ actionError = FALSE
  /\ reported = FALSE /\ consumed = {} /\ ranTemporary = {}

-----------------------------------------------------------------------------
(* Setup: with_faults *)

(* The caller's mask or an action cannot be read, or the mask not changed. *)
NewFails ==
  /\ step = "new"
  /\ step' = "closed" /\ reported' = TRUE
  /\ UNCHANGED <<savedVars, installed, masked, pending, factVars, restored, attemptVars,
                 ranTemporary>>

(* Variant: actions are replaced while signals can still be delivered. *)
BlockNothing ==
  /\ step = "new"
  /\ step' = "install" /\ masked' = FALSE
  /\ UNCHANGED <<savedVars, installed, pending, factVars, restored, attemptVars, reported,
                 ranTemporary>>

(* Signals are blocked before any action is replaced. *)
Block ==
  /\ step = "new"
  /\ step' = "install" /\ masked' = TRUE
  /\ UNCHANGED <<savedVars, installed, pending, factVars, restored, attemptVars, reported,
                 ranTemporary>>

Install ==
  /\ step = "install"
  /\ \E s \in Signals \ installed : installed' = installed \cup {s}
  /\ UNCHANGED <<savedVars, step, masked, pending, factVars, restored, attemptVars, reported,
                 ranTemporary>>

OpenSignalfd ==
  /\ step = "install" /\ installed = Signals
  /\ step' = "open"
  /\ UNCHANGED <<savedVars, installed, masked, pending, factVars, restored, attemptVars, reported,
                 ranTemporary>>

(* An action or the signalfd fails: with_signal_setup_rollback. *)
SetupFails ==
  /\ step = "install"
  /\ step' = "undo" /\ todo' = installed /\ reported' = TRUE
  /\ UNCHANGED <<savedVars, installed, masked, pending, factVars, restored, attempts, drainError,
                 actionError, ranTemporary>>

-----------------------------------------------------------------------------
(* Acquisition: observe and freeze *)

(* Reading a record consumes its signal; the first one read is latched. *)
Read(records) ==
  /\ pending' = pending \ records
  /\ consumed' = consumed \cup records
  /\ first' \in IF first = NoSignal /\ records # {} THEN records ELSE {first}

(* Variant: freezing does not end acquisition. *)
DrainAlways == Read(pending)

(* observe: once frozen nothing is read; otherwise everything pending is. *)
Drain == IF frozen THEN UNCHANGED <<pending, consumed, first>> ELSE Read(pending)

(* A read fails after some records were consumed. *)
DrainFails == ~frozen /\ \E records \in SUBSET pending : Read(records)

Acquiring == step = "open" /\ attempts = 0

Observe ==
  /\ Acquiring
  /\ Drain
  /\ UNCHANGED <<savedVars, step, installed, masked, frozen, restored, attemptVars, reported,
                 ranTemporary>>

ObserveFails ==
  /\ Acquiring
  /\ DrainFails
  /\ UNCHANGED <<savedVars, step, installed, masked, frozen, restored, attemptVars, reported,
                 ranTemporary>>

(* freeze ends acquisition even when its own last observation fails. *)
Freeze ==
  /\ Acquiring
  /\ Drain
  /\ frozen' = TRUE
  /\ UNCHANGED <<savedVars, step, installed, masked, restored, attemptVars, reported,
                 ranTemporary>>

FreezeFails ==
  /\ Acquiring
  /\ DrainFails
  /\ frozen' = TRUE
  /\ UNCHANGED <<savedVars, step, installed, masked, restored, attemptVars, reported,
                 ranTemporary>>

-----------------------------------------------------------------------------
(* Restoration: restore_parent, called once explicitly and, if that attempt was
   not clean, once more by Drop. *)
BeginRestore ==
  /\ step = "open" /\ attempts < 2
  /\ \/ Drain /\ drainError' = FALSE
     \/ DrainFails /\ drainError' = TRUE
  /\ frozen' = TRUE /\ actionError' = FALSE
  /\ attempts' = attempts + 1 /\ todo' = Signals /\ step' = "restore"
  /\ UNCHANGED <<savedVars, installed, masked, restored, reported, ranTemporary>>

(* restore_signal_actions attempts every action, whatever happened to others.
   Setting SIG_IGN again discards what is pending for that signal. *)
RestoreAction ==
  /\ step \in {"undo", "restore"}
  /\ \E s \in todo :
       /\ todo' = todo \ {s}
       /\ installed' = installed \ {s}
       /\ pending' = IF s \in ignored THEN pending \ {s} ELSE pending
  /\ UNCHANGED <<savedVars, step, masked, factVars, restored, attempts, drainError, actionError,
                 reported, ranTemporary>>

RestoreActionFails ==
  /\ step \in {"undo", "restore"}
  /\ \E s \in todo : todo' = todo \ {s}
  /\ actionError' = TRUE
  /\ UNCHANGED <<savedVars, step, installed, masked, pending, factVars, restored, attempts,
                 drainError, reported, ranTemporary>>

(* Variant: failures of restoration are dropped. *)
EndAttemptSilently(clean) ==
  /\ restored' = (restored \/ (step = "restore" /\ clean))
  /\ reported' = reported
  /\ step' = IF step = "restore" /\ ~clean /\ attempts = 1 THEN "open" ELSE "closed"

(* The attempt is over; an unclean explicit attempt leaves the retry to Drop. *)
EndAttempt(clean) ==
  /\ restored' = (restored \/ (step = "restore" /\ clean))
  /\ reported' = (reported \/ ~clean)
  /\ step' = IF step = "restore" /\ ~clean /\ attempts = 1 THEN "open" ELSE "closed"

(* With every action back, the caller's mask is set and what it does not block is
   delivered at once. *)
RestoreMask ==
  /\ step \in {"undo", "restore"} /\ todo = {} /\ ~actionError
  /\ masked' = FALSE
  /\ pending' = pending \cap callerBlocked
  /\ ranTemporary' = ranTemporary \cup ((pending \ callerBlocked) \cap installed)
  /\ EndAttempt(~drainError)
  /\ UNCHANGED <<savedVars, installed, factVars, attemptVars>>

(* The mask cannot be set, or must stay because an action could not be. *)
KeepMask ==
  /\ step \in {"undo", "restore"} /\ todo = {}
  /\ EndAttempt(FALSE)
  /\ UNCHANGED <<savedVars, installed, masked, pending, factVars, attemptVars, ranTemporary>>

-----------------------------------------------------------------------------
(* The kernel: a signal stays pending while blocked and is delivered otherwise. *)
SignalArrives ==
  /\ \E s \in Signals :
       IF masked \/ s \in callerBlocked
         THEN pending' = pending \cup {s} /\ ranTemporary' = ranTemporary
         ELSE pending' = pending /\ ranTemporary' = ranTemporary \cup ({s} \cap installed)
  /\ UNCHANGED <<savedVars, step, installed, masked, factVars, restored, attemptVars, reported>>

Setup == NewFails \/ Block \/ Install \/ OpenSignalfd \/ SetupFails
RestoreSteps == RestoreAction \/ RestoreActionFails \/ RestoreMask \/ KeepMask

ScopeNext ==
  \/ Setup \/ Observe \/ ObserveFails \/ Freeze \/ FreezeFails
  \/ BeginRestore \/ RestoreSteps \/ SignalArrives

ScopeSpec == ScopeInit /\ [][ScopeNext]_scopeVars

-----------------------------------------------------------------------------
(* Properties *)

(* No signal ever takes effect through a temporary action: neither during setup,
   nor after a failed setup or restoration, nor in Drop's retry. *)
TemporaryNeverRuns == ranTemporary = {}

(* A caller left with foreign signal state has been told. *)
NoSilentChange == step = "closed" /\ (installed # {} \/ masked) => reported

=============================================================================

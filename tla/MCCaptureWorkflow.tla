-------------------------- MODULE MCCaptureWorkflow ---------------------------
(* Two control signals, so that one can be late; exit 0 and death by KILL, so that
   target and collector can agree and disagree.  The caller's own dispositions
   and mask, which matter only to delivery, are varied in MCSignalScope. *)
EXTENDS CaptureWorkflow

MCInit ==
  /\ Init
  /\ ignored = {} /\ callerBlocked = {}

MCSpec == MCInit /\ [][Next]_vars
=============================================================================

---------------------------- MODULE MCSignalScope -----------------------------
(* Two control signals suffice: one may be read while another is late, and one
   action may be restored while the other fails. *)
EXTENDS SignalScope
=============================================================================

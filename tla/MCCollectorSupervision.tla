------------------------ MODULE MCCollectorSupervision ------------------------
(* Two control signals, a one-byte trace limit and a trace of up to two bytes:
   both orders of signal and limit, and both sides of the byte boundary. *)
EXTENDS CollectorSupervision
=============================================================================

--------------------------- MODULE MCVersionProbe -----------------------------
(* One probe whose streams hold one chunk. *)
EXTENDS VersionProbe
=============================================================================

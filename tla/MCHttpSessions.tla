--------------------------- MODULE MCHttpSessions ---------------------------
(* Instance of HttpSessions for TLC. *)
EXTENDS HttpSessions

CONSTANTS i1, i2, i3, p1, g1
=============================================================================

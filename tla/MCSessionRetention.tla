------------------------- MODULE MCSessionRetention -------------------------
(* Small instances of SessionRetention. *)
EXTENDS SessionRetention

CONSTANTS tick, ncl, w1

TwoSessions == 1..2
ThreeSessions == 1..3
============================================================================

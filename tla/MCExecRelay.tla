---------------------------- MODULE MCExecRelay ----------------------------
(* Instances of ExecRelay for TLC: the values of its bounds are in the cfgs.*)
(* The agent's connections are numbered in the order they are made, so no   *)
(* symmetry set is needed.                                                  *)
EXTENDS ExecRelay
=============================================================================

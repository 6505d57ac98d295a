------------------------- MODULE MCRestartWhenIdle -------------------------
(* A small instance of RestartWhenIdle: its values are in the cfg. *)
EXTENDS RestartWhenIdle
============================================================================

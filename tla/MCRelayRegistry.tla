--------------------------- MODULE MCRelayRegistry ---------------------------
(* A small instance of RelayRegistry: its values are in the cfg. *)
EXTENDS RelayRegistry
=============================================================================

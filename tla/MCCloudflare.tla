---------------------------- MODULE MCCloudflare ----------------------------
(* Two exposures, one after the other under the same app name. *)
EXTENDS Cloudflare

CONSTANT notes

OneApp == [r \in 1..2 |-> notes]
=============================================================================

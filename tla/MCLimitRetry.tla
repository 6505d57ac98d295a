---- MODULE MCLimitRetry ----
(***************************************************************************)
(* Instances of LimitRetry: one notice in a topic, whose limit resets at   *)
(* one; ann typed before it, bob is an admin of the room.                  *)
(***************************************************************************)
EXTENDS LimitRetry, TLC

CONSTANTS ann, bob, first, topic, main

OneNotice == (first :> topic)
OneReset  == (first :> 1)
AnnTyped  == {<<ann, topic>>}
====

---- MODULE MCApprovals ----
(* Instances of Approvals for TLC. *)
EXTENDS Approvals
CONSTANTS c1, web1, web2, tel, k1, k2, s1, s2
====

---------------------------- MODULE MCWorkloads ----------------------------
(* Small instances of Workloads. *)
EXTENDS Workloads, TLC

\* Two images, each approved at one size; the file may have either, and the
\* first at the other's size too.
SomeShapes == {[ref |-> "a", digest |-> 1, size |-> 1], [ref |-> "b", digest |-> 2, size |-> 2]}
SomeStacks == {[ref |-> "a", size |-> 1], [ref |-> "a", size |-> 2], [ref |-> "b", size |-> 2]}
\* Everything is asked of one stack; another competes with it for the quota.
CONSTANTS n1, n2
SomeAsked == n1 :> Ops @@ n2 :> {"up"}
============================================================================

---------------------------- MODULE OneDecision ----------------------------
(* What a card promises: it is decided at most once, approved or rejected, *)
(* and what was asked is applied at most once, and only when approved.     *)
CONSTANT Cards
VARIABLES decided, applied
vars == <<decided, applied>>

Init == decided = [c \in Cards |-> "no"] /\ applied = {}

Decide(c, d) == /\ decided[c] = "no"
                /\ decided' = [decided EXCEPT ![c] = d]
                /\ UNCHANGED applied

\* The decision to approve and the start of what it applies are one step.
Apply(c) == /\ decided[c] = "no" /\ c \notin applied
            /\ decided' = [decided EXCEPT ![c] = "approved"]
            /\ applied' = applied \cup {c}

Next == \E c \in Cards : Apply(c) \/ Decide(c, "rejected")
Spec == Init /\ [][Next]_vars
=============================================================================

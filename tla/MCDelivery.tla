----------------------------- MODULE MCDelivery ------------------------------
(* Instances of Delivery for TLC: two rows of one session, which say the     *)
(* same or not.                                                              *)
EXTENDS Delivery, TLC

CONSTANTS r1, r2, s1, m1, a

BySession1 == [r \in Rows |-> s1]
AtHome     == [s \in Sessions |-> m1]
InRoom1    == [r \in Rows |-> m1]

\* A text with an attachment, and an attachment alone.
TwoKinds == {[text |-> a, files |-> 1], [text |-> NoText, files |-> 1]}

\* Rows of one session may be exchanged.
SymRows == Permutations({r1, r2})
=============================================================================

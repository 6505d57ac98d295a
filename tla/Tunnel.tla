------------------------------- MODULE Tunnel -------------------------------
(***************************************************************************)
(* What the exec relay promises: "carries every connection, byte for byte" *)
(* (app/src/channels/webchat/exec-relay.ts).  A connection is two queues.  *)
(* Its two ends see it begin and end at different times, but each end      *)
(* reads what the other sent, from the first chunk, in order, once, and    *)
(* nothing before the connection is served or after the reader saw it end. *)
(***************************************************************************)
EXTENDS Naturals, Sequences

CONSTANT Connections

VARIABLES
    life,      \* the agent's end: "idle", "open", "closed"
    served,    \* the route's end: "no", "yes", "over"
    sentUp, gotUp, sentDn, gotDn

tunnelVars == <<life, served, sentUp, gotUp, sentDn, gotDn>>

Init ==
    /\ life = [k \in Connections |-> "idle"] /\ served = [k \in Connections |-> "no"]
    /\ sentUp = [k \in Connections |-> 0] /\ gotUp = [k \in Connections |-> <<>>]
    /\ sentDn = [k \in Connections |-> 0] /\ gotDn = [k \in Connections |-> <<>>]

Open(k) ==
    /\ life[k] = "idle" /\ life' = [life EXCEPT ![k] = "open"]
    /\ UNCHANGED <<served, sentUp, gotUp, sentDn, gotDn>>

\* The relay may accept a connection and reset it, and others, at once.
Reset(S) ==
    /\ \A k \in S : life[k] \in {"idle", "open"}
    /\ life' = [k \in Connections |-> IF k \in S THEN "closed" ELSE life[k]]
    /\ \E k \in S : life[k] = "open"
    /\ UNCHANGED <<served, sentUp, gotUp, sentDn, gotDn>>

Serve(k) ==
    /\ served[k] = "no" /\ life[k] # "idle"
    /\ served' = [served EXCEPT ![k] = "yes"]
    /\ UNCHANGED <<life, sentUp, gotUp, sentDn, gotDn>>

\* The routes of S see their connections end.
Finish(S) ==
    /\ S # {} /\ \A k \in S : served[k] = "yes"
    /\ served' = [k \in Connections |-> IF k \in S THEN "over" ELSE served[k]]
    /\ UNCHANGED <<life, sentUp, gotUp, sentDn, gotDn>>

SendUp(k) ==
    /\ life[k] = "open" /\ sentUp' = [sentUp EXCEPT ![k] = @ + 1]
    /\ UNCHANGED <<served, gotUp, sentDn, gotDn>>
    /\ \E S \in SUBSET {j \in Connections : life[j] = "open"} :
         life' = [j \in Connections |-> IF j \in S THEN "closed" ELSE life[j]]

ReadUp(k) ==
    /\ served[k] = "yes" /\ Len(gotUp[k]) < sentUp[k]
    /\ gotUp' = [gotUp EXCEPT ![k] = Append(@, <<k, Len(@) + 1>>)]
    /\ UNCHANGED <<life, served, sentUp, sentDn, gotDn>>

SendDn(k) ==
    /\ served[k] # "no" /\ sentDn' = [sentDn EXCEPT ![k] = @ + 1]
    /\ UNCHANGED <<life, sentUp, gotUp, gotDn>>
    /\ \E S \in SUBSET {j \in Connections : served[j] = "yes"} :
         served' = [j \in Connections |-> IF j \in S THEN "over" ELSE served[j]]

ReadDn(k) ==
    /\ life[k] = "open" /\ Len(gotDn[k]) < sentDn[k]
    /\ gotDn' = [gotDn EXCEPT ![k] = Append(@, <<k, Len(@) + 1>>)]
    /\ UNCHANGED <<life, served, sentUp, gotUp, sentDn>>

Next ==
    \/ \E k \in Connections : Open(k) \/ Serve(k) \/ SendUp(k) \/ ReadUp(k) \/ SendDn(k) \/ ReadDn(k)
    \/ \E S \in SUBSET Connections : Reset(S) \/ Finish(S)

Spec == Init /\ [][Next]_tunnelVars
=============================================================================

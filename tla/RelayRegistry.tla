---------------------------- MODULE RelayRegistry ----------------------------
(***************************************************************************)
(* The containers central relays (exec-relay.ts, second half): a spawn     *)
(* registers a container under its name before it exists; a ticker probes  *)
(* each registered name, attaches a relay to one that runs and forgets one *)
(* that is gone.  Probes are slow, names are reused by the next spawn, and *)
(* after a restart of the host running containers are adopted.             *)
(*                                                                         *)
(* A registration is named by its number; a ContainerRelay is only open or *)
(* closed here (ExecRelay models what it does; no name is in both modules, *)
(* so that one module may extend them together).                           *)
(***************************************************************************)
EXTENDS Naturals

CONSTANTS
    Names,       \* container names
    MaxRegs,     \* bound: registrations of each name
    Window,      \* START_WINDOW_MS, in steps of Age
    MaxRestarts  \* bound: restarts of the host

ASSUME RegistryAssumption == MaxRegs \in Nat /\ Window \in Nat /\ MaxRestarts \in Nat

None == 0   \* registrations are numbered from 1

VARIABLES
    ctr,        \* the container of each name: Phases
    want,       \* whether a spawn is still to create it
    started,    \* whether the container of the last spawn has run
    last,       \* the last registration of each name
    registered, \* the current registration of each name, or None
    age,        \* how long ago that was: Date.now() - since
    seenRunning,
    relays,     \* the registration whose relay is in the map, or None
    open,       \* the registrations whose relay is not closed
    probing,    \* each name's probe: [reg, state], state "out" until it has looked
    ticker,
    scan,       \* the adoption scan: "none", "due" or "done"
    listed,     \* names it has listed and not reached
    restarts

engineVars   == <<ctr, want, started>>
registryVars == <<last, registered, age, seenRunning, relays, open>>
scanVars     == <<scan, listed>>
allVars == <<engineVars, registryVars, probing, ticker, scanVars, restarts>>

Phases  == {"gone", "created", "running", "exited"}
States  == {"gone", "other", "running"}
NoProbe == [reg |-> None, state |-> "none"]

RegistryInit ==
    /\ ctr = [n \in Names |-> "gone"] /\ want = [n \in Names |-> FALSE]
    /\ started = [n \in Names |-> FALSE] /\ last = [n \in Names |-> 0]
    /\ registered = [n \in Names |-> None] /\ age = [n \in Names |-> 0]
    /\ seenRunning = [n \in Names |-> FALSE]
    /\ relays = [n \in Names |-> None] /\ open = [n \in Names |-> {}]
    /\ probing = [n \in Names |-> NoProbe]
    /\ ticker = FALSE /\ scan = "none" /\ listed = {} /\ restarts = 0

-----------------------------------------------------------------------------
(* The engine.                                                             *)

\* The container of the last spawn is created, under a name that is free.
Create(n) ==
    /\ want[n] /\ ctr[n] = "gone" /\ ctr' = [ctr EXCEPT ![n] = "created"]
    /\ want' = [want EXCEPT ![n] = FALSE]
    /\ UNCHANGED <<started, registryVars, probing, ticker, scanVars, restarts>>

Run(n) ==
    /\ ctr[n] = "created" /\ ctr' = [ctr EXCEPT ![n] = "running"]
    /\ started' = [started EXCEPT ![n] = TRUE]
    /\ UNCHANGED <<want, registryVars, probing, ticker, scanVars, restarts>>

Exit(n) ==
    /\ ctr[n] = "running" /\ ctr' = [ctr EXCEPT ![n] = "exited"]
    /\ UNCHANGED <<want, started, registryVars, probing, ticker, scanVars, restarts>>

Remove(n) ==
    /\ ctr[n] # "gone" /\ ctr' = [ctr EXCEPT ![n] = "gone"]
    /\ UNCHANGED <<want, started, registryVars, probing, ticker, scanVars, restarts>>

\* A spawn that comes to nothing.
Abort(n) ==
    /\ want[n] /\ want' = [want EXCEPT ![n] = FALSE]
    /\ UNCHANGED <<ctr, started, registryVars, probing, ticker, scanVars, restarts>>

\* What inspect says of it.
Says(n) == IF ctr[n] \in {"gone", "running"} THEN ctr[n] ELSE "other"

-----------------------------------------------------------------------------
(* registerRelayedContainer.                                               *)

\* Faulty variant of Registered: the ticker, once stopped, is not started again.
RegisteredStill(n) ==
    /\ last[n] < MaxRegs
    /\ last' = [last EXCEPT ![n] = @ + 1]
    /\ registered' = [registered EXCEPT ![n] = last[n] + 1]
    /\ age' = [age EXCEPT ![n] = 0]
    /\ seenRunning' = [seenRunning EXCEPT ![n] = registered[n] # None /\ @]
    /\ relays' = [relays EXCEPT ![n] = None]
    /\ open' = [open EXCEPT ![n] = @ \ {relays[n]}]
    /\ ticker' = (ticker \/ \A m \in Names : last[m] = 0)

\* What it was told before of whether the name ran is kept; the relay is not.
Registered(n) ==
    /\ last[n] < MaxRegs
    /\ last' = [last EXCEPT ![n] = @ + 1]
    /\ registered' = [registered EXCEPT ![n] = last[n] + 1]
    /\ age' = [age EXCEPT ![n] = 0]
    /\ seenRunning' = [seenRunning EXCEPT ![n] = registered[n] # None /\ @]
    /\ relays' = [relays EXCEPT ![n] = None]
    /\ open' = [open EXCEPT ![n] = @ \ {relays[n]}]
    /\ ticker' = TRUE

\* At a spawn, before the container exists; the one before has ended, though
\* the engine may not have removed it.
Spawn(n) ==
    /\ ctr[n] \in {"gone", "exited"} /\ ~want[n]
    /\ Registered(n)
    /\ want' = [want EXCEPT ![n] = TRUE] /\ started' = [started EXCEPT ![n] = FALSE]
    /\ UNCHANGED <<ctr, probing, scanVars, restarts>>

\* adoptRelayedContainers lists the running ones; a failed call lists none.
AdoptList ==
    /\ scan = "due" /\ scan' = "done"
    /\ listed' \in {{}, {n \in Names : ctr[n] = "running"}}
    /\ UNCHANGED <<engineVars, registryVars, probing, ticker, restarts>>

\* Each is inspected in turn; one that is gone, or fails, is passed over.
Adopt(n) ==
    /\ n \in listed /\ listed' = listed \ {n}
    /\ \/ ctr[n] # "gone" /\ Registered(n)
       \/ UNCHANGED <<registryVars, ticker>>
    /\ UNCHANGED <<engineVars, scan, probing, restarts>>

-----------------------------------------------------------------------------
(* The ticker and its probes.                                              *)

\* tick: a probe for each name that has none out; no names, no ticker.
Tick ==
    /\ ticker
    /\ probing' = [n \in Names |->
                     IF registered[n] # None /\ probing[n] = NoProbe
                     THEN [reg |-> registered[n], state |-> "out"] ELSE probing[n]]
    /\ ticker' = (\E n \in Names : registered[n] # None)
    /\ UNCHANGED <<engineVars, registryVars, scanVars, restarts>>

\* containerState looks; an engine call that fails or times out says "other".
Look(n) ==
    /\ probing[n].state = "out"
    /\ \E s \in {Says(n), "other"} : probing' = [probing EXCEPT ![n].state = s]
    /\ UNCHANGED <<engineVars, registryVars, ticker, scanVars, restarts>>

AttachRelay(n) ==
    /\ seenRunning' = [seenRunning EXCEPT ![n] = TRUE]
    /\ relays' = [relays EXCEPT ![n] = IF @ = None THEN probing[n].reg ELSE @]
    /\ open' = [open EXCEPT ![n] = IF relays[n] = None THEN @ \cup {probing[n].reg} ELSE @]
    /\ UNCHANGED <<last, registered, age>>

Forget(n) ==
    /\ registered' = [registered EXCEPT ![n] = None]
    /\ relays' = [relays EXCEPT ![n] = None]
    /\ open' = [open EXCEPT ![n] = @ \ {relays[n]}]
    /\ UNCHANGED <<last, age, seenRunning>>

Forgettable(n) == seenRunning[n] \/ age[n] > Window

\* Faulty variant of Answer: acts on an answer about a registration before.
AnswerAny(n) ==
    /\ probing[n].state \in States
    /\ probing' = [probing EXCEPT ![n] = NoProbe]
    /\ IF probing[n].state = "running" THEN AttachRelay(n)
       ELSE IF probing[n].state = "gone" /\ Forgettable(n) THEN Forget(n)
       ELSE UNCHANGED registryVars
    /\ UNCHANGED <<engineVars, ticker, scanVars, restarts>>

\* checkContainer after its await: an answer about a replaced registration is
\* dropped.
Answer(n) ==
    /\ probing[n].state \in States
    /\ probing' = [probing EXCEPT ![n] = NoProbe]
    /\ IF registered[n] # probing[n].reg THEN UNCHANGED registryVars
       ELSE IF probing[n].state = "running" THEN AttachRelay(n)
       ELSE IF probing[n].state = "gone" /\ Forgettable(n) THEN Forget(n)
       ELSE UNCHANGED registryVars
    /\ UNCHANGED <<engineVars, ticker, scanVars, restarts>>

Age(n) ==
    /\ registered[n] # None /\ age[n] <= Window
    /\ age' = [age EXCEPT ![n] = @ + 1]
    /\ UNCHANGED <<engineVars, last, registered, seenRunning, relays, open, probing, ticker,
                   scanVars, restarts>>

\* The host stops and starts: its memory goes, the containers stay.
Restart ==
    /\ restarts < MaxRestarts /\ restarts' = restarts + 1
    /\ registered' = [n \in Names |-> None] /\ age' = [n \in Names |-> 0]
    /\ seenRunning' = [n \in Names |-> FALSE] /\ relays' = [n \in Names |-> None]
    /\ open' = [n \in Names |-> {}] /\ probing' = [n \in Names |-> NoProbe]
    /\ ticker' = FALSE /\ scan' = "due" /\ listed' = {}
    /\ UNCHANGED <<engineVars, last>>

RegistryNext ==
    \/ \E n \in Names : \/ Create(n) \/ Run(n) \/ Exit(n) \/ Remove(n) \/ Abort(n)
                        \/ Spawn(n) \/ Adopt(n) \/ Look(n) \/ Answer(n) \/ Age(n)
    \/ AdoptList \/ Tick \/ Restart

RegistrySpec == RegistryInit /\ [][RegistryNext]_allVars

\* The interval fires, probes return (each has a timeout).
RegistryFairness ==
    /\ WF_allVars(Tick)
    /\ \A n \in Names : WF_allVars(Look(n)) /\ WF_allVars(Answer(n))
\* The engine does not fail for ever.
Honest == \A n \in Names : SF_allVars(Look(n) /\ probing'[n].state = Says(n))
RegistryFairSpec == RegistrySpec /\ RegistryFairness /\ Honest

-----------------------------------------------------------------------------
\* The type invariant of the registry, its probes and the engine.
RegistryTypeOK ==
    /\ ctr \in [Names -> Phases] /\ want \in [Names -> BOOLEAN]
    /\ started \in [Names -> BOOLEAN] /\ last \in [Names -> 0..MaxRegs]
    /\ registered \in [Names -> 0..MaxRegs] /\ age \in [Names -> 0..(Window + 1)]
    /\ seenRunning \in [Names -> BOOLEAN] /\ relays \in [Names -> 0..MaxRegs]
    /\ open \in [Names -> SUBSET (1..MaxRegs)]
    /\ probing \in [Names -> {NoProbe} \cup [reg : 1..MaxRegs, state : States \cup {"out"}]]
    /\ ticker \in BOOLEAN /\ scan \in {"none", "due", "done"} /\ listed \subseteq Names /\ restarts \in Nat

\* Every relay that is not closed is the one in the map, and it was made for
\* the current registration: no pipe of an earlier spawn, with its route, is
\* left attached (exec-relay.ts:556-559, 597-599).
OnlyCurrentAttached ==
    \A n \in Names :
        /\ open[n] = {relays[n]} \ {None}
        /\ relays[n] # None => relays[n] = registered[n]

\* A registered container that keeps running gets its relay, unless it was
\* forgotten (comment of registerRelayedContainer).
Attached ==
    \A n \in Names, g \in 1..MaxRegs :
        (registered[n] = g /\ ctr[n] = "running") ~>
            (relays[n] = g \/ registered[n] # g \/ ctr[n] # "running")

=============================================================================

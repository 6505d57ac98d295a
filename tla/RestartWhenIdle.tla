-------------------------- MODULE RestartWhenIdle --------------------------
(***************************************************************************)
(* Restarting an agent group's containers once none of them is mid-turn    *)
(* (app/src/container-restart-idle.ts), for one group: the map deferred is *)
(* keyed by group and nothing else is shared.                              *)
(*                                                                         *)
(* A call of restartAgentGroupContainersWhenIdle follows a change that a   *)
(* container reads when it is spawned. It looks at every running container *)
(* and restarts the group at once, joins a restart already deferred, or    *)
(* defers one and polls. Every look awaits a database, so calls, polls,    *)
(* spawns, turns and exits interleave with it.                             *)
(*                                                                         *)
(* A call makes at most one Set of reasons and one poller, so both carry   *)
(* the call's name. The containers' own life (spawn, turns, exit) and      *)
(* restartAgentGroupContainers are the host's and are kept to what these   *)
(* functions see of them.                                                  *)
(***************************************************************************)
EXTENDS Naturals, FiniteSets

CONSTANTS Calls,      \* calls that may be made, each after a change of its own
          Sessions,   \* active sessions of the group
          NoEntry,       \* no entry in the map
          MaxPolls,   \* polls in MAX_WAIT_MS (360 in the code)
          MaxSpawns   \* bound: containers started

ASSUME IdleAssumption ==
  /\ NoEntry \notin Calls
  /\ MaxPolls \in Nat \ {0}
  /\ MaxSpawns \in Nat

VARIABLES running,   \* sessions with a live container
          inTurn,    \* sessionInTurn of each
          knows,     \* the changes a session's container was spawned with
          spawns,    \* containers started so far
          deferred,  \* the map's entry: the call whose Set and poller it is
          reasons,   \* the Sets, by the call that made them
          pc,        \* where a call, and then its poller, is
          queued,    \* what a call read from the map when it began
          load,      \* the look in progress
          polls,     \* polls made since the deferral
          fate       \* how it ended

restartVars == <<running, inTurn, knows, spawns, deferred, reasons, pc, queued, load, polls, fate>>
containers == <<running, inTurn, knows, spawns>>

Places == {"idle", "asking", "looking", "waiting", "restarting", "done"}
Fates == {"open", "folded", "restarted", "skipped", "failed"}
\* A look: the sessions listed as running, those not looked at yet, those found
\* in a turn, the changes made when the list was taken, whether it threw.
Loads == [listed : SUBSET Sessions, todo : SUBSET Sessions, busy : SUBSET Sessions,
          made : SUBSET Calls, threw : BOOLEAN]
NoLoad == [listed |-> {}, todo |-> {}, busy |-> {}, made |-> {}, threw |-> FALSE]

\* The changes made so far: a caller makes its change, then calls.
Made == {c \in Calls : pc[c] # "idle"}
\* A poller, once its call has deferred.
Poller(c) == reasons[c] # {}

RestartTypeOK ==
  /\ running \in SUBSET Sessions
  /\ inTurn \in SUBSET running
  /\ knows \in [Sessions -> SUBSET Calls]
  /\ spawns \in 0..MaxSpawns
  /\ deferred \in Calls \cup {NoEntry}
  /\ reasons \in [Calls -> SUBSET Calls]
  /\ pc \in [Calls -> Places]
  /\ queued \in [Calls -> Calls \cup {NoEntry}]
  /\ load \in [Calls -> Loads]
  /\ polls \in [Calls -> 0..MaxPolls]
  /\ fate \in [Calls -> Fates]

RestartInit ==
  /\ running \in SUBSET Sessions
  /\ inTurn \in SUBSET running
  /\ knows = [s \in Sessions |-> {}]
  /\ spawns = 0
  /\ deferred = NoEntry
  /\ reasons = [c \in Calls |-> {}]
  /\ pc = [c \in Calls |-> "idle"]
  /\ queued = [c \in Calls |-> NoEntry]
  /\ load = [c \in Calls |-> NoLoad]
  /\ polls = [c \in Calls |-> 0]
  /\ fate = [c \in Calls |-> "open"]

At(c, place) == pc' = [pc EXCEPT ![c] = place]
Ends(c, how) == At(c, "done") /\ fate' = [fate EXCEPT ![c] = how]

----------------------------------------------------------------------------
\* The call, up to its first await: the map is read here.
Call(c) ==
  /\ pc[c] = "idle"
  /\ At(c, "asking")
  /\ queued' = [queued EXCEPT ![c] = deferred]
  /\ UNCHANGED <<containers, deferred, reasons, load, polls, fate>>

\* load: the group's sessions have arrived, those with a container are kept.
List(c) ==
  /\ pc[c] = "asking"
  /\ At(c, "looking")
  /\ load' = [load EXCEPT ![c] = [listed |-> running, todo |-> running, busy |-> {},
                                  made |-> Made, threw |-> FALSE]]
  /\ UNCHANGED <<containers, deferred, reasons, queued, polls, fate>>

\* load: one session's claims, status feed and heartbeat.
Look(c, s) ==
  /\ pc[c] = "looking"
  /\ s \in load[c].todo
  /\ load' = [load EXCEPT ![c].todo = @ \ {s},
                          ![c].busy = IF s \in inTurn THEN @ \cup {s} ELSE @]
  /\ UNCHANGED <<containers, deferred, reasons, pc, queued, polls, fate>>

Looked(c) == pc[c] = "looking" /\ load[c].todo = {}

\* The look throws: a call restarts now, a poller ends its wait. The poller's
\* reasons are taken off the map as at the end of any wait.
LoadThrows(c) ==
  /\ pc[c] \in {"asking", "looking"}
  /\ load' = [load EXCEPT ![c].threw = TRUE]
  /\ At(c, "restarting")
  /\ deferred' = IF Poller(c) THEN NoEntry ELSE deferred
  /\ UNCHANGED <<containers, reasons, queued, polls, fate>>

\* A restart was deferred when the call began: its reason joins that Set,
\* whether or not the map still holds it.
Fold(c) ==
  /\ Looked(c) /\ ~Poller(c)
  /\ queued[c] # NoEntry
  /\ reasons' = [reasons EXCEPT ![queued[c]] = @ \cup {c}]
  /\ load' = [load EXCEPT ![c] = NoLoad]
  /\ Ends(c, "folded")
  /\ UNCHANGED <<containers, deferred, queued, polls>>

\* Nothing was deferred and nobody is mid-turn.
RestartNow(c) ==
  /\ Looked(c) /\ ~Poller(c)
  /\ queued[c] = NoEntry
  /\ load[c].busy = {}
  /\ At(c, "restarting")
  /\ UNCHANGED <<containers, deferred, reasons, queued, load, polls, fate>>

\* Nothing was deferred and a turn is in progress: a new Set and its poller.
Defer(c) ==
  /\ Looked(c) /\ ~Poller(c)
  /\ queued[c] = NoEntry
  /\ load[c].busy # {}
  /\ deferred' = c
  /\ reasons' = [reasons EXCEPT ![c] = {c}]
  /\ At(c, "waiting")
  /\ load' = [load EXCEPT ![c] = NoLoad]
  /\ UNCHANGED <<containers, queued, polls, fate>>

\* Faulty variant: every poll starts the wait anew.
PollAnew(c) ==
  /\ pc[c] = "waiting"
  /\ At(c, "asking")
  /\ UNCHANGED <<containers, deferred, reasons, queued, load, polls, fate>>

\* The poll timer fires.
Poll(c) ==
  /\ pc[c] = "waiting"
  /\ At(c, "asking")
  /\ polls' = [polls EXCEPT ![c] = @ + 1]
  /\ UNCHANGED <<containers, deferred, reasons, queued, load, fate>>

\* Still busy and not past MAX_WAIT_MS: poll again.
WaitOn(c) == load[c].busy # {} /\ polls[c] < MaxPolls

PollAgain(c) ==
  /\ Looked(c) /\ Poller(c)
  /\ WaitOn(c)
  /\ At(c, "waiting")
  /\ load' = [load EXCEPT ![c] = NoLoad]
  /\ UNCHANGED <<containers, deferred, reasons, queued, polls, fate>>

\* Faulty variant: nobody busy is taken for nobody there.
NobodyBusy(c) == load[c].busy = {}

\* No container of the group was running when the look began.
NobodyThere(c) == load[c].listed = {}

\* The wait ends. With no container left there is nothing to restart.
StopWaiting(c) ==
  /\ Looked(c) /\ Poller(c)
  /\ ~WaitOn(c)
  /\ deferred' = NoEntry
  /\ IF NobodyThere(c) THEN Ends(c, "skipped")
     ELSE At(c, "restarting") /\ UNCHANGED fate
  /\ UNCHANGED <<containers, reasons, queued, load, polls>>

\* restartAgentGroupContainers (host): every running container is stopped; a
\* later spawn reads the configuration afresh.
Restarted(c) ==
  /\ pc[c] = "restarting"
  /\ running' = {}
  /\ inTurn' = {}
  /\ load' = [load EXCEPT ![c] = NoLoad]
  /\ Ends(c, "restarted")
  /\ UNCHANGED <<knows, spawns, deferred, reasons, queued, polls>>

\* It rejects: a poller's catch deletes the map's entry once more, whosever it is.
RestartFails(c) ==
  /\ pc[c] = "restarting"
  /\ deferred' = IF Poller(c) THEN NoEntry ELSE deferred
  /\ load' = [load EXCEPT ![c] = NoLoad]
  /\ Ends(c, "failed")
  /\ UNCHANGED <<containers, reasons, queued, polls>>

----------------------------------------------------------------------------
\* The host spawns a session's container for a message: it reads the
\* configuration as it is and starts its turn.
Spawn(s) ==
  /\ s \notin running
  /\ spawns < MaxSpawns
  /\ spawns' = spawns + 1
  /\ running' = running \cup {s}
  /\ inTurn' = inTurn \cup {s}
  /\ knows' = [knows EXCEPT ![s] = Made]
  /\ UNCHANGED <<deferred, reasons, pc, queued, load, polls, fate>>

TurnStart(s) ==
  /\ s \in running \ inTurn
  /\ inTurn' = inTurn \cup {s}
  /\ UNCHANGED <<running, knows, spawns, deferred, reasons, pc, queued, load, polls, fate>>

TurnEnd(s) ==
  /\ s \in inTurn
  /\ inTurn' = inTurn \ {s}
  /\ UNCHANGED <<running, knows, spawns, deferred, reasons, pc, queued, load, polls, fate>>

Exit(s) ==
  /\ s \in running
  /\ running' = running \ {s}
  /\ inTurn' = inTurn \ {s}
  /\ UNCHANGED <<knows, spawns, deferred, reasons, pc, queued, load, polls, fate>>

----------------------------------------------------------------------------
Step(c) ==
  \/ List(c)
  \/ \E s \in Sessions : Look(c, s)
  \/ Fold(c)
  \/ RestartNow(c)
  \/ Defer(c)
  \/ Poll(c)
  \/ PollAgain(c)
  \/ StopWaiting(c)
  \/ Restarted(c)

RestartNext ==
  \/ \E c \in Calls : Call(c) \/ Step(c) \/ LoadThrows(c) \/ RestartFails(c)
  \/ \E s \in Sessions : Spawn(s) \/ TurnStart(s) \/ TurnEnd(s) \/ Exit(s)

RestartSpec == RestartInit /\ [][RestartNext]_restartVars

\* The event loop runs what is due: an await resolves and a timer fires.
\* Nothing is assumed of the containers: a turn may go on for ever.
RestartFairSpec == RestartSpec /\ \A c \in Calls : WF_restartVars(Step(c))

----------------------------------------------------------------------------
\* The call whose restart c's change rides on.
Carrier(c) == IF fate[c] = "folded" THEN queued[c] ELSE c

Stale(c) == {s \in running : c \notin knows[s]}

\* The carrier gave up its restart on a list of containers taken before the
\* change was made.
TooLate(c) == fate[Carrier(c)] = "skipped" /\ c \notin load[Carrier(c)].made

\* Once a call and the restart it rides on are over, no container runs on a
\* configuration from before its change; but for a restart that failed, or one
\* skipped on an older list. (The tick awaits its look and only then takes the
\* reasons off the map, so a call may join a wait that is already decided.)
Reached ==
  \A c \in Calls :
    (pc[c] = "done" /\ pc[Carrier(c)] = "done" /\ fate[Carrier(c)] # "failed" /\ ~TooLate(c))
      => Stale(c) = {}

\* However long the turns go on, every call's restart comes to an end.
Ended == \A c \in Calls : pc[c] # "idle" ~> pc[c] = "done"
============================================================================

-------------------------- MODULE SessionRetention --------------------------
(***************************************************************************)
(* Removing sessions nobody can resume (app/src/session-retention.ts) for  *)
(* the sessions of one conversation, numbered by age: the router resumes   *)
(* the newest active one.  A prune screens every session, closes the       *)
(* active ones that may go, waits a grace period for writes that had       *)
(* resolved them before, screens again and deletes.                        *)
(*                                                                         *)
(* The screen's rules are kept to when they are read.  Mail, mtimes, the   *)
(* row and the container are read for each session at its screen (touched: *)
(* a write that lands leaves its mark on all of them); questions,          *)
(* approvals, claims, wake signals and pins (held) and the continuation    *)
(* are read once, for all sessions, when a context is built.               *)
(*                                                                         *)
(* Pruners are the host's tick (one at a time: it has a flag) and          *)
(* `ncl sessions prune` (which does not look at the flag).                 *)
(***************************************************************************)
EXTENDS Naturals, FiniteSets, FiniteSetsExt

CONSTANTS Sessions,   \* by age: a later session has a greater number
          Pruners,    \* calls of pruneSessions that may run at the same time
          Writes,     \* messages on their way into a session
          Nobody,     \* a write that has resolved no session
          MaxRuns,    \* bound: prunes of each pruner
          MaxCrashes, \* bound: restarts of the host
          CanThrow    \* whether a screen, a transaction or a removal may fail

ASSUME RetentionAssumption ==
  /\ Sessions \in SUBSET Nat /\ IsFiniteSet(Sessions) /\ Nobody \notin Sessions
  /\ MaxRuns \in Nat /\ MaxCrashes \in Nat /\ CanThrow \in BOOLEAN

VARIABLES status,   \* each session's row: "none" (not yet), "active", "closed", "gone"
          folder,   \* sessions that have a folder
          touched,  \* used since the cutoff, as the screen reads it
          held,     \* something in the central database waits on it, or its room is pinned
          spent,    \* closed by whoever finished with it (a spent task series)
          left,     \* history: closed by a run that failed on it or was cut short
          target,   \* the session each write has resolved
          written,  \* how each write ended: "no", "landed", "lost", or cut by a restart
          prunes,   \* the pruners
          runs, crashes

vars == <<status, folder, touched, held, spent, left, target, written, prunes, runs, crashes>>
sessionVars == <<status, folder, touched, held, spent, left>>
writeVars == <<target, written>>

Stages == {"off", "screening", "closing", "grace", "rebuild", "checking", "deleting", "removing"}
\* A prune: where it is, its context (held and continuation, as they were), the
\* sessions still to handle at this stage, the eligible, those it closed, and
\* the session in hand.
Idle == [stage |-> "off", held |-> {}, keep |-> {}, todo |-> {}, eligible |-> {},
         closedHere |-> {}, cur |-> {}]

Active == {s \in Sessions : status[s] = "active"}
Continuation == IF Active = {} THEN {} ELSE {Max(Active)}

TypeOK ==
  /\ status \in [Sessions -> {"none", "active", "closed", "gone"}]
  /\ folder \subseteq Sessions /\ touched \subseteq Sessions
  /\ held \subseteq Sessions /\ spent \subseteq Sessions /\ left \subseteq Sessions
  /\ target \in [Writes -> Sessions \cup {Nobody}]
  /\ written \in [Writes -> {"no", "landed", "lost", "cut"}]
  /\ prunes \in [Pruners -> [stage : Stages, held : SUBSET Sessions, keep : SUBSET Sessions,
                             todo : SUBSET Sessions, eligible : SUBSET Sessions,
                             closedHere : SUBSET Sessions, cur : SUBSET Sessions]]
  /\ runs \in [Pruners -> 0..MaxRuns]
  /\ crashes \in 0..MaxCrashes
  \* The files go after the rows.
  /\ \A s \in Sessions : status[s] \in {"active", "closed"} => s \in folder

\* Any sessions may be there, all of them idle for longer than the limit.
Init ==
  /\ status \in [Sessions -> {"none", "active", "closed"}]
  /\ folder = {s \in Sessions : status[s] # "none"}
  /\ touched = {}
  /\ held = {}
  /\ spent = {s \in Sessions : status[s] = "closed"}
  /\ left = {}
  /\ target = [w \in Writes |-> Nobody]
  /\ written = [w \in Writes |-> "no"]
  /\ prunes = [p \in Pruners |-> Idle]
  /\ runs = [p \in Pruners |-> 0]
  /\ crashes = 0

----------------------------------------------------------------------------
(* The prune. *)

Stage(p) == prunes[p].stage
Prune(p, new) == prunes' = [prunes EXCEPT ![p] = new]
\* What a run has closed and not come back to.
InHand(p) == {s \in prunes[p].closedHere :
                Stage(p) \in {"closing", "grace", "rebuild"} \/ s \in prunes[p].todo \cup prunes[p].cur}

\* pruneSessions builds its context and takes every row.
Start(p) ==
  /\ Stage(p) = "off" /\ runs[p] < MaxRuns
  /\ runs' = [runs EXCEPT ![p] = @ + 1]
  /\ Prune(p, [Idle EXCEPT !.stage = "screening", !.held = held, !.keep = Continuation,
                           !.todo = {s \in Sessions : status[s] \in {"active", "closed"}}])
  /\ UNCHANGED <<sessionVars, writeVars, crashes>>

\* screen: the context as it was built, the session as it is.
MayGo(p, s) == s \notin prunes[p].held \cup prunes[p].keep \cup touched

Screen(p, s) ==
  /\ Stage(p) = "screening" /\ s \in prunes[p].todo
  /\ \E eligible \in {MayGo(p, s)} \cup (IF CanThrow THEN {FALSE} ELSE {}) :
       Prune(p, [prunes[p] EXCEPT !.todo = @ \ {s},
                                  !.eligible = IF eligible THEN @ \cup {s} ELSE @])
  /\ UNCHANGED <<sessionVars, writeVars, runs, crashes>>

Screened(p) ==
  /\ Stage(p) = "screening" /\ prunes[p].todo = {}
  /\ Prune(p, [prunes[p] EXCEPT !.stage = "closing", !.todo = prunes[p].eligible])
  /\ UNCHANGED <<sessionVars, writeVars, runs, crashes>>

\* closeSession: guarded by the row as it was screened.
CloseSession(p, s) ==
  /\ Stage(p) = "closing" /\ s \in prunes[p].todo
  /\ LET closes == status[s] = "active" /\ s \notin touched
     IN  /\ status' = IF closes THEN [status EXCEPT ![s] = "closed"] ELSE status
         /\ Prune(p, [prunes[p] EXCEPT !.todo = @ \ {s},
                                       !.closedHere = IF closes THEN @ \cup {s} ELSE @])
  /\ UNCHANGED <<folder, touched, held, spent, left, writeVars, runs, crashes>>

\* A run that closed nothing does not sleep.
Closed(p) ==
  /\ Stage(p) = "closing" /\ prunes[p].todo = {}
  /\ Prune(p, [prunes[p] EXCEPT !.stage = IF prunes[p].closedHere = {} THEN "rebuild" ELSE "grace"])
  /\ UNCHANGED <<sessionVars, writeVars, runs, crashes>>

\* Faulty variant: no grace period.
NoGrace(p) == TRUE

\* DEFAULT_GRACE_MS is "long enough for any write that resolved a session just
\* before it closed to land".
Landed(p) == \A w \in Writes : written[w] = "no" => target[w] \notin prunes[p].closedHere

GraceEnds(p) ==
  /\ Stage(p) = "grace"
  /\ Landed(p)
  /\ Prune(p, [prunes[p] EXCEPT !.stage = "rebuild"])
  /\ UNCHANGED <<sessionVars, writeVars, runs, crashes>>

\* The second context, once for every session still in the list.
Rebuild(p) ==
  /\ Stage(p) = "rebuild"
  /\ Prune(p, [prunes[p] EXCEPT !.stage = "checking", !.held = held, !.keep = Continuation,
                                !.todo = prunes[p].eligible])
  /\ UNCHANGED <<sessionVars, writeVars, runs, crashes>>

\* Faulty variant: a session kept at the second screen is left as it is.
LeaveClosed(p, s) == status' = status

\* Undo this run's close.
Reopen(p, s) ==
  status' = IF s \in prunes[p].closedHere /\ status[s] = "closed"
              THEN [status EXCEPT ![s] = "active"] ELSE status

\* The row is fetched and screened again: not closed, it is passed over; kept,
\* it goes back to how it was.
Check(p, s) ==
  /\ Stage(p) = "checking" /\ s \in prunes[p].todo
  /\ \/ /\ status[s] # "closed"
        /\ Prune(p, [prunes[p] EXCEPT !.todo = @ \ {s}])
        /\ UNCHANGED status
     \/ /\ status[s] = "closed" /\ ~MayGo(p, s)
        /\ Prune(p, [prunes[p] EXCEPT !.todo = @ \ {s}])
        /\ Reopen(p, s)
     \/ /\ status[s] = "closed" /\ MayGo(p, s)
        /\ Prune(p, [prunes[p] EXCEPT !.stage = "deleting", !.todo = @ \ {s}, !.cur = {s}])
        /\ UNCHANGED status
  /\ UNCHANGED <<folder, touched, held, spent, left, writeVars, runs, crashes>>

\* The second screen is outside the try: the whole prune rejects.
CheckThrows(p) ==
  /\ CanThrow
  /\ Stage(p) = "checking" /\ prunes[p].todo # {}
  /\ Prune(p, Idle)
  /\ left' = left \cup InHand(p)
  /\ UNCHANGED <<status, folder, touched, held, spent, writeVars, runs, crashes>>

\* Faulty variant: the transaction does not ask for an unchanged row.
RowClosed(s) == status[s] = "closed"

\* The row is still closed and no write has bumped it since the screen.
RowUnmoved(s) == status[s] = "closed" /\ s \notin touched

\* Faulty variant: the files go whether or not the rows did.
DeleteRegardless(p, s) ==
  /\ Stage(p) = "deleting" /\ prunes[p].cur = {s}
  /\ status' = IF RowUnmoved(s) THEN [status EXCEPT ![s] = "gone"] ELSE status
  /\ Prune(p, [prunes[p] EXCEPT !.stage = "removing"])
  /\ UNCHANGED <<folder, touched, held, spent, left, writeVars, runs, crashes>>

\* deleteCentralRows: one transaction.
Delete(p, s) ==
  /\ Stage(p) = "deleting" /\ prunes[p].cur = {s}
  /\ IF RowUnmoved(s)
       THEN /\ status' = [status EXCEPT ![s] = "gone"]
            /\ held' = held \ {s}
            /\ Prune(p, [prunes[p] EXCEPT !.stage = "removing"])
       ELSE /\ Reopen(p, s)
            /\ Prune(p, [prunes[p] EXCEPT !.stage = "checking", !.cur = {}])
            /\ UNCHANGED held
  /\ UNCHANGED <<folder, touched, spent, left, writeVars, runs, crashes>>

\* It throws: noted as an error and passed over.
DeleteThrows(p) ==
  /\ CanThrow
  /\ Stage(p) = "deleting"
  /\ Prune(p, [prunes[p] EXCEPT !.stage = "checking", !.cur = {}])
  /\ left' = left \cup (prunes[p].cur \cap prunes[p].closedHere)
  /\ UNCHANGED <<status, folder, touched, held, spent, writeVars, runs, crashes>>

\* The mailbox and the folder go after the rows; a failure is only noted.
Remove(p, s) ==
  /\ Stage(p) = "removing" /\ prunes[p].cur = {s}
  /\ \/ folder' = folder \ {s}
     \/ CanThrow /\ UNCHANGED folder
  /\ Prune(p, [prunes[p] EXCEPT !.stage = "checking", !.cur = {}])
  /\ UNCHANGED <<status, touched, held, spent, left, writeVars, runs, crashes>>

Finish(p) ==
  /\ Stage(p) = "checking" /\ prunes[p].todo = {}
  /\ Prune(p, Idle)
  /\ UNCHANGED <<sessionVars, writeVars, runs, crashes>>

----------------------------------------------------------------------------
(* What goes on meanwhile. *)

\* The router resolves the conversation's session for a message ...
Resolve(w) ==
  /\ written[w] = "no" /\ target[w] = Nobody
  /\ Active # {}
  /\ target' = [target EXCEPT ![w] = Max(Active)]
  /\ UNCHANGED <<sessionVars, written, prunes, runs, crashes>>

\* ... and writes it there, whatever the session has become.
Land(w) ==
  /\ written[w] = "no" /\ target[w] # Nobody
  /\ IF status[target[w]] = "gone"
       THEN written' = [written EXCEPT ![w] = "lost"] /\ UNCHANGED touched
       ELSE written' = [written EXCEPT ![w] = "landed"] /\ touched' = touched \cup {target[w]}
  /\ UNCHANGED <<status, folder, held, spent, left, target, prunes, runs, crashes>>

\* A newer session of the conversation.
Create(s) ==
  /\ status[s] = "none"
  /\ \A t \in Sessions : status[t] # "none" => t < s
  /\ status' = [status EXCEPT ![s] = "active"]
  /\ folder' = folder \cup {s} /\ touched' = touched \cup {s}
  /\ UNCHANGED <<held, spent, left, writeVars, prunes, runs, crashes>>

\* A room is pinned, a question asked or an approval opened ...
Hold(s) ==
  /\ status[s] \in {"active", "closed"} /\ s \notin held
  /\ held' = held \cup {s}
  /\ UNCHANGED <<status, folder, touched, spent, left, writeVars, prunes, runs, crashes>>

\* ... and an answer to it is written to the session by its id.
Answer(s) ==
  /\ s \in held /\ status[s] \in {"active", "closed"}
  /\ held' = held \ {s}
  /\ touched' = touched \cup {s}
  /\ UNCHANGED <<status, folder, spent, left, writeVars, prunes, runs, crashes>>

\* The host stops and starts: prunes and writes under way are gone.
Restart ==
  /\ crashes < MaxCrashes
  /\ crashes' = crashes + 1
  /\ prunes' = [p \in Pruners |-> Idle]
  /\ written' = [w \in Writes |->
                   IF written[w] = "no" /\ target[w] # Nobody THEN "cut" ELSE written[w]]
  /\ left' = left \cup UNION {InHand(p) : p \in Pruners}
  /\ UNCHANGED <<status, folder, touched, held, spent, target, runs>>

----------------------------------------------------------------------------
Next ==
  \/ \E p \in Pruners :
       \/ Start(p) \/ Screened(p) \/ Closed(p) \/ GraceEnds(p) \/ Rebuild(p)
       \/ CheckThrows(p) \/ DeleteThrows(p) \/ Finish(p)
       \/ \E s \in Sessions : Screen(p, s) \/ CloseSession(p, s) \/ Check(p, s)
                              \/ Delete(p, s) \/ Remove(p, s)
  \/ \E w \in Writes : Resolve(w) \/ Land(w)
  \/ \E s \in Sessions : Create(s) \/ Hold(s) \/ Answer(s)
  \/ Restart

Spec == Init /\ [][Next]_vars

----------------------------------------------------------------------------
\* No write that had resolved a session finds it deleted: it closed first, and
\* the grace period let the write land and keep the session.
NothingLost == \A w \in Writes : written[w] # "lost"

\* A prune gives back what it does not delete: a session is closed only because
\* it was spent, because a run that is still on it closed it, or because that
\* run failed on it or was cut short (nothing reopens it then).
GivenBack ==
  \A s \in Sessions :
    (status[s] = "closed" /\ s \notin spent \cup left) => \E p \in Pruners : s \in InHand(p)

\* What is removed had not been used since the limit, and nothing waited on it
\* when the run last looked.
RemovedIdle ==
  [][\A s \in Sessions :
       (status[s] # "gone" /\ status'[s] = "gone") =>
         /\ s \notin touched
         /\ \E p \in Pruners : prunes[p].cur = {s} /\ s \notin prunes[p].held]_vars
============================================================================

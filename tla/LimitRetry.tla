----------------------------- MODULE LimitRetry -----------------------------
(***************************************************************************)
(* "Retry when the limit lifts" of app/src/channels/webchat/limit-retry.ts *)
(* in one room: requests schedule and cancel a re-send of a person's last  *)
(* message, at most one per thread, and a sweep sends those that are due.  *)
(* Every await is a step: requests, sweeps (a slow one overlaps the next), *)
(* deletions of threads and losses of access interleave between them.      *)
(***************************************************************************)
EXTENDS Naturals, FiniteSets

CONSTANTS
    Users, Admins,   \* Admins: canArchiveRoom holds for them
    Notices, Threads, Main, \* Main: MAIN_THREAD, which is never deleted
    ThreadOf,        \* the thread of each notice
    ResetAt,         \* limit_resets_at of each notice
    Typed,           \* <<user, thread>>: the user's message before the notices
    Jitters,         \* what jitter() may return
    Posts, Cancels,  \* bound: requests to schedule, requests to cancel
    Sweeps,          \* bound: sweeps that run at the same time
    MaxNow,          \* bound: the clock
    MaxFails,        \* bound: database calls that fail
    MaxCrashes       \* bound: restarts of the host

ASSUME RetryAssumption ==
    /\ Admins \subseteq Users /\ Main \in Threads
    /\ ThreadOf \in [Notices -> Threads] /\ ResetAt \in [Notices -> Nat]
    /\ Typed \subseteq Users \X Threads /\ Jitters \subseteq Nat
    /\ MaxNow \in Nat /\ MaxFails \in Nat /\ MaxCrashes \in Nat

VARIABLES
    now,
    threads,   \* webchat_threads, and Main
    history,   \* the threads that still have their messages and notices
    access,    \* the users who can reach the room
    rows,      \* webchat_limit_retries
    post, cancel, sweep, del,   \* the calls under way
    fails, crashes,
    shown,     \* what clients were last told of each thread's retry
    made,      \* history: retries that were scheduled
    sent,      \* history: how often each was stored in the transcript
    handed,    \* history: those handed to the router
    ended,     \* history: those cancelled, dropped or superseded
    lost       \* history: those a failed restore or a crash lost

dbVars   == <<threads, history, access, rows>>
callVars == <<post, cancel, sweep, del>>
pastVars == <<made, sent, handed, ended, lost>>
vars     == <<now, dbVars, callVars, fails, crashes, shown, pastVars>>

\* A retry's id is the request that scheduled it.
Row == [id : Posts, user : Users, notice : Notices, at : Nat]
Thread(r) == ThreadOf[r.notice]
Pending(t) == {r \in rows : Thread(r) = t}
None == {}

Init ==
    /\ now = 0 /\ threads = Threads /\ history = Threads /\ access = Users /\ rows = {}
    /\ post = [p \in Posts |-> [pc |-> "idle", row |-> None]]
    /\ cancel = [c \in Cancels |-> [pc |-> "idle", user |-> None, row |-> None]]
    /\ sweep = [s \in Sweeps |-> [pc |-> "idle", due |-> {}, row |-> None, fit |-> {}]]
    /\ del = [t \in Threads |-> 0]
    /\ fails = 0 /\ crashes = 0 /\ shown = [t \in Threads |-> None]
    /\ made = {} /\ sent = [p \in Posts |-> 0] /\ handed = {} /\ ended = {} /\ lost = {}

-----------------------------------------------------------------------------
(* scheduleLimitRetry.  post[p].row is {} or the set of the one retry.     *)

PostStep(p, pc) == post' = [post EXCEPT ![p].pc = pc]

\* The notice, its reset still ahead; jitter() is drawn when the row is built.
PostNotice(p) ==
    /\ post[p].pc = "idle"
    /\ \E u \in Users, n \in Notices, j \in Jitters :
          /\ ThreadOf[n] \in history /\ ResetAt[n] > now
          /\ post' = [post EXCEPT ![p] =
                [pc |-> "asked",
                 row |-> {[id |-> p, user |-> u, notice |-> n, at |-> ResetAt[n] + j]}]]
    /\ UNCHANGED <<now, dbVars, cancel, sweep, del, fails, crashes, shown, pastVars>>

PostPending(p) ==
    /\ post[p].pc = "asked"
    /\ \A r \in post[p].row :
          PostStep(p, IF Pending(Thread(r)) # {} THEN "refused" ELSE "clear")
    /\ UNCHANGED <<now, dbVars, cancel, sweep, del, fails, crashes, shown, pastVars>>

\* The user's last message in the thread before the notice.
PostLast(p) ==
    /\ post[p].pc = "clear"
    /\ \A r \in post[p].row :
          PostStep(p, IF Thread(r) \in history /\ <<r.user, Thread(r)>> \in Typed
                      THEN "ready" ELSE "refused")
    /\ UNCHANGED <<now, dbVars, cancel, sweep, del, fails, crashes, shown, pastVars>>

\* ON CONFLICT (room_id, thread_id) DO NOTHING.
PostInsert(p) ==
    /\ post[p].pc = "ready"
    /\ \A r \in post[p].row :
          IF Pending(Thread(r)) # {}
          THEN PostStep(p, "refused") /\ UNCHANGED <<rows, made>>
          ELSE PostStep(p, "made") /\ rows' = rows \cup {r} /\ made' = made \cup {p}
    /\ UNCHANGED <<now, threads, history, access, cancel, sweep, del, fails, crashes,
                   shown, sent, handed, ended, lost>>

PostAnnounce(p) ==
    /\ post[p].pc = "made"
    /\ shown' = [t \in Threads |-> IF \E r \in post[p].row : Thread(r) = t
                                   THEN post[p].row ELSE shown[t]]
    /\ PostStep(p, "done")
    /\ UNCHANGED <<now, dbVars, cancel, sweep, del, fails, crashes, pastVars>>

PostNext(p) ==
    PostNotice(p) \/ PostPending(p) \/ PostLast(p) \/ PostInsert(p) \/ PostAnnounce(p)

-----------------------------------------------------------------------------
(* cancelLimitRetry.                                                       *)

Hush(r) == shown' = [shown EXCEPT ![Thread(r)] = None]

CancelRead(c) ==
    /\ cancel[c].pc = "idle"
    /\ \E u \in Users, r \in rows :
          cancel' = [cancel EXCEPT ![c] =
                       [pc |-> IF r.user = u THEN "allowed" ELSE "asking",
                        user |-> {u}, row |-> {r}]]
    /\ UNCHANGED <<now, dbVars, post, sweep, del, fails, crashes, shown, pastVars>>

CancelPermit(c) ==
    /\ cancel[c].pc = "asking"
    /\ cancel' = [cancel EXCEPT ![c].pc =
                    IF cancel[c].user \subseteq Admins THEN "allowed" ELSE "refused"]
    /\ UNCHANGED <<now, dbVars, post, sweep, del, fails, crashes, shown, pastVars>>

\* DELETE by id, whatever has become of the row since.
CancelDelete(c) ==
    /\ cancel[c].pc = "allowed"
    /\ cancel' = [cancel EXCEPT ![c].pc = "deleted"]
    /\ \E r \in cancel[c].row :
          LET gone == {q \in rows : q.id = r.id}
          IN  rows' = rows \ gone /\ ended' = ended \cup {q.id : q \in gone}
    /\ UNCHANGED <<now, threads, history, access, post, sweep, del, fails, crashes, shown,
                   made, sent, handed, lost>>

\* Announced, and answered ok.
CancelAnnounce(c) ==
    /\ cancel[c].pc = "deleted"
    /\ cancel' = [cancel EXCEPT ![c].pc = "ok"]
    /\ \E r \in cancel[c].row : Hush(r)
    /\ UNCHANGED <<now, dbVars, post, sweep, del, fails, crashes, pastVars>>

CancelNext(c) ==
    CancelRead(c) \/ CancelPermit(c) \/ CancelDelete(c) \/ CancelAnnounce(c)

-----------------------------------------------------------------------------
(* sendDueLimitRetries.  fit is history: what has held at some moment      *)
(* since the retry was claimed.                                            *)

Fit(r) == (IF Thread(r) \in threads THEN {"thread"} ELSE {})
          \cup (IF r.user \in access THEN {"access"} ELSE {})
Rest(s) == [sweep[s] EXCEPT !.pc = "list", !.row = None, !.fit = {}]

SweepList(s) ==
    /\ sweep[s].pc = "idle"
    /\ \E r \in rows : r.at <= now
    /\ sweep' = [sweep EXCEPT ![s].pc = "list", ![s].due = {r \in rows : r.at <= now}]
    /\ UNCHANGED <<now, dbVars, post, cancel, del, fails, crashes, shown, pastVars>>

\* Faulty variant of SweepClaim: does not look at how many rows it deleted.
SweepClaimBlind(s) ==
    /\ sweep[s].pc = "list"
    /\ \E r \in sweep[s].due :
          /\ \A q \in sweep[s].due : r.at <= q.at
          /\ rows' = rows \ {r}
          /\ sweep' = [sweep EXCEPT ![s] = [pc |-> "claimed", due |-> @.due \ {r},
                                            row |-> {r}, fit |-> Fit(r)]]
    /\ UNCHANGED <<now, threads, history, access, post, cancel, del, fails, crashes, shown,
                   pastVars>>

\* The earliest first; deleting the row claims the retry.
SweepClaim(s) ==
    /\ sweep[s].pc = "list"
    /\ \E r \in sweep[s].due :
          /\ \A q \in sweep[s].due : r.at <= q.at
          /\ rows' = {q \in rows : q.id # r.id}
          /\ sweep' = [sweep EXCEPT ![s] =
                IF \E q \in rows : q.id = r.id
                THEN [pc |-> "claimed", due |-> sweep[s].due \ {r}, row |-> {r}, fit |-> Fit(r)]
                ELSE [sweep[s] EXCEPT !.due = sweep[s].due \ {r}]]
    /\ UNCHANGED <<now, threads, history, access, post, cancel, del, fails, crashes, shown,
                   pastVars>>

SweepEnd(s) ==
    /\ sweep[s].pc = "list" /\ sweep[s].due = {}
    /\ sweep' = [sweep EXCEPT ![s].pc = "idle"]
    /\ UNCHANGED <<now, dbVars, post, cancel, del, fails, crashes, shown, pastVars>>

\* threadExists; a retry whose thread is gone is dropped, and not announced.
SweepThread(s) ==
    /\ sweep[s].pc = "claimed"
    /\ \E r \in sweep[s].row :
          IF Thread(r) \in threads
          THEN sweep' = [sweep EXCEPT ![s].pc = "there"] /\ UNCHANGED ended
          ELSE sweep' = [sweep EXCEPT ![s] = Rest(s)] /\ ended' = ended \cup {r.id}
    /\ UNCHANGED <<now, dbVars, post, cancel, del, fails, crashes, shown, made, sent,
                   handed, lost>>

\* Faulty variant of SweepAccess: access is not checked again.
SweepAccessTrusting(s) ==
    /\ sweep[s].pc = "there"
    /\ sweep' = [sweep EXCEPT ![s].pc = "reachable"]
    /\ UNCHANGED <<now, dbVars, post, cancel, del, fails, crashes, shown, pastVars>>

\* canAccessRoom, checked again at send time.
SweepAccess(s) ==
    /\ sweep[s].pc = "there"
    /\ \E r \in sweep[s].row :
          IF r.user \in access
          THEN sweep' = [sweep EXCEPT ![s].pc = "reachable"] /\ UNCHANGED <<shown, ended>>
          ELSE /\ sweep' = [sweep EXCEPT ![s] = Rest(s)]
               /\ Hush(r) /\ ended' = ended \cup {r.id}
    /\ UNCHANGED <<now, dbVars, post, cancel, del, fails, crashes, made, sent, handed, lost>>

SweepStore(s) ==
    /\ sweep[s].pc = "reachable"
    /\ sweep' = [sweep EXCEPT ![s].pc = "stored"]
    /\ \E r \in sweep[s].row : sent' = [sent EXCEPT ![r.id] = @ + 1]
    /\ UNCHANGED <<now, dbVars, post, cancel, del, fails, crashes, shown, made, handed,
                   ended, lost>>

\* One of the reads, or the store, threw.
SweepThrow(s) ==
    /\ sweep[s].pc \in {"claimed", "there", "reachable"} /\ fails < MaxFails
    /\ sweep' = [sweep EXCEPT ![s].pc = "failed"] /\ fails' = fails + 1
    /\ UNCHANGED <<now, dbVars, post, cancel, del, crashes, shown, pastVars>>

\* Faulty variant of SweepRestore: a retry that failed is not put back.
SweepForget(s) ==
    /\ sweep[s].pc = "failed" /\ sweep' = [sweep EXCEPT ![s] = Rest(s)]
    /\ UNCHANGED <<now, dbVars, post, cancel, del, fails, crashes, shown, pastVars>>

\* restore: put back, unless the thread has scheduled another since.
SweepRestore(s) ==
    /\ sweep[s].pc = "failed" /\ sweep' = [sweep EXCEPT ![s] = Rest(s)]
    /\ \E r \in sweep[s].row :
          IF Pending(Thread(r)) # {}
          THEN UNCHANGED rows /\ ended' = ended \cup {r.id}
          ELSE rows' = rows \cup {r} /\ UNCHANGED ended
    /\ UNCHANGED <<now, threads, history, access, post, cancel, del, fails, crashes, shown,
                   made, sent, handed, lost>>

\* restore itself threw.
SweepRestoreFails(s) ==
    /\ sweep[s].pc = "failed" /\ fails < MaxFails /\ fails' = fails + 1
    /\ sweep' = [sweep EXCEPT ![s] = Rest(s)]
    /\ lost' = lost \cup {r.id : r \in sweep[s].row}
    /\ UNCHANGED <<now, dbVars, post, cancel, del, crashes, shown, made, sent, handed, ended>>

\* Stored: never put back.  Announced, marked read, broadcast.
SweepTell(s) ==
    /\ sweep[s].pc = "stored" /\ sweep' = [sweep EXCEPT ![s].pc = "told"]
    /\ \E r \in sweep[s].row : Hush(r)
    /\ UNCHANGED <<now, dbVars, post, cancel, del, fails, crashes, pastVars>>

\* Handed to the router, unless marking or broadcasting threw.
SweepHand(s) ==
    /\ sweep[s].pc = "told" /\ sweep' = [sweep EXCEPT ![s] = Rest(s)]
    /\ \/ /\ handed' = handed \cup {r.id : r \in sweep[s].row}
          /\ UNCHANGED fails
       \/ fails < MaxFails /\ fails' = fails + 1 /\ UNCHANGED handed
    /\ UNCHANGED <<now, dbVars, post, cancel, del, crashes, shown, made, sent, ended, lost>>

SweepNext(s) ==
    \/ SweepList(s) \/ SweepClaim(s) \/ SweepEnd(s) \/ SweepThread(s) \/ SweepAccess(s)
    \/ SweepStore(s) \/ SweepThrow(s) \/ SweepRestore(s) \/ SweepRestoreFails(s)
    \/ SweepTell(s) \/ SweepHand(s)

-----------------------------------------------------------------------------
(* The rest of the host.                                                   *)

\* deleteWebchatThread: the messages, the thread, then its retry.
DeleteThread(t) ==
    /\ t # Main
    /\ \/ /\ del[t] = 0 /\ t \in threads
          /\ history' = history \ {t} /\ UNCHANGED <<threads, rows, ended>>
       \/ /\ del[t] = 1
          /\ threads' = threads \ {t} /\ UNCHANGED <<history, rows, ended>>
       \/ /\ del[t] = 2
          /\ rows' = rows \ Pending(t)
          /\ ended' = ended \cup {r.id : r \in Pending(t)}
          /\ UNCHANGED <<threads, history>>
    /\ del' = [del EXCEPT ![t] = @ + 1]
    /\ UNCHANGED <<now, access, post, cancel, sweep, fails, crashes, shown, made, sent,
                   handed, lost>>

LoseAccess(u) ==
    /\ u \in access /\ access' = access \ {u}
    /\ UNCHANGED <<now, threads, history, rows, callVars, fails, crashes, shown, pastVars>>

GainAccess(u) ==
    /\ u \notin access /\ access' = access \cup {u}
    /\ sweep' = [s \in Sweeps |->
                    IF \E r \in sweep[s].row : r.user = u
                    THEN [sweep[s] EXCEPT !.fit = @ \cup {"access"}] ELSE sweep[s]]
    /\ UNCHANGED <<now, threads, history, rows, post, cancel, del, fails, crashes, shown,
                   pastVars>>

Tick ==
    /\ now < MaxNow /\ now' = now + 1
    /\ UNCHANGED <<dbVars, callVars, fails, crashes, shown, pastVars>>

\* The sweeps that have claimed p and not yet stored it.
Hand(p) == {s \in Sweeps : /\ sweep[s].pc \in {"claimed", "there", "reachable", "failed"}
                            /\ \E r \in sweep[s].row : r.id = p}

\* The host stops and starts again: the database stays.
Crash ==
    /\ crashes < MaxCrashes /\ crashes' = crashes + 1
    /\ lost' = lost \cup {p \in Posts : Hand(p) # {}}
    /\ post' = [p \in Posts |-> IF post[p].pc = "idle" THEN post[p]
                                ELSE [post[p] EXCEPT !.pc = "dead"]]
    /\ cancel' = [c \in Cancels |-> IF cancel[c].pc = "idle" THEN cancel[c]
                                    ELSE [cancel[c] EXCEPT !.pc = "dead"]]
    /\ sweep' = [s \in Sweeps |-> [pc |-> "idle", due |-> {}, row |-> None, fit |-> {}]]
    /\ del' = [t \in Threads |-> IF del[t] = 3 THEN 3 ELSE 0]
    /\ UNCHANGED <<now, dbVars, fails, shown, made, sent, handed, ended>>

Next ==
    \/ \E p \in Posts : PostNext(p)
    \/ \E c \in Cancels : CancelNext(c)
    \/ \E s \in Sweeps : SweepNext(s)
    \/ \E t \in Threads : DeleteThread(t)
    \/ \E u \in Users : LoseAccess(u) \/ GainAccess(u)
    \/ Tick \/ Crash

Spec == Init /\ [][Next]_vars

\* Timers fire and database calls end.
Fairness == WF_vars(Tick) /\ \A s \in Sweeps : WF_vars(SweepNext(s))
FairSpec == Spec /\ Fairness

-----------------------------------------------------------------------------
PostPcs   == {"idle", "asked", "clear", "ready", "refused", "made", "done", "dead"}
CancelPcs == {"idle", "asking", "allowed", "refused", "deleted", "ok", "dead"}
SweepPcs  == {"idle", "list", "claimed", "there", "reachable", "failed", "stored", "told"}

\* The type invariant of the tables, the calls under way and the history:
\* a call past its first read holds the one row it is about.
TypeOK ==
    /\ now \in Nat /\ fails \in Nat /\ crashes \in Nat
    /\ threads \subseteq Threads /\ history \subseteq Threads /\ access \subseteq Users
    /\ rows \subseteq Row
    /\ post \in [Posts -> [pc : PostPcs, row : SUBSET Row]]
    /\ \A p \in Posts : post[p].pc # "idle" => \E r \in post[p].row : post[p].row = {r} /\ r.id = p
    /\ cancel \in [Cancels -> [pc : CancelPcs, user : SUBSET Users, row : SUBSET Row]]
    /\ \A c \in Cancels : cancel[c].pc # "idle" => \E r \in cancel[c].row : cancel[c].row = {r}
    /\ sweep \in [Sweeps -> [pc : SweepPcs, due : SUBSET Row, row : SUBSET Row,
                             fit : SUBSET {"thread", "access"}]]
    /\ \A s \in Sweeps : sweep[s].pc \notin {"idle", "list"} =>
          \E r \in sweep[s].row : sweep[s].row = {r}
    /\ del \in [Threads -> 0..3]
    /\ shown \in [Threads -> SUBSET Row]
    /\ made \subseteq Posts /\ sent \in [Posts -> Nat]
    /\ handed \subseteq Posts /\ ended \subseteq Posts /\ lost \subseteq Posts

InRows(p) == \E r \in rows : r.id = p

\* Whatever calls, sweeps, failures and crashes interleave, a retry that was
\* scheduled is in exactly one place: pending, claimed by exactly one sweep,
\* sent, exactly once, given up for cause, or lost.  So one whose row a cancel
\* deleted is never sent, and one that failed is not forgotten (the comment of
\* sendDueLimitRetries, limit-retry.ts:221-225).
OnePlace ==
    \A p \in Posts :
        /\ p \in made <=> \/ InRows(p) \/ Hand(p) # {}
                          \/ sent[p] # 0 \/ p \in ended \/ p \in lost
        /\ InRows(p) => Hand(p) = {} /\ sent[p] = 0 /\ p \notin ended /\ p \notin lost
        /\ Hand(p) # {} => sent[p] = 0 /\ p \notin ended /\ p \notin lost
        /\ sent[p] # 0 => sent[p] = 1 /\ p \notin ended /\ p \notin lost
        /\ ~ (p \in ended /\ p \in lost)
        /\ \A s, s2 \in Hand(p) : s = s2

\* A message is stored only if, since its retry was claimed, its thread has been
\* there and its user has been able to reach the room: neither what held when it
\* was scheduled nor when a sweep listed it is enough (limit-retry.ts:10-12).
FitWhenSent ==
    [][\A p \in Posts : sent'[p] # sent[p] =>
          \E s \in Hand(p) : sweep[s].fit = {"thread", "access"}]_vars

\* No retry waits for ever: each that is scheduled leaves the table and the
\* sweeps (a failing one never stops the rest, limit-retry.ts:224-225).
Resolved == \A p \in Posts : p \in made ~> (sent[p] # 0 \/ p \in ended \/ p \in lost)

=============================================================================

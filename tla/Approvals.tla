----------------------------- MODULE Approvals -----------------------------
(* Approval cards: requestApproval and its session-less sibling, the       *)
(* intercept that may approve at once, the fan-out to the approvers, the   *)
(* copy in the agent's room, clicks, the expiry sweep, and the restart of  *)
(* the host. A call is a record with its place; each await is a step.      *)
EXTENDS Naturals, FiniteSets

CONSTANTS Cards,        \* requests, each made once
          Inboxes,      \* approvers' places a card is sent to
          Chats,        \* those of other channels, whose buttons stay live
          Room,         \* the agent's own room
          Clicks, Sweeps,
          MaxCrashes, MaxFails

\* The intercept of a request is a caller of its own, named by the card.
Callers == Clicks \cup Sweeps \cup Cards

ASSUME PlacesApart == Room \notin Inboxes \cup Cards /\ Chats \subseteq Inboxes
ASSUME CallersApart == /\ Clicks \cap Sweeps = {} /\ Clicks \cap Cards = {}
                       /\ Sweeps \cap Cards = {}
ASSUME Bounds == MaxCrashes \in Nat /\ MaxFails \in Nat

VARIABLES
    kind,       \* with a session, or without and then with a handler or not
    row,        \* pending_approvals: the status of each card's row
    inFlight,   \* inFlightApprovals, in memory
    req,        \* how far each request is
    to,         \* approvers it has still to deliver to
    surf,       \* the listener that puts the card in the room
    sent,       \* cards delivered: <<card, inbox>>
    index,      \* webchat_approvals_index: <<card, place>>
    roomCard,   \* the card's message in the room
    call,       \* each caller's place, card, option, and index rows read
    todo,       \* rows a sweep has listed
    old,        \* cards past the TTL
    crashes, fails,
    decided, applied,   \* history: decisions taken, handlers started
    cut,        \* history: cards a restart or a failed delete interrupted
    late        \* history: cards the room got after they were cleared
vars == <<kind, row, inFlight, req, to, surf, sent, index, roomCard, call, todo,
          old, crashes, fails, decided, applied, cut, late>>

cardVars == <<req, to, surf, sent, index, roomCard, late>>
history == <<decided, applied>>
upsets == <<crashes, fails, cut>>

Options == {"approve", "reject"}
Idle == [pc |-> "idle", card |-> Room, opt |-> "reject", seen |-> {}]
Decides(c, opt) == [pc |-> "decide", card |-> c, opt |-> opt, seen |-> {}]
Kinds == {"session", "owned", "unowned"}
WithSession(c) == kind[c] = "session"
Rows == {"none", "pending", "approved", "gone"}

TypeOK ==
    /\ kind \in [Cards -> Kinds]
    /\ row \in [Cards -> Rows]
    /\ inFlight \subseteq Cards
    /\ req \in [Cards -> {"new", "judge", "send", "end"}]
    /\ to \in [Cards -> SUBSET Inboxes]
    /\ surf \in [Cards -> {"no", "store", "index", "end"}]
    /\ sent \subseteq Cards \X Inboxes
    /\ index \subseteq Cards \X (Inboxes \cup {Room})
    /\ roomCard \in [Cards -> {"none", "open", "resolved"}]
    /\ call \in [Callers ->
            [pc : {"idle", "decide", "run", "tell", "clear"},
             card : Cards \cup {Room}, opt : Options,
             seen : SUBSET (Inboxes \cup {Room})]]
    /\ \A k \in Callers : call[k].pc # "idle" => call[k].card \in Cards
    /\ todo \in [Sweeps -> SUBSET Cards]
    /\ old \subseteq Cards
    /\ crashes \in 0..MaxCrashes /\ fails \in 0..MaxFails
    /\ decided \in [Cards -> {"no", "approved", "rejected"}]
    /\ applied \subseteq Cards
    /\ cut \subseteq Cards /\ late \subseteq Cards

Init ==
    /\ kind \in [Cards -> Kinds]
    /\ row = [c \in Cards |-> "none"] /\ inFlight = {}
    /\ req = [c \in Cards |-> "new"] /\ to = [c \in Cards |-> {}]
    /\ surf = [c \in Cards |-> "no"] /\ roomCard = [c \in Cards |-> "none"]
    /\ sent = {} /\ index = {} /\ old = {}
    /\ call = [k \in Callers |-> Idle] /\ todo = [s \in Sweeps |-> {}]
    /\ crashes = 0 /\ fails = 0
    /\ decided = [c \in Cards |-> "no"] /\ applied = {}
    /\ cut = {} /\ late = {}

-----------------------------------------------------------------------------
(* Queries of the row and of the index. Faulty variants come first: plausible *)
(* bugs, used to check that a property can fail, and nowhere else.          *)

\* Faulty variants: one approver who cannot be reached sinks the request; a
\* row nobody got stays; a second decision finds the row and takes it; only
\* pending rows are deleted; the room is forgotten; session-less rows too.
ReachedAll(c) == \A p \in Inboxes : <<c, p>> \in sent
ReachedOrTried(c) == TRUE
StillThere(c) == row[c] \in {"pending", "approved"}
WithoutPending(c) == IF row[c] = "pending" THEN [row EXCEPT ![c] = "gone"] ELSE row
InboxPlaces(c) == {p \in Inboxes : <<c, p>> \in index}
ExpiredOfSessions == {c \in old : row[c] = "pending" /\ WithSession(c)}

Reached(c) == \E p \in Inboxes : <<c, p>> \in sent

\* transitionPendingApprovalStatus and finalizeReject begin with this test.
Undecided(c) == row[c] = "pending"

\* deletePendingApproval
Without(c) == [row EXCEPT ![c] = "gone"]

\* getWebchatApprovalInboxes
Places(c) == {p \in Inboxes \cup {Room} : <<c, p>> \in index}

\* getExpiredPendingApprovals
Expired == {c \in old : row[c] = "pending"}

-----------------------------------------------------------------------------
(* requestApproval, requestSessionlessApproval *)

\* The row is written, then the intercepts are asked.
Request(c) ==
    /\ req[c] = "new"
    /\ row' = [row EXCEPT ![c] = "pending"]
    /\ req' = [req EXCEPT ![c] = IF WithSession(c) THEN "judge" ELSE "send"]
    /\ to' = [to EXCEPT ![c] = Inboxes]
    /\ UNCHANGED <<kind, inFlight, surf, sent, index, roomCard, call, todo, old,
                   upsets, history, late>>

\* The intercept approves: the same path as a click, with the row it read.
JudgeApproves(c) ==
    /\ req[c] = "judge" /\ call[c].pc = "idle"
    /\ call' = [call EXCEPT ![c] = Decides(c, "approve")]
    /\ UNCHANGED <<kind, row, inFlight, cardVars, todo, old, upsets, history>>

\* It leaves the card to a person: listeners are called, the fan-out begins.
Escalate(c) ==
    /\ req[c] = "judge" /\ call[c].pc = "idle"
    /\ req' = [req EXCEPT ![c] = "send"]
    /\ surf' = [surf EXCEPT ![c] = "store"]
    /\ UNCHANGED <<kind, row, inFlight, to, sent, index, roomCard, call, todo, old,
                   upsets, history, late>>

\* One approver gets the card (webchat also indexes it), or the call fails.
Deliver(c, p) ==
    /\ req[c] = "send" /\ p \in to[c]
    /\ to' = [to EXCEPT ![c] = @ \ {p}]
    /\ sent' = sent \cup {<<c, p>>}
    /\ index' = IF p \in Chats THEN index ELSE index \cup {<<c, p>>}
    /\ UNCHANGED <<kind, row, inFlight, req, surf, roomCard, call, todo, old,
                   upsets, history, late>>

DeliverFails(c, p) ==
    /\ req[c] = "send" /\ p \in to[c] /\ fails < MaxFails
    /\ fails' = fails + 1
    /\ to' = [to EXCEPT ![c] = @ \ {p}]
    /\ UNCHANGED <<kind, row, inFlight, req, surf, sent, index, roomCard, call,
                   todo, old, crashes, cut, history, late>>

\* A row nobody was sent is removed.
Sent(c) ==
    /\ req[c] = "send" /\ to[c] = {}
    /\ req' = [req EXCEPT ![c] = "end"]
    /\ row' = IF Reached(c) THEN row ELSE Without(c)
    /\ UNCHANGED <<kind, inFlight, to, surf, sent, index, roomCard, call, todo,
                   old, upsets, history, late>>

\* The room's copy: stored, then indexed; nothing waits for it.
StoreCard(c) ==
    /\ surf[c] = "store"
    /\ surf' = [surf EXCEPT ![c] = "index"]
    /\ roomCard' = [roomCard EXCEPT ![c] = "open"]
    /\ UNCHANGED <<kind, row, inFlight, req, to, sent, index, call, todo, old,
                   upsets, history, late>>

IndexCard(c) ==
    /\ surf[c] = "index"
    /\ surf' = [surf EXCEPT ![c] = "end"]
    /\ index' = index \cup {<<c, Room>>}
    /\ late' = IF \/ row[c] = "gone"
                  \/ \E k \in Callers : call[k].card = c /\ call[k].pc = "clear"
               THEN late \cup {c} ELSE late
    /\ UNCHANGED <<kind, row, inFlight, req, to, sent, roomCard, call, todo, old,
                   upsets, history>>

RequestNext(c) ==
    \/ Request(c) \/ JudgeApproves(c) \/ Escalate(c) \/ Sent(c)
    \/ StoreCard(c) \/ IndexCard(c)
    \/ \E p \in Inboxes : Deliver(c, p) \/ DeliverFails(c, p)

-----------------------------------------------------------------------------
(* Decisions: handleRegisteredApproval, resolveSessionlessApproval *)

Become(k, pc) == call' = [call EXCEPT ![k].pc = pc]
Return(k) == call' = [call EXCEPT ![k] = Idle]
Is(k, pc, opt) == call[k].pc = pc /\ call[k].opt = opt

\* A click: webchat's route asks for a pending row in the approver's inbox,
\* a chat's button only for a row. What was read is old when it is used.
Click(k, c, opt) ==
    /\ call[k].pc = "idle"
    /\ \/ row[c] = "pending" /\ \E p \in Inboxes : <<c, p>> \in index
       \/ row[c] \in {"pending", "approved"} /\ \E p \in Chats : <<c, p>> \in sent
    /\ call' = [call EXCEPT ![k] = Decides(c, opt)]
    /\ UNCHANGED <<kind, row, inFlight, cardVars, todo, old, upsets, history>>

\* The transition, and with it the claim; the loser of the transition returns.
Approve(k) ==
    LET c == call[k].card IN
    /\ Is(k, "decide", "approve") /\ kind[c] # "unowned"
    /\ IF Undecided(c)
       THEN /\ row' = [row EXCEPT ![c] = "approved"]
            /\ inFlight' = IF WithSession(c) THEN inFlight \cup {c}
                                                ELSE inFlight
            /\ decided' = [decided EXCEPT ![c] = "approved"]
            /\ applied' = applied \cup {c}
            /\ Become(k, "run")
       ELSE Return(k) /\ UNCHANGED <<row, inFlight, history>>
    /\ UNCHANGED <<kind, cardVars, todo, old, upsets>>

\* With a session: trunk's finalizeReject claims a pending row and removes it.
Reject(k) ==
    LET c == call[k].card IN
    /\ Is(k, "decide", "reject") /\ WithSession(c)
    /\ IF Undecided(c)
       THEN /\ row' = Without(c)
            /\ decided' = [decided EXCEPT ![c] = "rejected"]
            /\ Become(k, "tell")
       ELSE Return(k) /\ UNCHANGED <<row, decided>>
    /\ UNCHANGED <<kind, inFlight, cardVars, todo, old, upsets, applied>>

\* Without one, a reject goes to the handler whatever the row says by now.
RejectSessionless(k) ==
    LET c == call[k].card IN
    /\ Is(k, "decide", "reject") /\ kind[c] = "owned"
    /\ decided' = [decided EXCEPT ![c] = "rejected"]
    /\ Become(k, "run")
    /\ UNCHANGED <<kind, row, inFlight, cardVars, todo, old, upsets, applied>>

\* An action no module handles: a click drops the row, expiry leaves it.
Unclaimed(k) ==
    LET c == call[k].card IN
    /\ call[k].pc = "decide" /\ kind[c] = "unowned"
    /\ row' = IF k \in Sweeps THEN row ELSE Without(c)
    /\ Return(k)
    /\ UNCHANGED <<kind, inFlight, cardVars, todo, old, upsets, history>>

\* The handler has returned or thrown: the row goes, then the claim.
Release(k) ==
    LET c == call[k].card IN
    /\ call[k].pc = "run"
    /\ row' = Without(c)
    /\ inFlight' = inFlight \ {c}
    /\ IF WithSession(c) THEN Become(k, "tell") ELSE Return(k)
    /\ UNCHANGED <<kind, cardVars, todo, old, upsets, history>>

\* The delete throws: the claim goes, the row stays, nobody is told. The
\* request of an intercept goes on as if nothing had been decided.
ReleaseFails(k) ==
    LET c == call[k].card IN
    /\ call[k].pc = "run" /\ fails < MaxFails
    /\ fails' = fails + 1
    /\ inFlight' = inFlight \ {c}
    /\ cut' = cut \cup {c}
    /\ req' = IF k \in Cards THEN [req EXCEPT ![c] = "send"] ELSE req
    /\ surf' = IF k \in Cards THEN [surf EXCEPT ![c] = "store"] ELSE surf
    /\ Return(k)
    /\ UNCHANGED <<kind, row, to, sent, index, roomCard, late, todo, old, crashes,
                   history>>

\* notifyApprovalResolved: the places that got the card are read, ...
Tell(k) ==
    LET c == call[k].card IN
    /\ call[k].pc = "tell"
    /\ call' = [call EXCEPT ![k] = [@ EXCEPT !.pc = "clear", !.seen = Places(c)]]
    /\ UNCHANGED <<kind, row, inFlight, cardVars, todo, old, upsets, history>>

\* ... cleared one by one, and every index row of the card is dropped. The
\* request of an intercept that approved is over.
Clear(k) ==
    LET c == call[k].card IN
    /\ call[k].pc = "clear"
    /\ roomCard' = IF Room \in call[k].seen
                   THEN [roomCard EXCEPT ![c] = "resolved"] ELSE roomCard
    /\ index' = IF call[k].seen = {} THEN index
                ELSE index \ ({c} \X (Inboxes \cup {Room}))
    /\ req' = IF k \in Cards THEN [req EXCEPT ![c] = "end"] ELSE req
    /\ Return(k)
    /\ UNCHANGED <<kind, row, inFlight, to, surf, sent, late, todo, old, upsets,
                   history>>

Resolve(k) == \/ Approve(k) \/ Reject(k) \/ RejectSessionless(k)
              \/ Unclaimed(k) \/ Release(k) \/ Tell(k) \/ Clear(k)

-----------------------------------------------------------------------------
(* expiry.ts: the sweep lists, then denies one row after the other *)

\* The TTL is hours, a request takes seconds: it is over when its card is old.
Age(c) == /\ req[c] = "end" /\ c \notin old
          /\ old' = old \cup {c}
          /\ UNCHANGED <<kind, row, inFlight, cardVars, call, todo, upsets, history>>

SweepList(s) ==
    /\ call[s].pc = "idle" /\ todo[s] = {}
    /\ Expired # {}
    /\ todo' = [todo EXCEPT ![s] = Expired]
    /\ UNCHANGED <<kind, row, inFlight, cardVars, call, old, upsets, history>>

SweepTake(s) ==
    /\ call[s].pc = "idle"
    /\ \E c \in todo[s] :
         /\ todo' = [todo EXCEPT ![s] = @ \ {c}]
         /\ call' = [call EXCEPT ![s] = Decides(c, "reject")]
    /\ UNCHANGED <<kind, row, inFlight, cardVars, old, upsets, history>>

\* The host stops: what is in memory is gone, and with it every call.
Crash ==
    /\ crashes < MaxCrashes
    /\ crashes' = crashes + 1
    /\ inFlight' = {} /\ call' = [k \in Callers |-> Idle]
    /\ todo' = [s \in Sweeps |-> {}]
    /\ req' = [c \in Cards |-> IF req[c] = "new" THEN "new" ELSE "end"]
    /\ surf' = [c \in Cards |-> IF surf[c] = "no" THEN "no" ELSE "end"]
    /\ cut' = cut \cup {c \in Cards : \/ req[c] \in {"judge", "send"}
                                      \/ surf[c] \in {"store", "index"}
                                      \/ \E k \in Callers : call[k].card = c}
    /\ UNCHANGED <<kind, row, to, sent, index, roomCard, late, old, fails, history>>

SweepNext(s) == SweepList(s) \/ SweepTake(s)
Next == \/ \E c \in Cards : RequestNext(c) \/ Age(c)
        \/ \E k \in Clicks, c \in Cards, opt \in Options : Click(k, c, opt)
        \/ \E k \in Callers : Resolve(k) \/ ReleaseFails(k)
        \/ \E s \in Sweeps : SweepNext(s)
        \/ Crash

Spec == Init /\ [][Next]_vars

\* Rows get old, the sweep is on an interval, awaits end, handlers return.
Fairness == /\ \A c \in Cards : WF_vars(Age(c)) /\ WF_vars(RequestNext(c))
            /\ \A k \in Callers : WF_vars(Resolve(k))
            /\ \A s \in Sweeps : WF_vars(SweepNext(s))
FairSpec == Spec /\ Fairness

-----------------------------------------------------------------------------
(* Properties *)

\* While the handler of an approved card runs, its row is there: an approved
\* command is replayed through the guard, which reads the row again
\* (response-handler: "The row MUST stay live during the handler").
RowLive == \A k \in Callers :
    Is(k, "run", "approve") /\ WithSession(call[k].card)
        => row[call[k].card] = "approved" /\ call[k].card \in inFlight

\* A row that waits for a decision has been sent to someone who can decide it
\* and still can, once its request is over (primitive: it cannot "linger as a
\* pending approval nobody can act on"). A restart in the request is excepted.
Actionable == \A c \in Cards \ cut :
    row[c] = "pending" /\ req[c] = "end" =>
        \E p \in Inboxes : <<c, p>> \in (IF p \in Chats THEN sent ELSE index)

\* A card left open in the room is one that waits or is being decided, or its
\* request reached nobody, or the listener came after the answer.
RoomCardTrue == \A c \in Cards \ (cut \cup late) :
    roomCard[c] = "open" /\ row[c] = "gone" /\ surf[c] = "end" =>
        \/ ~Reached(c)
        \/ \E k \in Callers : call[k].card = c /\ call[k].pc \in {"tell", "clear"}

\* What it all comes to, for cards with a session: one decision, applied once.
Card == INSTANCE OneDecision
        WITH decided <- [c \in Cards |-> IF WithSession(c) THEN decided[c] ELSE "no"],
             applied <- {c \in applied : WithSession(c)}
OneDecisionEach == Card!Spec

\* Who is not answered is denied: a card that waits is decided in the end. One
\* of an action nobody handles is excepted: expiry cannot deny it.
Settles == \A c \in Cards :
    row[c] = "pending" /\ kind[c] # "unowned" ~> row[c] # "pending"

\* What was decided leaves no row behind, unless a restart or a failed delete
\* came between (expiry looks at pending rows only).
Cleaned == \A c \in Cards :
    row[c] = "approved" ~> row[c] = "gone" \/ c \in cut
=============================================================================

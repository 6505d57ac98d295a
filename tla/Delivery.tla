------------------------------ MODULE Delivery -------------------------------
(***************************************************************************)
(* Agent replies on their way into a room (agent-delivery.ts, deliver in   *)
(* index.ts, reconcile.ts).  A container writes a row to its outbox; trunk *)
(* (external) hands each due row to deliver and marks it; a failed call is *)
(* retried with what it had stored remembered by content; a reconcile pass *)
(* stores again a row that is marked delivered and has no message.         *)
(*                                                                         *)
(* A row's content is its session, text and number of attachments: two     *)
(* rows with the same are told apart by neither half of the code.          *)
(***************************************************************************)
EXTENDS Naturals, Sequences, FiniteSets

CONSTANTS
    Rows,        \* outbound rows
    Sessions, Rooms,
    NoRow, NoText, MaxFiles,
    Session,     \* the session that wrote each row
    Home,        \* the room of each session
    Room,        \* the room each row is for
    Contents,    \* what a row may say: [text, or NoText; its attachments]
    MaxTries,    \* calls before trunk gives a row up
    PendingBound,
    Passes,      \* reconcile passes that may overlap
    MaxUpsets    \* bound: restarts of the host and rooms deleted, together

ASSUME DeliveryAssumption ==
    /\ Session \in [Rows -> Sessions] /\ Home \in [Sessions -> Rooms]
    /\ Room \in [Rows -> Rooms] /\ NoRow \notin Rows /\ MaxFiles \in Nat
    /\ IsFiniteSet(Rows) /\ IsFiniteSet(Rooms)
    /\ Contents \subseteq [text : {c.text : c \in Contents}, files : 0..MaxFiles]
    /\ MaxTries \in Nat \ {0} /\ PendingBound \in Nat /\ MaxUpsets \in Nat

VARIABLES
    status,   \* each row: "none", "due", "delivered" or "failed"
    content,  \* of each row, once it is written
    age,      \* and since it was written: "fresh" (in the grace), "recent", "old"
    tries,    \* failed calls of it
    texts,    \* messages with its text in the room
    early,    \* as texts was more than half a minute before a row was written
    files,    \* messages with each of its attachments
    rooms,    \* "there", "going" (its messages are deleted) or "gone"
    pending,  \* part-done deliveries, oldest first: [key, text, files]
    call,     \* each session's deliver: [row, stage, text, files]
    pass,     \* each reconcile pass: [stage, listed, old, todo, settled, row]
    seen,
    missed,   \* history: rows marked while there was no server
    crashes

trunkVars  == <<status, tries>>
storeVars  == <<texts, early, files, rooms>>
rowVars    == <<content, age>>
vars == <<trunkVars, rowVars, storeVars, pending, call, pass, seen, missed, crashes>>

Text(r)  == content[r].text
Files(r) == content[r].files
Key(r)   == <<Session[r], Room[r], Text(r), Files(r)>>
Idle    == [row |-> NoRow, stage |-> "idle", text |-> FALSE, files |-> 0]
Resting == [stage |-> "idle", listed |-> {}, old |-> {}, todo |-> {}, settled |-> {},
            row |-> NoRow]

Init ==
    /\ status = [r \in Rows |-> "none"]
    /\ content = [r \in Rows |-> [text |-> NoText, files |-> 0]] /\ age = [r \in Rows |-> "fresh"]
    /\ tries = [r \in Rows |-> 0]
    /\ texts = [r \in Rows |-> 0] /\ early = [r \in Rows |-> [q \in Rows |-> 0]]
    /\ files = [r \in Rows |-> [i \in 1..MaxFiles |-> 0]]
    /\ rooms = [m \in Rooms |-> "there"]
    /\ pending = <<>> /\ call = [s \in Sessions |-> Idle]
    /\ pass = [p \in Passes |-> Resting]
    /\ seen = {} /\ missed = {} /\ crashes = 0

-----------------------------------------------------------------------------
(* The container and trunk.                                                *)

\* What was stored long before: not of a row that is still tried, whose calls
\* are seconds apart.
Write(r) ==
    /\ status[r] = "none" /\ status' = [status EXCEPT ![r] = "due"]
    /\ \E long \in BOOLEAN : early' = [early EXCEPT ![r] =
         [q \in Rows |-> IF long /\ status[q] # "due" THEN texts[q] ELSE 0]]
    /\ \E c \in Contents : content' = [content EXCEPT ![r] = c]
    /\ UNCHANGED <<age, tries, texts, files, rooms, pending, call, pass, seen, missed, crashes>>

Age(r) ==
    /\ status[r] # "none" /\ age[r] # "old"
    /\ age' = [age EXCEPT ![r] = IF @ = "fresh" THEN "recent" ELSE "old"]
    /\ UNCHANGED <<content, trunkVars, storeVars, pending, call, pass, seen, missed, crashes>>

\* One call at a time of a session.
Deliver(r) ==
    /\ status[r] = "due" /\ call[Session[r]] = Idle
    /\ call' = [call EXCEPT ![Session[r]] = [Idle EXCEPT !.row = r, !.stage = "room"]]
    /\ UNCHANGED <<trunkVars, rowVars, storeVars, pending, pass, seen, missed, crashes>>

\* deliver without a server answers at once, and trunk marks the row.
Miss(r) ==
    /\ status[r] = "due" /\ call[Session[r]] = Idle
    /\ status' = [status EXCEPT ![r] = "delivered"] /\ missed' = missed \cup {r}
    /\ UNCHANGED <<rowVars, tries, storeVars, pending, call, pass, seen, crashes>>

Mark(s) ==
    /\ call[s].stage = "return"
    /\ status' = [status EXCEPT ![call[s].row] = "delivered"]
    /\ call' = [call EXCEPT ![s] = Idle]
    /\ UNCHANGED <<rowVars, tries, storeVars, pending, pass, seen, missed, crashes>>

\* A step of deliver fails; after MaxTries the row is marked failed.
Throw(s) ==
    LET r == call[s].row IN
    /\ call[s].stage \in {"room", "begin", "text", "file"}
    /\ call' = [call EXCEPT ![s] = Idle]
    /\ tries' = [tries EXCEPT ![r] = @ + 1]
    /\ status' = [status EXCEPT ![r] = IF tries[r] + 1 < MaxTries THEN "due" ELSE "failed"]
    /\ UNCHANGED <<rowVars, storeVars, pending, pass, seen, missed, crashes>>

-----------------------------------------------------------------------------
(* deliver and storeAgentDelivery.                                         *)

\* A row for an unknown room is dropped.
LookUp(s) ==
    /\ call[s].stage = "room"
    /\ call' = [call EXCEPT ![s].stage =
                   IF rooms[Room[call[s].row]] = "gone" THEN "return" ELSE "begin"]
    /\ UNCHANGED <<trunkVars, rowVars, storeVars, pending, pass, seen, missed, crashes>>

Places(k) == {i \in 1..Len(pending) : pending[i].key = k}

\* A part-done delivery no row of which trunk still tries.
GivenUp(p) == \A r \in Rows : Key(r) = p.key => status[r] # "due"

\* prune: the aged ones are at the front; over the bound, the oldest go too.
Pruned ==
    {SubSeq(pending, n + 1, Len(pending)) :
       n \in {m \in 0..Len(pending) :
                /\ Len(pending) - m <= PendingBound
                /\ \A i \in 1..m : i <= Len(pending) - PendingBound \/ GivenUp(pending[i])}}

\* Faulty variant of Proceed: the entry stays when all is stored.
ProceedKeeping(s, c, p) ==
    LET r     == c.row
        stage == IF Text(r) # NoText /\ ~c.text THEN "text"
                 ELSE IF c.files < Files(r) THEN "file" ELSE "return"
        entry == [key |-> Key(r), text |-> c.text, files |-> c.files]
    IN  /\ call' = [call EXCEPT ![s] = [c EXCEPT !.stage = stage]]
        /\ pending' = [i \in DOMAIN p |-> IF p[i].key = Key(r) THEN entry ELSE p[i]]

\* pending.delete: of an entry there may no longer be.
Without(p, k) ==
    IF \A i \in DOMAIN p : p[i].key # k THEN p
    ELSE LET i == CHOOSE i \in DOMAIN p : p[i].key = k
         IN  SubSeq(p, 1, i - 1) \o SubSeq(p, i + 1, Len(p))

\* The call goes on with what is left to store; with nothing left the entry goes.
Proceed(s, c, p) ==
    LET r     == c.row
        stage == IF Text(r) # NoText /\ ~c.text THEN "text"
                 ELSE IF c.files < Files(r) THEN "file" ELSE "return"
        entry == [key |-> Key(r), text |-> c.text, files |-> c.files]
    IN  /\ call' = [call EXCEPT ![s] = [c EXCEPT !.stage = stage]]
        /\ pending' = IF stage = "return" THEN Without(p, Key(r))
                      ELSE [i \in DOMAIN p |-> IF p[i].key = Key(r) THEN entry ELSE p[i]]

\* Faulty variant of Begin: a retry starts anew.
BeginAnew(s) ==
    LET r == call[s].row IN
    /\ call[s].stage = "begin"
    /\ \E p \in Pruned :
         Proceed(s, call[s], Append(p, [key |-> Key(r), text |-> FALSE, files |-> 0]))
    /\ UNCHANGED <<trunkVars, rowVars, storeVars, pass, seen, missed, crashes>>

\* Up to the first store: prune, and take up an entry or add one.
Begin(s) ==
    LET r == call[s].row IN
    /\ call[s].stage = "begin"
    /\ \E p \in Pruned :
         IF \E i \in DOMAIN p : p[i].key = Key(r)
         THEN LET e == CHOOSE e \in {p[i] : i \in DOMAIN p} : e.key = Key(r)
              IN  Proceed(s, [call[s] EXCEPT !.text = e.text, !.files = e.files], p)
         ELSE Proceed(s, call[s], Append(p, [key |-> Key(r), text |-> FALSE, files |-> 0]))
    /\ UNCHANGED <<trunkVars, rowVars, storeVars, pass, seen, missed, crashes>>

StoreText(s) ==
    /\ call[s].stage = "text"
    /\ texts' = [texts EXCEPT ![call[s].row] = @ + 1]
    /\ Proceed(s, [call[s] EXCEPT !.text = TRUE], pending)
    /\ UNCHANGED <<trunkVars, rowVars, early, files, rooms, pass, seen, missed, crashes>>

\* Faulty variant of StoreFile: counts an attachment that was not stored.
StoreFileMaybe(s) ==
    LET c == call[s] IN
    /\ c.stage = "file"
    /\ \/ files' = [files EXCEPT ![c.row][c.files + 1] = @ + 1]
       \/ UNCHANGED files
    /\ Proceed(s, [c EXCEPT !.files = @ + 1], pending)
    /\ UNCHANGED <<trunkVars, rowVars, texts, early, rooms, pass, seen, missed, crashes>>

StoreFile(s) ==
    LET c == call[s] IN
    /\ c.stage = "file"
    /\ files' = [files EXCEPT ![c.row][c.files + 1] = @ + 1]
    /\ Proceed(s, [c EXCEPT !.files = @ + 1], pending)
    /\ UNCHANGED <<trunkVars, rowVars, texts, early, rooms, pass, seen, missed, crashes>>

-----------------------------------------------------------------------------
(* deleteWebchatRoom: the messages first, the room itself last.            *)

Upsets == crashes + Cardinality({m \in Rooms : rooms[m] # "there"})

DropMessages(m) ==
    /\ rooms[m] = "there" /\ Upsets < MaxUpsets /\ rooms' = [rooms EXCEPT ![m] = "going"]
    /\ texts' = [r \in Rows |-> IF Room[r] = m THEN 0 ELSE texts[r]]
    /\ early' = [r \in Rows |-> [q \in Rows |-> IF Room[q] = m THEN 0 ELSE early[r][q]]]
    /\ files' = [r \in Rows |-> IF Room[r] = m THEN [i \in 1..MaxFiles |-> 0] ELSE files[r]]
    /\ UNCHANGED <<trunkVars, rowVars, pending, call, pass, seen, missed, crashes>>

DropRoom(m) ==
    /\ rooms[m] = "going" /\ rooms' = [rooms EXCEPT ![m] = "gone"]
    /\ UNCHANGED <<trunkVars, rowVars, texts, early, files, pending, call, pass, seen, missed, crashes>>

-----------------------------------------------------------------------------
(* reconcileOnce.                                                          *)

passOnly == <<trunkVars, rowVars, early, rooms, files, pending, call, missed, crashes>>

\* The sessions of the rooms there are, and the cutoff.
PassList(p) ==
    /\ pass[p].stage = "idle"
    /\ pass' = [pass EXCEPT ![p] =
                  [Resting EXCEPT !.stage = "sessions",
                      !.listed = {s \in Sessions : rooms[Home[s]] # "gone"},
                      !.old = {r \in Rows : age[r] = "old"}]]
    /\ UNCHANGED <<passOnly, texts, seen>>

\* Faulty variant of PassRead: second-guesses a delivery trunk has not finished.
PassReadAll(p) ==
    /\ pass[p].stage = "sessions"
    /\ \E s \in pass[p].listed :
         LET rows == {r \in Rows \ pass[p].old : Session[r] = s /\ status[r] # "none"} IN
         pass' = [pass EXCEPT ![p] =
                    [pass[p] EXCEPT !.stage = "rows", !.listed = @ \ {s}, !.todo = rows,
                                    !.settled = rows]]
    /\ UNCHANGED <<passOnly, texts, seen>>

\* A session's recent rows, and those of them trunk has marked delivered.
PassRead(p) ==
    /\ pass[p].stage = "sessions"
    /\ \E s \in pass[p].listed :
         LET rows == {r \in Rows \ pass[p].old : Session[r] = s /\ status[r] # "none"} IN
         pass' = [pass EXCEPT ![p] =
                    [pass[p] EXCEPT !.stage = "rows", !.listed = @ \ {s}, !.todo = rows,
                                    !.settled = {r \in rows : status[r] = "delivered"}]]
    /\ UNCHANGED <<passOnly, texts, seen>>

\* One row: passed over, with nothing to look for, or looked for.
PassRow(p) ==
    /\ pass[p].stage = "rows"
    /\ \E r \in pass[p].todo :
         LET skip == r \in seen \/ age[r] = "fresh" \/ r \notin pass[p].settled
             next == [pass[p] EXCEPT !.todo = @ \ {r}]
         IN  /\ seen' = IF ~skip /\ Text(r) = NoText THEN seen \cup {r} ELSE seen
             /\ pass' = [pass EXCEPT ![p] =
                           IF skip \/ Text(r) = NoText THEN next
                           ELSE [next EXCEPT !.stage = "probe", !.row = r]]
    /\ UNCHANGED <<passOnly, texts>>

\* findStoredAgentMessage, by the room, the text and the time.
Found(r) ==
    \E q \in Rows : Room[q] = Room[r] /\ Text(q) = Text(r) /\ texts[q] > early[r][q]

Probe(p) ==
    LET r == pass[p].row IN
    /\ pass[p].stage = "probe"
    /\ seen' = IF Found(r) THEN seen \cup {r} ELSE seen
    /\ pass' = [pass EXCEPT ![p] = IF Found(r) THEN [@ EXCEPT !.stage = "rows", !.row = NoRow]
                                   ELSE [@ EXCEPT !.stage = "store"]]
    /\ UNCHANGED <<passOnly, texts>>

\* Faulty variant of Replay: the row is seen although its store failed.
ReplaySeen(p) ==
    LET r == pass[p].row IN
    /\ pass[p].stage = "store"
    /\ texts' = [texts EXCEPT ![r] = @ + 1] \/ UNCHANGED texts
    /\ seen' = seen \cup {r}
    /\ pass' = [pass EXCEPT ![p] = [@ EXCEPT !.stage = "rows", !.row = NoRow]]
    /\ UNCHANGED passOnly

\* The replay's store; one that fails is for the next pass.
Replay(p) ==
    LET r == pass[p].row IN
    /\ pass[p].stage = "store"
    /\ \/ texts' = [texts EXCEPT ![r] = @ + 1] /\ seen' = seen \cup {r}
       \/ UNCHANGED <<texts, seen>>
    /\ pass' = [pass EXCEPT ![p] = [@ EXCEPT !.stage = "rows", !.row = NoRow]]
    /\ UNCHANGED passOnly

\* Done with a session, or with all; a probe that throws ends the pass.
PassNext(p) ==
    /\ \/ /\ pass[p].stage = "rows" /\ pass[p].todo = {}
          /\ pass' = [pass EXCEPT ![p].stage = "sessions"]
       \/ /\ \/ pass[p].stage = "sessions" /\ pass[p].listed = {}
             \/ pass[p].stage = "probe"
          /\ pass' = [pass EXCEPT ![p] = Resting]
    /\ UNCHANGED <<passOnly, texts, seen>>

\* The host restarts: what it remembered goes.
Crash ==
    /\ Upsets < MaxUpsets /\ crashes' = crashes + 1
    /\ tries' = [r \in Rows |-> 0] /\ pending' = <<>>
    /\ call' = [s \in Sessions |-> Idle] /\ pass' = [p \in Passes |-> Resting]
    /\ seen' = {}
    /\ UNCHANGED <<status, rowVars, storeVars, missed>>

Next ==
    \/ \E r \in Rows : Write(r) \/ Age(r) \/ Deliver(r) \/ Miss(r)
    \/ \E s \in Sessions : \/ LookUp(s) \/ Begin(s) \/ StoreText(s) \/ StoreFile(s)
                           \/ Throw(s) \/ Mark(s)
    \/ \E m \in Rooms : DropMessages(m) \/ DropRoom(m)
    \/ \E p \in Passes : \/ PassList(p) \/ PassRead(p) \/ PassRow(p) \/ Probe(p)
                         \/ Replay(p) \/ PassNext(p)
    \/ Crash

Spec == Init /\ [][Next]_vars

-----------------------------------------------------------------------------
\* The type invariant of rows, messages, calls and passes.
TypeOK ==
    /\ status \in [Rows -> {"none", "due", "delivered", "failed"}]
    /\ content \in [Rows -> [text : {c.text : c \in Contents} \cup {NoText}, files : 0..MaxFiles]]
    /\ age \in [Rows -> {"fresh", "recent", "old"}] /\ tries \in [Rows -> 0..MaxTries]
    /\ texts \in [Rows -> Nat] /\ early \in [Rows -> [Rows -> Nat]]
    /\ files \in [Rows -> [1..MaxFiles -> Nat]]
    /\ rooms \in [Rooms -> {"there", "going", "gone"}]
    /\ \A i \in DOMAIN pending : /\ \E r \in Rows : pending[i].key = Key(r)
                                 /\ Places(pending[i].key) = {i}
    /\ \A s \in Sessions :
         /\ call[s].stage \in {"idle", "room", "begin", "text", "file", "return"}
         /\ call[s].stage # "idle" => Session[call[s].row] = s /\ status[call[s].row] = "due"
    /\ \A p \in Passes : /\ pass[p].stage \in {"idle", "sessions", "rows", "probe", "store"}
                         /\ pass[p].todo \cup pass[p].settled \cup pass[p].old \subseteq Rows
    /\ seen \cup missed \subseteq Rows /\ crashes \in 0..MaxUpsets

There(r) == rooms[Room[r]] = "there"
Alike(r) == {q \in Rows : status[q] # "none" /\ Key(q) = Key(r)}

\* The messages with a part of some rows: the text (0) or an attachment.
Part(i) == [q \in Rows |-> IF i = 0 THEN texts[q] ELSE files[q][i]]
Messages(rows, stored) == UNION {{q} \X (1..stored[q]) : q \in rows}
Copies(r, i) == Cardinality(Messages(Alike(r), Part(i)))

\* Only a restart makes a delivery store its text, or an attachment, again:
\* not a retry, not a replay (agent-delivery.ts:1-9, reconcile.ts:101-104).
\* Rows of the same content are counted together.
RetrySafe ==
    \A r \in Rows : \A i \in 0..Files(r) :
        Copies(r, i) <= Cardinality(Alike(r)) + crashes

\* A row marked delivered by deliver is in the room with all it has, also when
\* its attachments took several calls (index.ts:240-340).  Rows of the same
\* content are in NeverLost.
Complete ==
    \A r \in Rows :
        status[r] = "delivered" /\ r \notin missed /\ There(r) /\ Alike(r) = {r}
          => /\ Text(r) # NoText => texts[r] > 0
             /\ \A i \in 1..Files(r) : files[r][i] > 0

\* A row reconcile will not look at again has its message (reconcile.ts:1-8),
\* if no other row says the same in the room: the probe tells them apart by
\* room, text and time only (reconcile.ts:232-250).
SeenStoredAlone ==
    \A r \in seen :
        /\ There(r) /\ Text(r) # NoText
        /\ \A q \in Rows : Room[q] = Room[r] /\ Text(q) = Text(r) => q = r
        => texts[r] > 0

\* Of the rows of one content, as many texts are stored as are marked delivered
\* (delivery-ledger.md:3-5).
NeverLost ==
    \A r \in Rows :
        LET done == {q \in Alike(r) : status[q] = "delivered" /\ q \notin missed /\ There(q)}
        IN  Text(r) # NoText => Copies(r, 0) >= Cardinality(done)

=============================================================================

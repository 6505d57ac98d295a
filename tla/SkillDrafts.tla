---------------------------- MODULE SkillDrafts ----------------------------
(* Drafts of skills an agent has learned: proposed, discarded and restored,  *)
(* expired, and kept: at once, after a review of overlaps, or by auto-keep.  *)
(* Handlers wait at every query, so those of several people, of proposals   *)
(* and of the expiry sweep interleave; the host may stop. What a body says   *)
(* is left out, and so are edits of it. One agent.                           *)
EXTENDS Naturals

CONSTANTS MaxDrafts,   \* proposals
          NameOf,      \* the skill each names
          Slots,       \* handlers at a time, numbered
          MaxCrashes,
          None

Drafts == 1..MaxDrafts

ASSUME DraftBounds == MaxDrafts \in Nat /\ MaxCrashes \in Nat /\ Slots \subseteq Nat
ASSUME NamesGiven == DOMAIN NameOf = Drafts
ASSUME NoneApart == None \notin Drafts /\ None \notin {"pending", "discarded", "kept"}

VARIABLES
    made,       \* proposals so far
    row,        \* skill_drafts: a draft's status, None when there is no row
    staged,     \* drafts with a body on disk
    card,       \* what the draft's card in its room shows
    notes, posts,  \* cards to be flipped, and stored, in the background
    task,       \* the handler in each slot
    jobs,       \* keepReviewJobs
    crashes,
    kept, gone, \* history: written as skills; superseded, expired or never in
    raced,      \* history: discarded while a keep of them was under way
    crossed     \* history: cards shown pending after their draft had gone
vars == <<made, row, staged, card, notes, posts, task, jobs, crashes, kept, gone,
          raced, crossed>>

table == <<made, row, staged>>
cards == <<card, notes, posts, crossed>>

Idle == [pc |-> "idle", d |-> None, by |-> None, list |-> {}, out |-> None]
Pcs == {"idle", "fetch", "judge", "write", "delete", "discard", "restore", "clear",
        "row", "sweep", "flip"}

TypeOK ==
    /\ made \in 0..MaxDrafts
    /\ row \in [Drafts -> {None, "pending", "discarded"}]
    /\ staged \subseteq Drafts
    /\ card \in [Drafts -> {None, "pending", "discarded", "kept"}]
    /\ notes \subseteq Drafts \X {"kept", "discarded"} /\ posts \subseteq Drafts
    /\ task \in [Slots -> [pc : Pcs, d : Drafts \cup {None},
                           by : {None, "person", "review", "auto", "sweep"},
                           list : SUBSET Drafts,
                           out : {None, "pending", "discarded", "kept"}]]
    /\ jobs \subseteq Drafts
    /\ crashes \in 0..MaxCrashes
    /\ kept \subseteq Drafts /\ gone \subseteq Drafts
    /\ raced \subseteq Drafts /\ crossed \subseteq Drafts

Init ==
    /\ made = 0
    /\ row = [d \in Drafts |-> None] /\ staged = {}
    /\ card = [d \in Drafts |-> None] /\ notes = {} /\ posts = {}
    /\ task = [s \in Slots |-> Idle] /\ jobs = {} /\ crashes = 0
    /\ kept = {} /\ gone = {} /\ raced = {} /\ crossed = {}

-----------------------------------------------------------------------------
\* A handler begins in the first free slot.
Start(s, t) == /\ task[s] = Idle /\ \A x \in Slots : task[x] = Idle => s <= x
               /\ task' = [task EXCEPT ![s] = t]
At(s, pc) == task[s].pc = pc
Go(s, pc) == task' = [task EXCEPT ![s].pc = pc]
End(s) == task' = [task EXCEPT ![s] = Idle]
ThenFlip(s, what) == task' = [task EXCEPT ![s] = [@ EXCEPT !.pc = "flip", !.out = what]]

Pending == {d \in Drafts : row[d] = "pending"}
Proposing(s) == task[s].pc \in {"clear", "row"}
Keeping(d) == \E s \in Slots : /\ task[s].d = d
                               /\ task[s].pc \in {"fetch", "judge", "write"}

\* Faulty variants: plausible bugs, used to check that a property can fail,
\* and nowhere else. Keep asks for a row only; a superseded draft's card is not
\* told.
AnyRow == {d \in Drafts : row[d] # None}
Untold(p) == notes

-----------------------------------------------------------------------------
(* What handlers look at before they first wait *)

\* The keep routes go on for a pending draft.
Keepable == Pending

\* Keep anyway, or update the skill chosen: no review.
Keep(s, d) ==
    /\ d \in Keepable
    /\ Start(s, [Idle EXCEPT !.pc = "write", !.d = d, !.by = "person"])
    /\ UNCHANGED <<table, cards, jobs, crashes, kept, gone, raced>>

\* Keep: one review of a draft at a time.
Review(s, d) ==
    /\ d \in Keepable \ jobs
    /\ Start(s, [Idle EXCEPT !.pc = "fetch", !.d = d, !.by = "review"])
    /\ jobs' = jobs \cup {d}
    /\ UNCHANGED <<table, cards, crashes, kept, gone, raced>>

\* Discard a pending draft, restore a discarded one.
Ask(s, d) ==
    /\ row[d] # None
    /\ Start(s, [Idle EXCEPT !.pc = IF d \in Pending THEN "discard" ELSE "restore",
                             !.d = d, !.by = "person"])
    /\ UNCHANGED <<table, cards, jobs, crashes, kept, gone, raced>>

\* propose_skill: the pending drafts of the name, which it supersedes.
Propose(s) ==
    /\ made < MaxDrafts
    /\ made' = made + 1
    /\ Start(s, [Idle EXCEPT !.pc = "clear", !.d = made', !.by = "auto",
                    !.list = {p \in Pending : NameOf[p] = NameOf[made']}])
    /\ UNCHANGED <<row, staged, cards, jobs, crashes, kept, gone, raced>>

\* The expiry sweep: the pending drafts.
Sweep(s) ==
    /\ Start(s, [Idle EXCEPT !.pc = "sweep", !.by = "sweep", !.list = Pending])
    /\ UNCHANGED <<table, cards, jobs, crashes, kept, gone, raced>>

-----------------------------------------------------------------------------
(* Keeping *)

\* A review is through, whatever came of it.
JobDone(s) == IF task[s].by = "review" THEN jobs \ {task[s].d} ELSE jobs
GiveUp(s) == End(s) /\ jobs' = JobDone(s)

\* The draft is fetched again: a review wants it pending, auto-keep there.
Fetch(s) ==
    /\ At(s, "fetch")
    /\ IF task[s].d \in Pending \/ (task[s].by = "auto" /\ row[task[s].d] # None)
       THEN Go(s, "judge") /\ jobs' = jobs
       ELSE GiveUp(s)
    /\ UNCHANGED <<table, cards, crashes, kept, gone, raced>>

\* findKeepOverlaps: none, or none found because it failed; overlaps leave the
\* draft to a person.
Judge(s) ==
    /\ At(s, "judge")
    /\ (Go(s, "write") /\ jobs' = jobs) \/ GiveUp(s)
    /\ UNCHANGED <<table, cards, crashes, kept, gone, raced>>

\* applySkillDraft refuses: no body, or not one that may be written.
Refused(s) == GiveUp(s)
Refuse(s) ==
    /\ At(s, "write")
    /\ Refused(s)
    /\ UNCHANGED <<table, cards, crashes, kept, gone, raced>>

\* applySkillDraft up to its first query.
Write(s) ==
    /\ At(s, "write") /\ task[s].d \in staged
    /\ kept' = kept \cup {task[s].d}
    /\ Go(s, "delete")
    /\ UNCHANGED <<table, cards, jobs, crashes, gone, raced>>

\* resolveSkillDraft: the row, whatever its status, and with it the body.
Resolve(d) ==
    /\ row' = [row EXCEPT ![d] = None]
    /\ staged' = IF row[d] = None THEN staged ELSE staged \ {d}

\* The draft is resolved, whatever became of it, and its card told.
Delete(s) ==
    LET d == task[s].d IN
    /\ At(s, "delete")
    /\ Resolve(d)
    /\ IF task[s].by = "auto" THEN End(s) /\ notes' = notes \cup {<<d, "kept">>}
                              ELSE ThenFlip(s, "kept") /\ notes' = notes
    /\ UNCHANGED <<made, card, posts, crossed, jobs, crashes, kept, gone, raced>>

-----------------------------------------------------------------------------
(* Discard and restore, proposals, expiry, cards *)

\* discardSkillDraftSoft
Discard(s) ==
    LET d == task[s].d IN
    /\ At(s, "discard")
    /\ IF d \in Pending
       THEN /\ row' = [row EXCEPT ![d] = "discarded"]
            /\ raced' = IF Keeping(d) THEN raced \cup {d} ELSE raced \ {d}
            /\ ThenFlip(s, "discarded")
       ELSE End(s) /\ UNCHANGED <<row, raced>>
    /\ UNCHANGED <<made, staged, cards, jobs, crashes, kept, gone>>

\* restoreSkillDraft
Restore(s) ==
    LET d == task[s].d IN
    /\ At(s, "restore")
    /\ IF row[d] = "discarded"
       THEN row' = [row EXCEPT ![d] = "pending"] /\ ThenFlip(s, "pending")
       ELSE row' = row /\ End(s)
    /\ UNCHANGED <<made, staged, cards, jobs, crashes, kept, gone, raced>>

\* A prior draft is superseded, and its card told in any case.
Told(p) == notes \cup {<<p, "discarded">>}
Supersede(s, p) ==
    /\ At(s, "clear") /\ p \in task[s].list
    /\ Resolve(p)
    /\ gone' = IF row[p] = None THEN gone ELSE gone \cup {p}
    /\ notes' = Told(p)
    /\ task' = [task EXCEPT ![s].list = @ \ {p}]
    /\ UNCHANGED <<made, card, posts, crossed, jobs, crashes, kept, raced>>

\* createSkillDraft: the body, then the row; the card is on its way. Then, where
\* it is on, auto-keep.
Stage(s) ==
    /\ At(s, "clear") /\ task[s].list = {}
    /\ staged' = staged \cup {task[s].d}
    /\ Go(s, "row")
    /\ UNCHANGED <<made, row, cards, jobs, crashes, kept, gone, raced>>
Insert(s) ==
    /\ At(s, "row")
    /\ row' = [row EXCEPT ![task[s].d] = "pending"]
    /\ posts' = posts \cup {task[s].d}
    /\ Go(s, "fetch") \/ End(s)
    /\ UNCHANGED <<made, staged, card, notes, crossed, jobs, crashes, kept, gone, raced>>

\* Too young, or still in view in its room; or not, and expired.
Spare(s, d) ==
    /\ At(s, "sweep") /\ d \in task[s].list
    /\ task' = [task EXCEPT ![s].list = @ \ {d}]
    /\ UNCHANGED <<table, cards, jobs, crashes, kept, gone, raced>>
Expire(s, d) ==
    /\ At(s, "sweep") /\ d \in task[s].list
    /\ Resolve(d)
    /\ gone' = IF row[d] = None THEN gone ELSE gone \cup {d}
    /\ task' = IF row[d] = None THEN [task EXCEPT ![s].list = @ \ {d}]
               ELSE [task EXCEPT ![s] = [task[s] EXCEPT !.list = @ \ {d}, !.pc = "flip",
                                                       !.d = d, !.out = "discarded"]]
    /\ UNCHANGED <<made, cards, jobs, crashes, kept, raced>>
Swept(s) ==
    /\ At(s, "sweep") /\ task[s].list = {}
    /\ End(s)
    /\ UNCHANGED <<table, cards, jobs, crashes, kept, gone, raced>>

\* markRoomSkillDraftResolved, if there is a card.
Show(d, what) ==
    /\ card' = IF card[d] = None THEN card ELSE [card EXCEPT ![d] = what]
    /\ crossed' = IF what = "pending" /\ row[d] = None THEN crossed \cup {d} ELSE crossed

Flip(s) ==
    /\ At(s, "flip")
    /\ Show(task[s].d, task[s].out)
    /\ IF task[s].by = "sweep"
       THEN /\ task' = [task EXCEPT ![s] = [task[s] EXCEPT !.pc = "sweep", !.d = None, !.out = None]]
            /\ jobs' = jobs
       ELSE GiveUp(s)
    /\ UNCHANGED <<table, notes, posts, crashes, kept, gone, raced>>

Note(m) ==
    /\ m \in notes
    /\ notes' = notes \ {m}
    /\ Show(m[1], m[2])
    /\ UNCHANGED <<table, posts, task, jobs, crashes, kept, gone, raced>>

\* The card is stored, as pending.
Post(d) ==
    /\ d \in posts
    /\ posts' = posts \ {d}
    /\ card' = [card EXCEPT ![d] = "pending"]
    /\ crossed' = IF row[d] = None THEN crossed \cup {d} ELSE crossed
    /\ UNCHANGED <<table, notes, task, jobs, crashes, kept, gone, raced>>

\* The host stops: what was under way is not taken up again.
Crash ==
    /\ crashes < MaxCrashes /\ crashes' = crashes + 1
    /\ task' = [s \in Slots |-> Idle]
    /\ jobs' = {} /\ notes' = {} /\ posts' = {}
    /\ gone' = gone \cup {task[s].d : s \in {x \in Slots : Proposing(x)}}
    /\ crossed' = crossed \cup {d \in Drafts : row[d] = None /\ card[d] = "pending"}
    /\ UNCHANGED <<table, card, kept, raced>>

Step(s) ==
    \/ Fetch(s) \/ Judge(s) \/ Refuse(s) \/ Write(s) \/ Delete(s)
    \/ Discard(s) \/ Restore(s) \/ Stage(s) \/ Insert(s) \/ Swept(s) \/ Flip(s)
    \/ \E d \in Drafts : Supersede(s, d) \/ Spare(s, d) \/ Expire(s, d)

Next ==
    \/ \E s \in Slots, d \in Drafts : Keep(s, d) \/ Review(s, d) \/ Ask(s, d)
    \/ \E s \in Slots : Propose(s) \/ Sweep(s) \/ Step(s)
    \/ \E m \in notes : Note(m)
    \/ \E d \in posts : Post(d)
    \/ Crash

Spec == Init /\ [][Next]_vars

-----------------------------------------------------------------------------
(* Properties *)

\* A draft that has no row any more was kept, superseded or expired: a keep
\* that fails, or finds overlaps, leaves it to a person.
Accounted == \A d \in 1..made :
    row[d] # None \/ d \in kept \cup gone \/ \E s \in Slots : task[s].d = d /\ Proposing(s)

\* A discarded draft is not kept, unless a keep was already under way when it
\* was discarded.
DiscardStands ==
    [][\A s \in Slots : At(s, "write") /\ task'[s].pc = "delete"
          /\ row[task[s].d] = "discarded" => task[s].d \in raced]_vars

\* No "dangling actionable buttons for a draft that no longer exists", once
\* all is quiet; excepted are cards shown as pending after their draft had
\* gone.
CardTrue ==
    (\A s \in Slots : task[s] = Idle) /\ notes = {} /\ posts = {} =>
        \A d \in Drafts \ crossed : card[d] = "pending" => row[d] # None
=============================================================================

-------------------------- MODULE SkillDraftsProofs --------------------------
(* Proofs about SkillDrafts: Accounted, and the properties its run checks,   *)
(* hold for any number of drafts, names, handlers and restarts.              *)
EXTENDS SkillDrafts, TLAPS

Outs == {None, "pending", "discarded", "kept"}
Tasks == [pc : Pcs, d : Drafts \cup {None},
          by : {None, "person", "review", "auto", "sweep"},
          list : SUBSET Drafts, out : Outs]

\* Handlers that do something to a draft have one.
Busy == {"fetch", "judge", "write", "delete", "discard", "restore", "clear", "row", "flip"}
HasDraft == \A s \in Slots : task[s].pc \in Busy => task[s].d \in Drafts

\* A handler that proposes a draft has counted it.
Counted == \A s \in Slots : Proposing(s) => task[s].d \in 1..made

\* What keeps a draft that is discarded now was under way then.
Raced == \A s \in Slots :
    task[s].pc \in {"fetch", "judge", "write"} /\ row[task[s].d] = "discarded"
        => task[s].d \in raced

\* A draft is resolved as kept once it is written.
Written == \A s \in Slots : At(s, "delete") => task[s].d \in kept

\* Somebody is about to tell the card of a draft that has gone.
Telling(d) == \/ \E m \in notes : m[1] = d
              \/ \E s \in Slots : /\ At(s, "flip") /\ task[s].d = d
                                  /\ task[s].out \in {"kept", "discarded"}
WillTell == \A d \in Drafts \ crossed :
    card[d] = "pending" /\ row[d] = None => Telling(d)

IInv == TypeOK /\ HasDraft /\ Counted /\ Raced /\ Written /\ Accounted /\ WillTell

-----------------------------------------------------------------------------
LEMMA IdleTask == Idle \in Tasks /\ Idle.pc = "idle" /\ Idle.d = None
  BY DEF Idle, Tasks, Pcs, Outs

LEMMA IInvInit == Init => IInv
<1> SUFFICES ASSUME Init PROVE IInv
  OBVIOUS
<1> USE DraftBounds, NoneApart DEF Init
<1>1. TypeOK
  <2>1. task \in [Slots -> Tasks]
    BY IdleTask
  <2> QED BY <2>1 DEF TypeOK, Tasks, Outs
<1>2. \A s \in Slots : task[s].pc = "idle"
  BY IdleTask
<1>3. HasDraft /\ Counted /\ Raced /\ Written
  BY <1>2 DEF HasDraft, Counted, Raced, Written, Busy, Proposing, At
<1>4. Accounted /\ WillTell
  BY DEF Accounted, WillTell
<1> QED BY <1>1, <1>3, <1>4 DEF IInv

-----------------------------------------------------------------------------
(* What a step does to the slots: one of them moves, or none. *)

Moves(s) == task' = [task EXCEPT ![s] = task'[s]]

LEMMA Moved ==
    ASSUME TypeOK, NEW s \in Slots, NEW t, task' = [task EXCEPT ![s] = t]
    PROVE Moves(s) /\ task'[s] = t
  BY DEF TypeOK, Moves

LEMMA MovedType ==
    ASSUME TypeOK, NEW s \in Slots, Moves(s), task'[s] \in Tasks
    PROVE /\ task' \in [Slots -> Tasks]
          /\ \A x \in Slots \ {s} : task'[x] = task[x]
  BY DEF TypeOK, Moves, Tasks, Outs

\* Every step of a handler moves its own slot, if any, to a typed task.
LEMMA Started ==
    ASSUME TypeOK, NEW s \in Slots, NEW t \in Tasks, Start(s, t)
    PROVE /\ task' \in [Slots -> Tasks] /\ task'[s] = t
          /\ task[s] = Idle
          /\ \A x \in Slots \ {s} : task'[x] = task[x]
  BY DEF TypeOK, Start, Tasks, Outs

LEMMA Ended ==
    ASSUME TypeOK, NEW s \in Slots, End(s)
    PROVE /\ task' \in [Slots -> Tasks] /\ task'[s] = Idle
          /\ \A x \in Slots \ {s} : task'[x] = task[x]
  BY IdleTask DEF TypeOK, End, Tasks, Outs

LEMMA Gone ==
    ASSUME TypeOK, NEW s \in Slots, NEW pc \in Pcs, Go(s, pc)
    PROVE /\ task' \in [Slots -> Tasks]
          /\ task'[s].pc = pc /\ task'[s].d = task[s].d /\ task'[s].out = task[s].out
          /\ task'[s].by = task[s].by /\ task'[s].list = task[s].list
          /\ \A x \in Slots \ {s} : task'[x] = task[x]
  BY DEF TypeOK, Go, Tasks, Outs

LEMMA Flips ==
    ASSUME TypeOK, NEW s \in Slots, NEW what \in Outs, ThenFlip(s, what)
    PROVE /\ task' \in [Slots -> Tasks]
          /\ task'[s].pc = "flip" /\ task'[s].d = task[s].d /\ task'[s].out = what
          /\ \A x \in Slots \ {s} : task'[x] = task[x]
<1> DEFINE t == [task[s] EXCEPT !.pc = "flip", !.out = what]
<1>1. t \in Tasks /\ t.pc = "flip" /\ t.d = task[s].d /\ t.out = what
  <2>1. task[s] \in Tasks
    BY DEF TypeOK, Tasks, Outs
  <2> QED BY <2>1 DEF Tasks, Pcs
<1>2. task \in [Slots -> Tasks] /\ task' = [task EXCEPT ![s] = t]
  BY DEF TypeOK, ThenFlip, Tasks, Outs
<1> HIDE DEF t
<1> QED BY <1>1, <1>2

LEMMA Shrinks ==
    ASSUME TypeOK, NEW s \in Slots, NEW d,
           task' = [task EXCEPT ![s].list = @ \ {d}]
    PROVE /\ task' \in [Slots -> Tasks]
          /\ task'[s].pc = task[s].pc /\ task'[s].d = task[s].d /\ task'[s].out = task[s].out
          /\ \A x \in Slots \ {s} : task'[x] = task[x]
  BY DEF TypeOK, Tasks, Outs

-----------------------------------------------------------------------------
(* What a step does, to what the invariant speaks of. In each, the slots other *)
(* than the one that moves are as they were.                                   *)

Only(s) == \A x \in Slots \ {s} : task'[x] = task[x]

\* The first queries: a slot goes from idle to a draft, pending or to be.
LEMMA BeginStep ==
    ASSUME IInv, NEW s \in Slots,
           \/ \E d \in Drafts : Keep(s, d) \/ Review(s, d) \/ Ask(s, d)
           \/ Propose(s) \/ Sweep(s)
    PROVE IInv'
<1> USE DraftBounds, NoneApart
<1>0. TypeOK /\ UNCHANGED <<row, staged, card, notes, posts, crossed, kept, gone, raced>>
  BY DEF IInv, Keep, Review, Ask, Propose, Sweep, table, cards
<1> DEFINE Begun ==
      /\ task' \in [Slots -> Tasks] /\ Only(s) /\ task[s] = Idle
      /\ task'[s].out = None
      /\ made' \in 0..MaxDrafts /\ made <= made' /\ jobs' \subseteq Drafts /\ crashes' = crashes
      /\ \/ /\ task'[s].pc \in {"write", "fetch"} /\ task'[s].d \in Pending
            /\ made' = made
         \/ /\ task'[s].pc \in {"discard", "restore"} /\ task'[s].d \in Drafts
            /\ made' = made
         \/ task'[s].pc = "clear" /\ task'[s].d = made' /\ made' = made + 1
         \/ task'[s].pc = "sweep" /\ made' = made
<1>1. Begun
  <2>1. ASSUME NEW d \in Drafts, Keep(s, d) PROVE Begun
    <3> DEFINE t == [Idle EXCEPT !.pc = "write", !.d = d, !.by = "person"]
    <3>1. t \in Tasks /\ t.pc = "write" /\ t.d = d /\ t.out = None
      BY DEF Idle, Tasks, Pcs, Outs
    <3> HIDE DEF t
    <3>2. Start(s, t)
      BY <2>1 DEF Keep, t
    <3>3. d \in Pending /\ UNCHANGED <<made, jobs, crashes>>
      BY <2>1 DEF Keep, Keepable, table
    <3> QED BY <1>0, <3>1, <3>2, <3>3, Started DEF Only, TypeOK
  <2>2. ASSUME NEW d \in Drafts, Review(s, d) PROVE Begun
    <3> DEFINE t == [Idle EXCEPT !.pc = "fetch", !.d = d, !.by = "review"]
    <3>1. t \in Tasks /\ t.pc = "fetch" /\ t.d = d /\ t.out = None
      BY DEF Idle, Tasks, Pcs, Outs
    <3> HIDE DEF t
    <3>2. Start(s, t)
      BY <2>2 DEF Review, t
    <3>3. d \in Pending /\ UNCHANGED <<made, crashes>> /\ jobs' = jobs \cup {d}
      BY <2>2 DEF Review, Keepable, table
    <3> QED BY <1>0, <3>1, <3>2, <3>3, Started DEF Only, TypeOK
  <2>3. ASSUME NEW d \in Drafts, Ask(s, d) PROVE Begun
    <3> DEFINE t == [Idle EXCEPT !.pc = IF d \in Pending THEN "discard" ELSE "restore",
                                 !.d = d, !.by = "person"]
    <3>1. t \in Tasks /\ t.pc \in {"discard", "restore"} /\ t.d = d /\ t.out = None
      BY DEF Idle, Tasks, Pcs, Outs
    <3> HIDE DEF t
    <3>2. Start(s, t)
      BY <2>3 DEF Ask, t
    <3>3. UNCHANGED <<made, jobs, crashes>>
      BY <2>3 DEF Ask, Keepable, table
    <3> QED BY <1>0, <3>1, <3>2, <3>3, Started DEF Only, TypeOK
  <2>4. CASE Propose(s)
    <3> DEFINE t == [Idle EXCEPT !.pc = "clear", !.d = made', !.by = "auto",
                       !.list = {p \in Pending : NameOf[p] = NameOf[made']}]
    <3>0. made' = made + 1 /\ made' \in Drafts
      BY <2>4, <1>0 DEF Propose, Drafts, TypeOK
    <3>1. t \in Tasks /\ t.pc = "clear" /\ t.d = made' /\ t.out = None
      BY <3>0 DEF Idle, Tasks, Pcs, Outs, Pending
    <3> HIDE DEF t
    <3>2. Start(s, t)
      BY <2>4 DEF Propose, t
    <3> QED BY <1>0, <2>4, <3>0, <3>1, <3>2, Started DEF Propose, Only, TypeOK, Drafts
  <2>5. CASE Sweep(s)
    <3> DEFINE t == [Idle EXCEPT !.pc = "sweep", !.by = "sweep", !.list = Pending]
    <3>1. t \in Tasks /\ t.pc = "sweep" /\ t.out = None
      BY DEF Idle, Tasks, Pcs, Outs, Pending
    <3> HIDE DEF t
    <3>2. Start(s, t)
      BY <2>5 DEF Sweep, t
    <3> QED BY <1>0, <2>5, <3>1, <3>2, Started DEF Sweep, Only, TypeOK, table
  <2> QED BY <2>1, <2>2, <2>3, <2>4, <2>5
<1>2. TypeOK'
  BY <1>0, <1>1 DEF TypeOK, Tasks, Outs
<1>3. HasDraft' /\ Counted' /\ Raced' /\ Written'
  <2>1. HasDraft'
    BY <1>0, <1>1 DEF IInv, HasDraft, Busy, Only, Pending, TypeOK, Drafts
  <2>2. Counted'
    BY <1>0, <1>1 DEF IInv, Counted, Proposing, Only, TypeOK
  <2>3. Raced'
    BY <1>0, <1>1 DEF IInv, Raced, Only, Pending
  <2>4. Written'
    BY <1>0, <1>1 DEF IInv, Written, At, Only
  <2> QED BY <2>1, <2>2, <2>3, <2>4
<1>4. Accounted'
  BY <1>0, <1>1, IdleTask DEF IInv, Accounted, Proposing, Only, TypeOK
<1>5. WillTell'
  BY <1>0, <1>1, IdleTask DEF IInv, WillTell, Telling, At, Only
<1> QED BY <1>2, <1>3, <1>4, <1>5 DEF IInv

\* A keep goes on, is written, or is given up.
LEMMA KeepStep ==
    ASSUME IInv, NEW s \in Slots, Fetch(s) \/ Judge(s) \/ Refuse(s) \/ Write(s)
    PROVE IInv'
<1> USE DraftBounds, NoneApart
<1>0. TypeOK /\ UNCHANGED <<table, cards, crashes, gone, raced>>
  BY DEF IInv, Fetch, Judge, Refuse, Write
<1>a. task[s].pc \in {"fetch", "judge", "write"} /\ task[s].d \in Drafts
  BY DEF Fetch, Judge, Refuse, Write, At, IInv, HasDraft, Busy
<1>1. /\ task' \in [Slots -> Tasks] /\ Only(s)
      /\ jobs' \subseteq Drafts /\ kept' \subseteq Drafts /\ kept \subseteq kept'
      /\ \/ task'[s] = Idle
         \/ task'[s].pc \in {"judge", "write"} /\ task'[s].d = task[s].d
         \/ task'[s].pc = "delete" /\ task'[s].d = task[s].d /\ task[s].d \in kept'
  <2>0. "judge" \in Pcs /\ "write" \in Pcs /\ "delete" \in Pcs
    BY DEF Pcs
  <2>1. ASSUME GiveUp(s), kept' = kept
        PROVE task' \in [Slots -> Tasks] /\ Only(s) /\ jobs' \subseteq Drafts
              /\ task'[s] = Idle
    BY <1>0, <2>1, Ended DEF GiveUp, JobDone, Only, TypeOK
  <2>2. ASSUME NEW pc \in {"judge", "write", "delete"}, Go(s, pc)
        PROVE /\ task' \in [Slots -> Tasks] /\ Only(s)
              /\ task'[s].pc = pc /\ task'[s].d = task[s].d
    BY <1>0, <2>0, <2>2, Gone DEF Only
  <2>3. CASE Fetch(s)
    BY <1>0, <2>1, <2>2, <2>3 DEF Fetch, TypeOK
  <2>4. CASE Judge(s)
    BY <1>0, <2>1, <2>2, <2>4 DEF Judge, TypeOK
  <2>5. CASE Refuse(s)
    BY <1>0, <2>1, <2>5 DEF Refuse, Refused, TypeOK
  <2>6. CASE Write(s)
    BY <1>0, <1>a, <2>2, <2>6 DEF Write, TypeOK
  <2> QED BY <2>3, <2>4, <2>5, <2>6
<1>2. TypeOK'
  BY <1>0, <1>1 DEF TypeOK, Tasks, Outs, table, cards
<1>3. HasDraft'
  BY <1>1, <1>a, IdleTask DEF IInv, HasDraft, Busy, Only
<1>4. Counted'
  BY <1>0, <1>1, IdleTask DEF IInv, Counted, Proposing, Only, table
<1>5. Raced'
  BY <1>0, <1>1, <1>a, IdleTask DEF IInv, Raced, Only, table
<1>6. Written'
  BY <1>0, <1>1, IdleTask DEF IInv, Written, At, Only
<1>7. Accounted'
  BY <1>0, <1>1, <1>a DEF IInv, Accounted, Proposing, Only, table
<1>8. WillTell'
  <2>1. UNCHANGED <<card, row, crossed, notes>>
    BY <1>0 DEF table, cards
  <2> QED BY <2>1, <1>1, <1>a DEF IInv, WillTell, Telling, At, Only
<1> QED BY <1>2, <1>3, <1>4, <1>5, <1>6, <1>7, <1>8 DEF IInv

\* A draft is resolved: its row goes, and a slot or a note tells the card.
LEMMA DeleteStep == ASSUME IInv, NEW s \in Slots, Delete(s) PROVE IInv'
<1> USE DraftBounds, NoneApart
<1> DEFINE d == task[s].d
<1>0. /\ TypeOK /\ At(s, "delete") /\ d \in Drafts /\ d \in kept
      /\ UNCHANGED <<made, card, posts, crossed, jobs, crashes, kept, gone, raced>>
      /\ row' = [row EXCEPT ![d] = None] /\ staged' \subseteq staged
  BY DEF IInv, Delete, HasDraft, Busy, At, Written, Resolve
<1>1. /\ task' \in [Slots -> Tasks] /\ Only(s) /\ notes \subseteq notes'
      /\ notes' \subseteq Drafts \X {"kept", "discarded"}
      /\ \/ task'[s] = Idle /\ <<d, "kept">> \in notes'
         \/ task'[s].pc = "flip" /\ task'[s].d = d /\ task'[s].out = "kept"
  <2>1. CASE End(s) /\ notes' = notes \cup {<<d, "kept">>}
    BY <1>0, <2>1, Ended DEF Only, TypeOK
  <2>2. CASE ThenFlip(s, "kept") /\ notes' = notes
    BY <1>0, <2>2, Flips DEF Only, TypeOK, Outs
  <2> QED BY <2>1, <2>2 DEF Delete
<1>r. /\ row' \in [Drafts -> {None, "pending", "discarded"}] /\ row'[d] = None
      /\ \A x \in Drafts \ {d} : row'[x] = row[x]
  BY <1>0 DEF TypeOK
<1>2. TypeOK'
  BY <1>0, <1>1, <1>r DEF TypeOK, Tasks, Outs
<1>3. HasDraft'
  BY <1>0, <1>1, IdleTask DEF IInv, HasDraft, Busy, Only
<1>4. Counted'
  BY <1>0, <1>1, IdleTask DEF IInv, Counted, Proposing, Only
<1>5. Raced'
  BY <1>0, <1>1, <1>r, IdleTask DEF IInv, Raced, Only, HasDraft, Busy
<1>6. Written'
  BY <1>0, <1>1, IdleTask DEF IInv, Written, At, Only
<1>7. Accounted'
  BY <1>0, <1>1, <1>r DEF IInv, Accounted, Proposing, Only, At, TypeOK, Drafts
<1>8. WillTell'
  <2>1. ASSUME NEW x \in Drafts \ crossed, Telling(x) PROVE Telling(x)'
    BY <1>0, <1>1, <2>1 DEF Telling, At, Only
  <2>2. ASSUME NEW x \in Drafts, x = d PROVE Telling(x)'
    BY <1>1, <2>2 DEF Telling, At
  <2> QED BY <1>0, <1>r, <2>1, <2>2 DEF IInv, WillTell
<1> QED BY <1>2, <1>3, <1>4, <1>5, <1>6, <1>7, <1>8 DEF IInv

\* Discard and restore: the row between pending and discarded.
LEMMA FlipRowStep ==
    ASSUME IInv, NEW s \in Slots, Discard(s) \/ Restore(s) PROVE IInv'
<1> USE DraftBounds, NoneApart
<1>0. TypeOK /\ UNCHANGED <<made, staged, cards, jobs, crashes, kept, gone>>
  BY DEF IInv, Discard, Restore
<1>a. task[s].pc \in {"discard", "restore"} /\ task[s].d \in Drafts
  BY DEF Discard, Restore, At, IInv, HasDraft, Busy
<1>1. /\ task' \in [Slots -> Tasks] /\ Only(s)
      /\ \/ task'[s] = Idle
         \/ /\ task'[s].pc = "flip" /\ task'[s].d = task[s].d
            /\ task'[s].out \in {"pending", "discarded"}
  BY <1>0, Ended, Flips DEF Discard, Restore, Only, Outs
<1>2. /\ row' \in [Drafts -> {None, "pending", "discarded"}] /\ raced' \subseteq Drafts
      /\ \A x \in Drafts : row'[x] = None <=> row[x] = None
      /\ \A x \in Drafts \ {task[s].d} : row'[x] = row[x] /\ (x \in raced <=> x \in raced')
      /\ row'[task[s].d] = "discarded" =>
            \/ row' = row /\ raced' = raced
            \/ task[s].d \in raced'
            \/ ~Keeping(task[s].d)
  <2>1. CASE Discard(s)
    BY <1>0, <1>a, <2>1 DEF Discard, TypeOK, Pending
  <2>2. CASE Restore(s)
    BY <1>0, <1>a, <2>2 DEF Restore, TypeOK
  <2> QED BY <2>1, <2>2
<1>3. TypeOK'
  BY <1>0, <1>1, <1>2 DEF TypeOK, Tasks, Outs, cards
<1>4. HasDraft'
  BY <1>1, <1>a, IdleTask DEF IInv, HasDraft, Busy, Only
<1>5. Counted' /\ Written'
  <2>1. Counted'
    BY <1>0, <1>1, IdleTask DEF IInv, Counted, Proposing, Only
  <2>2. Written'
    BY <1>0, <1>1, IdleTask DEF IInv, Written, At, Only
  <2> QED BY <2>1, <2>2
<1>6. Raced'
  <2> SUFFICES ASSUME NEW x \in Slots, task'[x].pc \in {"fetch", "judge", "write"},
                      row'[task'[x].d] = "discarded"
               PROVE task'[x].d \in raced'
    BY DEF Raced
  <2>1. x # s /\ task'[x] = task[x] /\ task[x].d \in Drafts
    BY <1>1, IdleTask DEF Only, IInv, HasDraft, Busy
  <2>2. Keeping(task[x].d)
    BY <2>1 DEF Keeping
  <2> QED BY <1>2, <2>1, <2>2 DEF IInv, Raced
<1>7. Accounted'
  BY <1>0, <1>1, <1>2, <1>a DEF IInv, Accounted, Proposing, Only, TypeOK, Drafts
<1>8. WillTell'
  <2>1. UNCHANGED <<card, crossed, notes>>
    BY <1>0 DEF cards
  <2> QED BY <2>1, <1>1, <1>2, <1>a DEF IInv, WillTell, Telling, At, Only
<1> QED BY <1>3, <1>4, <1>5, <1>6, <1>7, <1>8 DEF IInv

\* A draft is proposed: its body, then its row.
LEMMA ProposeStep ==
    ASSUME IInv, NEW s \in Slots, Stage(s) \/ Insert(s) PROVE IInv'
<1> USE DraftBounds, NoneApart
<1>0. TypeOK /\ UNCHANGED <<made, card, notes, crossed, jobs, crashes, kept, gone, raced>>
  BY DEF IInv, Stage, Insert, cards
<1>a. Proposing(s) /\ task[s].d \in Drafts /\ task[s].pc \notin {"flip", "delete"}
  BY DEF Stage, Insert, At, Proposing, IInv, HasDraft, Busy
<1>1. /\ task' \in [Slots -> Tasks] /\ Only(s)
      /\ \/ task'[s].pc = "row" /\ task'[s].d = task[s].d /\ row' = row
         \/ /\ task'[s] = Idle \/ (task'[s].pc = "fetch" /\ task'[s].d = task[s].d)
            /\ row' = [row EXCEPT ![task[s].d] = "pending"]
  <2>1. CASE Stage(s)
    BY <1>0, <2>1, Gone DEF Stage, Only, Pcs
  <2>2. CASE Insert(s)
    <3>1. CASE Go(s, "fetch")
      BY <1>0, <2>2, <3>1, Gone DEF Insert, Only, Pcs
    <3>2. CASE End(s)
      <4>1. task' \in [Slots -> Tasks] /\ Only(s) /\ task'[s] = Idle
        BY <1>0, <3>2, Ended DEF Only
      <4> QED BY <2>2, <4>1 DEF Insert
    <3> QED BY <2>2, <3>1, <3>2 DEF Insert
  <2> QED BY <2>1, <2>2
<1>2. /\ row' \in [Drafts -> {None, "pending", "discarded"}]
      /\ posts' \subseteq Drafts /\ staged' \subseteq Drafts
      /\ \A x \in Drafts : row'[x] \in {row[x], "pending"}
  BY <1>0, <1>a, <1>1 DEF Stage, Insert, cards, TypeOK
<1>3. TypeOK'
  BY <1>0, <1>1, <1>2 DEF TypeOK, Tasks, Outs
<1>4. HasDraft'
  BY <1>1, <1>a, IdleTask DEF IInv, HasDraft, Busy, Only
<1>5. Counted' /\ Written'
  <2>1. Counted'
    BY <1>0, <1>1, <1>a, IdleTask DEF IInv, Counted, Proposing, Only
  <2>2. Written'
    BY <1>0, <1>1, IdleTask DEF IInv, Written, At, Only
  <2> QED BY <2>1, <2>2
<1>6. Raced'
  <2> SUFFICES ASSUME NEW x \in Slots, task'[x].pc \in {"fetch", "judge", "write"},
                      row'[task'[x].d] = "discarded"
               PROVE task'[x].d \in raced'
    BY DEF Raced
  <2>1. task'[x].d \in Drafts
    BY <1>4 DEF HasDraft, Busy
  <2>2. row[task'[x].d] = "discarded"
    BY <1>2, <2>1
  <2>3. x # s
    BY <1>0, <1>1, <1>a, <2>1, IdleTask DEF TypeOK
  <2> QED BY <1>0, <1>1, <2>2, <2>3 DEF IInv, Raced, Only
<1>7. Accounted'
  <2> SUFFICES ASSUME NEW x \in 1..made, row'[x] = None, x \notin kept \cup gone
               PROVE \E y \in Slots : task'[y].d = x /\ Proposing(y)'
    BY <1>0 DEF Accounted
  <2>1. x \in Drafts /\ row[x] = None
    BY <1>0, <1>2 DEF TypeOK, Drafts
  <2>2. PICK y \in Slots : task[y].d = x /\ Proposing(y)
    BY <2>1 DEF IInv, Accounted
  <2>3. CASE y = s
    BY <1>0, <1>1, <2>1, <2>2, <2>3 DEF Proposing, TypeOK
  <2>4. CASE y # s
    BY <1>1, <2>2, <2>4 DEF Proposing, Only
  <2> QED BY <2>3, <2>4
<1>8. WillTell'
  <2> SUFFICES ASSUME NEW x \in Drafts \ crossed, card[x] = "pending", row'[x] = None
               PROVE Telling(x)'
    BY <1>0 DEF WillTell
  <2>1. Telling(x)
    BY <1>2 DEF IInv, WillTell
  <2> QED BY <1>0, <1>1, <1>a, <2>1 DEF Telling, At, Only
<1> QED BY <1>3, <1>4, <1>5, <1>6, <1>7, <1>8 DEF IInv

\* A draft is superseded or expired: its row goes, and a slot or a note tells
\* the card, unless the row was gone already.
LEMMA DropStep ==
    ASSUME IInv, NEW s \in Slots, NEW d \in Drafts, Supersede(s, d) \/ Expire(s, d)
    PROVE IInv'
<1> USE DraftBounds, NoneApart
<1>0. /\ TypeOK /\ UNCHANGED <<made, card, posts, crossed, jobs, crashes, kept, raced>>
      /\ row' = [row EXCEPT ![d] = None] /\ staged' \subseteq staged
      /\ gone' = IF row[d] = None THEN gone ELSE gone \cup {d}
  BY DEF IInv, Supersede, Expire, Resolve, cards
<1>1. /\ task' \in [Slots -> Tasks] /\ Only(s)
      /\ notes \subseteq notes' /\ notes' \subseteq Drafts \X {"kept", "discarded"}
      /\ \/ /\ task[s].pc \in {"clear", "sweep"} /\ task'[s].pc = task[s].pc
            /\ task'[s].d = task[s].d
            /\ row[d] = None \/ <<d, "discarded">> \in notes'
         \/ /\ task[s].pc = "sweep" /\ task'[s].pc = "flip"
            /\ task'[s].d = d /\ task'[s].out = "discarded"
  <2>1. CASE Supersede(s, d)
    <3>1. task' = [task EXCEPT ![s].list = @ \ {d}]
      BY <2>1 DEF Supersede
    <3>2. /\ task' \in [Slots -> Tasks] /\ Only(s)
          /\ task'[s].pc = task[s].pc /\ task'[s].d = task[s].d
      BY <1>0, <3>1, Shrinks DEF Only
    <3>3. notes' = notes \cup {<<d, "discarded">>} /\ task[s].pc = "clear"
      BY <2>1 DEF Supersede, Told, At
    <3> QED BY <1>0, <3>2, <3>3 DEF TypeOK
  <2>2. CASE Expire(s, d) /\ row[d] = None
    BY <1>0, <2>2, Shrinks DEF Expire, At, Only, TypeOK, cards
  <2>3. CASE Expire(s, d) /\ row[d] # None
    <3> DEFINE t == [task[s] EXCEPT !.list = @ \ {d}, !.pc = "flip", !.d = d,
                                    !.out = "discarded"]
    <3>0. task[s] \in Tasks
      BY <1>0 DEF TypeOK, Tasks, Outs
    <3>1. t \in Tasks /\ t.pc = "flip" /\ t.d = d /\ t.out = "discarded"
      BY <3>0 DEF Tasks, Pcs, Outs
    <3> HIDE DEF t
    <3>2. task' = [task EXCEPT ![s] = t]
      BY <2>3, Zenon DEF Expire, t
    <3>3. Moves(s) /\ task'[s] = t
      BY <1>0, <3>2, Moved
    <3>4. task' \in [Slots -> Tasks] /\ Only(s)
      BY <1>0, <3>1, <3>3, MovedType DEF Only
    <3> QED BY <1>0, <2>3, <3>1, <3>3, <3>4 DEF Expire, At, TypeOK, cards
  <2> QED BY <2>1, <2>2, <2>3
<1>r. /\ row' \in [Drafts -> {None, "pending", "discarded"}] /\ row'[d] = None
      /\ \A x \in Drafts \ {d} : row'[x] = row[x]
  BY <1>0 DEF TypeOK
<1>2. TypeOK'
  BY <1>0, <1>1, <1>r DEF TypeOK, Tasks, Outs
<1>3. HasDraft'
  BY <1>0, <1>1 DEF IInv, HasDraft, Busy, Only
<1>4. Counted'
  BY <1>0, <1>1 DEF IInv, Counted, Proposing, Only
<1>5. Raced'
  BY <1>0, <1>1, <1>r DEF IInv, Raced, Only, HasDraft, Busy
<1>6. Written'
  BY <1>0, <1>1 DEF IInv, Written, At, Only
<1>7. Accounted'
  <2> SUFFICES ASSUME NEW x \in 1..made, row'[x] = None, x \notin kept \cup gone'
               PROVE \E y \in Slots : task'[y].d = x /\ Proposing(y)'
    BY <1>0 DEF Accounted
  <2>1. row[x] = None /\ x \notin kept \cup gone
    BY <1>0, <1>r DEF TypeOK, Drafts
  <2>2. PICK y \in Slots : task[y].d = x /\ Proposing(y)
    BY <2>1 DEF IInv, Accounted
  <2> QED BY <1>1, <2>2 DEF Proposing, Only
<1>8. WillTell'
  <2>1. ASSUME NEW x \in Drafts, Telling(x) PROVE Telling(x)'
    BY <1>0, <1>1, <2>1 DEF Telling, At, Only
  <2>2. ASSUME row[d] # None PROVE Telling(d)'
    BY <1>1, <2>2 DEF Telling, At
  <2> QED BY <1>0, <1>r, <2>1, <2>2 DEF IInv, WillTell
<1> QED BY <1>2, <1>3, <1>4, <1>5, <1>6, <1>7, <1>8 DEF IInv

\* The expiry sweep passes a draft over, or is through.
LEMMA SweepStep ==
    ASSUME IInv, NEW s \in Slots, Swept(s) \/ \E d \in Drafts : Spare(s, d)
    PROVE IInv'
<1> USE DraftBounds, NoneApart
<1>0. TypeOK /\ UNCHANGED <<table, cards, jobs, crashes, kept, gone, raced>> /\ task[s].pc = "sweep"
  BY DEF IInv, Swept, Spare, At
<1>1. /\ task' \in [Slots -> Tasks] /\ Only(s) /\ task'[s].pc \in {"idle", "sweep"}
  BY <1>0, IdleTask, Ended, Shrinks DEF Swept, Spare, Only
<1>2. TypeOK'
  BY <1>0, <1>1 DEF TypeOK, Tasks, Outs, table, cards
<1>3. HasDraft' /\ Counted' /\ Written'
  <2>1. HasDraft'
    BY <1>1 DEF IInv, HasDraft, Busy, Only
  <2>2. Counted'
    BY <1>0, <1>1 DEF IInv, Counted, Proposing, Only, table
  <2>3. Written'
    BY <1>0, <1>1 DEF IInv, Written, At, Only
  <2> QED BY <2>1, <2>2, <2>3
<1>4. Raced'
  BY <1>0, <1>1 DEF IInv, Raced, Only, table
<1>5. Accounted'
  BY <1>0, <1>1 DEF IInv, Accounted, Proposing, Only, table
<1>6. WillTell'
  <2>1. UNCHANGED <<card, row, crossed, notes>>
    BY <1>0 DEF table, cards
  <2> QED BY <2>1, <1>0, <1>1 DEF IInv, WillTell, Telling, At, Only
<1> QED BY <1>2, <1>3, <1>4, <1>5, <1>6 DEF IInv

-----------------------------------------------------------------------------
(* Cards, and restarts *)

\* A card is shown: what it shows then is noted when its draft has gone.
LEMMA Shown ==
    ASSUME TypeOK, NEW d \in Drafts, NEW what \in Outs, Show(d, what)
    PROVE /\ card' \in [Drafts -> Outs] /\ crossed' \subseteq Drafts
          /\ crossed \subseteq crossed'
          /\ \A x \in Drafts \ {d} : card'[x] = card[x]
          /\ card'[d] = "pending" => what = "pending"
          /\ what = "pending" /\ row[d] = None => d \in crossed'
  BY NoneApart DEF TypeOK, Show, Outs

LEMMA FlipStep == ASSUME IInv, NEW s \in Slots, Flip(s) PROVE IInv'
<1> USE DraftBounds, NoneApart
<1> DEFINE d == task[s].d
<1>0. /\ TypeOK /\ task[s].pc = "flip" /\ d \in Drafts /\ task[s].out \in Outs
      /\ UNCHANGED <<made, row, staged, notes, posts, crashes, kept, gone, raced>>
  BY DEF IInv, Flip, At, HasDraft, Busy, TypeOK, Outs, table
<1>1. /\ task' \in [Slots -> Tasks] /\ Only(s) /\ jobs' \subseteq Drafts
      /\ task'[s].pc \in {"idle", "sweep"}
  <2>1. CASE task[s].by = "sweep"
    <3> DEFINE t == [task[s] EXCEPT !.pc = "sweep", !.d = None, !.out = None]
    <3>0. task[s] \in Tasks
      BY <1>0 DEF TypeOK, Tasks, Outs
    <3>1. t \in Tasks /\ t.pc = "sweep"
      BY <3>0 DEF Tasks, Pcs, Outs
    <3> HIDE DEF t
    <3>2. task' = [task EXCEPT ![s] = t] /\ jobs' = jobs
      BY <2>1 DEF Flip, t
    <3>3. Moves(s) /\ task'[s] = t
      BY <1>0, <3>2, Moved
    <3> QED BY <1>0, <3>1, <3>2, <3>3, MovedType DEF Only, TypeOK
  <2>2. CASE task[s].by # "sweep"
    BY <1>0, <2>2, Ended, IdleTask DEF Flip, GiveUp, JobDone, Only, TypeOK
  <2> QED BY <2>1, <2>2
<1>2. Show(d, task[s].out)
  BY DEF Flip
<1>3. TypeOK'
  BY <1>0, <1>1, <1>2, Shown DEF TypeOK, Tasks, Outs
<1>4. HasDraft' /\ Counted' /\ Raced' /\ Written'
  <2>1. HasDraft'
    BY <1>1 DEF IInv, HasDraft, Busy, Only
  <2>2. Counted' /\ Raced'
    BY <1>0, <1>1 DEF IInv, Counted, Raced, Proposing, Only
  <2>3. Written'
    BY <1>0, <1>1 DEF IInv, Written, At, Only
  <2> QED BY <2>1, <2>2, <2>3
<1>5. Accounted'
  BY <1>0, <1>1 DEF IInv, Accounted, Proposing, Only
<1>6. WillTell'
  <2> SUFFICES ASSUME NEW x \in Drafts \ crossed', card'[x] = "pending", row[x] = None
               PROVE Telling(x)'
    BY <1>0 DEF WillTell
  <2>1. x # d /\ card[x] = "pending" /\ x \notin crossed
    BY <1>0, <1>2, Shown
  <2>2. Telling(x)
    BY <2>1 DEF IInv, WillTell
  <2> QED BY <1>0, <1>1, <2>1, <2>2 DEF Telling, At, Only
<1> QED BY <1>3, <1>4, <1>5, <1>6 DEF IInv

\* A card is told by a note, or stored.
LEMMA CardStep ==
    ASSUME IInv, (\E m \in notes : Note(m)) \/ (\E d \in posts : Post(d)) PROVE IInv'
<1> USE DraftBounds, NoneApart
<1>0. TypeOK /\ UNCHANGED <<table, task, jobs, crashes, kept, gone, raced>>
  BY DEF IInv, Note, Post
<1>1. PICK d \in Drafts :
        /\ card' \in [Drafts -> Outs] /\ crossed' \subseteq Drafts /\ crossed \subseteq crossed'
        /\ \A x \in Drafts \ {d} : card'[x] = card[x]
        /\ card'[d] = "pending" /\ row[d] = None => d \in crossed'
        /\ notes' \subseteq notes /\ posts' \subseteq posts
        /\ \A m \in notes \ notes' : m[1] = d
  <2>1. ASSUME NEW m \in notes, Note(m)
        PROVE /\ m[1] \in Drafts
              /\ card' \in [Drafts -> Outs] /\ crossed' \subseteq Drafts /\ crossed \subseteq crossed'
              /\ \A x \in Drafts \ {m[1]} : card'[x] = card[x]
              /\ card'[m[1]] = "pending" /\ row[m[1]] = None => m[1] \in crossed'
              /\ notes' = notes \ {m} /\ posts' = posts
    <3>1. m[1] \in Drafts /\ m[2] \in Outs
      BY <1>0 DEF TypeOK, Outs
    <3>2. Show(m[1], m[2]) /\ notes' = notes \ {m} /\ posts' = posts
      BY <2>1 DEF Note
    <3> QED BY <1>0, <3>1, <3>2, Shown
  <2>2. ASSUME NEW x \in posts, Post(x)
        PROVE /\ x \in Drafts
              /\ card' \in [Drafts -> Outs] /\ crossed' \subseteq Drafts /\ crossed \subseteq crossed'
              /\ \A y \in Drafts \ {x} : card'[y] = card[y]
              /\ row[x] = None => x \in crossed'
              /\ notes' = notes /\ posts' \subseteq posts
    BY <1>0, <2>2 DEF Post, TypeOK, Outs
  <2> QED BY <2>1, <2>2
<1>2. TypeOK'
  <2>1. UNCHANGED <<made, row, staged>>
    BY <1>0 DEF table
  <2> QED BY <1>0, <1>1, <2>1 DEF TypeOK, Outs
<1>3. HasDraft' /\ Counted' /\ Raced' /\ Written' /\ Accounted'
  BY <1>0 DEF IInv, HasDraft, Counted, Raced, Written, Accounted, Proposing, At, table
<1>4. WillTell'
  <2> SUFFICES ASSUME NEW x \in Drafts \ crossed', card'[x] = "pending", row[x] = None
               PROVE Telling(x)'
    BY <1>0 DEF WillTell, table
  <2>1. x # d /\ card[x] = "pending" /\ x \notin crossed
    BY <1>1
  <2>2. Telling(x)
    BY <2>1 DEF IInv, WillTell
  <2> QED BY <1>0, <1>1, <2>1, <2>2 DEF Telling, At
<1> QED BY <1>2, <1>3, <1>4 DEF IInv

LEMMA CrashStep == ASSUME IInv, Crash PROVE IInv'
<1> USE DraftBounds, NoneApart
<1>0. /\ TypeOK /\ UNCHANGED <<made, row, staged, card, kept, raced>>
      /\ task' = [s \in Slots |-> Idle] /\ jobs' = {} /\ notes' = {} /\ posts' = {}
      /\ crashes' \in 0..MaxCrashes
  BY DEF IInv, Crash, table, TypeOK
<1>1. \A s \in Slots : task'[s] = Idle /\ task'[s].pc = "idle"
  BY <1>0, IdleTask
<1>2. /\ gone' = gone \cup {task[s].d : s \in {x \in Slots : Proposing(x)}}
      /\ crossed' = crossed \cup {d \in Drafts : row[d] = None /\ card[d] = "pending"}
  BY DEF Crash
<1>3. TypeOK'
  <2>1. task' \in [Slots -> Tasks]
    BY <1>0, IdleTask
  <2>2. \A s \in Slots : Proposing(s) => task[s].d \in Drafts
    BY DEF IInv, HasDraft, Busy, Proposing
  <2>3. gone' \subseteq Drafts /\ crossed' \subseteq Drafts
    BY <1>0, <1>2, <2>2 DEF TypeOK
  <2> QED BY <1>0, <2>1, <2>3 DEF TypeOK, Tasks, Outs
<1>4. HasDraft' /\ Counted' /\ Raced' /\ Written'
  BY <1>1 DEF HasDraft, Counted, Raced, Written, Proposing, Busy, At
<1>5. Accounted'
  BY <1>0, <1>2 DEF IInv, Accounted
<1>6. WillTell'
  BY <1>0, <1>2 DEF WillTell
<1> QED BY <1>3, <1>4, <1>5, <1>6 DEF IInv

-----------------------------------------------------------------------------
LEMMA Inductive == Spec => []IInv
<1>1. IInv /\ [Next]_vars => IInv'
  <2> SUFFICES ASSUME IInv, [Next]_vars PROVE IInv'
    OBVIOUS
  <2>1. CASE Next
    <3>1. ASSUME NEW s \in Slots, Step(s) PROVE IInv'
      BY <3>1, KeepStep, DeleteStep, FlipRowStep, ProposeStep, DropStep, SweepStep, FlipStep
         DEF Step
    <3> QED BY <2>1, <3>1, BeginStep, CardStep, CrashStep DEF Next
  <2>2. CASE UNCHANGED vars
    BY <2>2 DEF vars, IInv, TypeOK, HasDraft, Counted, Raced, Written, Accounted, WillTell, Telling,
       Proposing, At
  <2> QED BY <2>1, <2>2
<1> QED BY <1>1, IInvInit, PTL DEF Spec

\* A draft that has no row any more was kept, superseded or expired.
THEOREM AllAccounted == Spec => []Accounted
<1>1. IInv => Accounted
  BY DEF IInv
<1> QED BY <1>1, Inductive, PTL

\* No card stays open for a draft that has gone.
THEOREM CardsTrue == Spec => []CardTrue
<1>1. IInv => CardTrue
  <2> SUFFICES ASSUME IInv, \A s \in Slots : task[s] = Idle, notes = {},
                      NEW d \in Drafts \ crossed, card[d] = "pending", row[d] = None
               PROVE FALSE
    BY DEF CardTrue
  <2>1. Telling(d)
    BY DEF IInv, WillTell
  <2> QED BY <2>1, IdleTask DEF Telling, At
<1> QED BY <1>1, Inductive, PTL

\* A discard stands, unless a keep of the draft was under way when it came.
THEOREM DiscardsStand == Spec => DiscardStands
<1>1. IInv => \A s \in Slots : At(s, "write") /\ row[task[s].d] = "discarded" => task[s].d \in raced
  BY DEF IInv, Raced, At
<1>2. IInv /\ [Next]_vars =>
        [\A s \in Slots : At(s, "write") /\ task'[s].pc = "delete"
           /\ row[task[s].d] = "discarded" => task[s].d \in raced]_vars
  BY <1>1
<1> QED BY <1>2, Inductive, PTL DEF Spec, DiscardStands
=============================================================================

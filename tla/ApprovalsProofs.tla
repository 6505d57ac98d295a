-------------------------- MODULE ApprovalsProofs --------------------------
(***************************************************************************)
(* Proofs about Approvals, for any cards, places, clicks and sweeps: the   *)
(* types, that the row of an approved card lives while its handler runs,   *)
(* that a card with a session is decided once and applied once, which is   *)
(* the refinement of OneDecision, that who was sent a card that waits can  *)
(* still decide it, and that the room's copy tells the truth.  The row is  *)
(* what every decision goes through: the first invariant, IInv, says who   *)
(* may still reach it, the second, Answered, who has still to be told.     *)
(***************************************************************************)
EXTENDS Approvals, TLAPS

Busy(k) == call[k].pc # "idle"

\* A caller works on a card it could find: a click on one that was sent, a
\* sweep on one whose request is over, an intercept on its own.
Callable ==
    /\ \A p \in Inboxes, c \in Cards : <<c, p>> \in index => <<c, p>> \in sent
    /\ \A c \in old : req[c] = "end"
    /\ \A s \in Sweeps : todo[s] \subseteq old
    /\ \A k \in Clicks : Busy(k) => Reached(call[k].card)
    /\ \A s \in Sweeps : Busy(s) => call[s].card \in old
    /\ \A c \in Cards : Busy(c) => call[c].card = c /\ req[c] = "judge"

\* A row that is new or waits is undecided; there is one once it was asked for.
Undone ==
    /\ \A c \in Cards : row[c] = "none" <=> req[c] = "new"
    /\ \A k \in Callers : Busy(k) => req[call[k].card] # "new"
    /\ \A c \in Cards : WithSession(c) /\ row[c] \in {"none", "pending"} =>
            decided[c] = "no" /\ c \notin applied

\* Who runs the handler of a card with a session has approved it, alone.
Alone ==
    /\ \A k \in Callers : call[k].pc = "run" /\ WithSession(call[k].card) =>
            call[k].opt = "approve"
    /\ \A j, k \in Callers :
            /\ call[j].pc = "run" /\ call[k].pc = "run"
            /\ call[j].card = call[k].card /\ WithSession(call[j].card)
            => j = k

IInv == TypeOK /\ Callable /\ Undone /\ Alone /\ RowLive

-----------------------------------------------------------------------------

CallRecs == [pc : {"idle", "decide", "run", "tell", "clear"},
             card : Cards \cup {Room}, opt : Options,
             seen : SUBSET (Inboxes \cup {Room})]

\* Every action keeps the types.
LEMMA ApprovalsTypeStep == ASSUME TypeOK, [Next]_vars PROVE TypeOK'
<1> USE PlacesApart, CallersApart, Bounds
<1> USE DEF TypeOK, Rows, Options, cardVars, history, upsets
<1>1. CASE \E c \in Cards : Request(c) \/ Escalate(c) \/ Sent(c)
  BY <1>1 DEF Request, Escalate, Sent, Without
<1>2. CASE \E c \in Cards : JudgeApproves(c)
  BY <1>2 DEF JudgeApproves, Decides, Callers
<1>3. CASE \E c \in Cards : StoreCard(c) \/ IndexCard(c)
  BY <1>3 DEF StoreCard, IndexCard
<1>4. CASE \E c \in Cards, p \in Inboxes : Deliver(c, p)
  BY <1>4 DEF Deliver
<1>5. CASE \E c \in Cards, p \in Inboxes : DeliverFails(c, p)
  BY <1>5 DEF DeliverFails
<1>6. CASE \E k \in Clicks, c \in Cards, opt \in Options : Click(k, c, opt)
  BY <1>6 DEF Click, Decides, Callers
<1>7. CASE \E k \in Callers : Approve(k) \/ Reject(k)
  BY <1>7, SMTT(40) DEF Approve, Reject, Is, Become, Return, Without, Idle
<1>8. CASE \E k \in Callers : RejectSessionless(k) \/ Unclaimed(k)
  BY <1>8, SMTT(40) DEF RejectSessionless, Unclaimed, Is, Become, Return, Without, Idle
<1>9. CASE \E k \in Callers : Release(k)
  BY <1>9, SMTT(40) DEF Release, Become, Return, Without, Idle
<1>10. CASE \E k \in Callers : ReleaseFails(k)
  <2> PICK k \in Callers : ReleaseFails(k)
    BY <1>10
  <2>1. call[k].card \in Cards /\ fails' \in 0..MaxFails
    BY DEF ReleaseFails
  <2>2. call' \in [Callers -> CallRecs] /\ call'[k].pc = "idle"
    BY DEF ReleaseFails, Return, Idle, CallRecs
  <2>3. \A j \in Callers : call'[j].pc # "idle" => call'[j].card \in Cards
    BY <2>2 DEF ReleaseFails, Return, Idle
  <2>4. /\ req' \in [Cards -> {"new", "judge", "send", "end"}]
        /\ surf' \in [Cards -> {"no", "store", "index", "end"}]
    BY DEF ReleaseFails
  <2> QED BY <2>1, <2>2, <2>3, <2>4 DEF ReleaseFails, CallRecs
<1>11. CASE \E k \in Callers : Tell(k)
  <2> PICK k \in Callers : Tell(k)
    BY <1>11
  <2>1. Places(call[k].card) \in SUBSET (Inboxes \cup {Room})
    BY DEF Places
  <2> DEFINE r == [call[k] EXCEPT !.pc = "clear", !.seen = Places(call[k].card)]
  <2>0. call[k] \in CallRecs
    BY DEF CallRecs
  <2>2. r \in CallRecs
    <3> DEFINE S == SUBSET (Inboxes \cup {Room})
    <3> HIDE DEF S
    <3>1. Places(call[k].card) \in S
      BY <2>1 DEF S
    <3>2. call[k] \in [pc : {"idle", "decide", "run", "tell", "clear"},
                        card : Cards \cup {Room}, opt : Options, seen : S]
      BY <2>0 DEF S, CallRecs
    <3>3. r \in [pc : {"idle", "decide", "run", "tell", "clear"},
                 card : Cards \cup {Room}, opt : Options, seen : S]
      BY <3>1, <3>2
    <3> QED BY <3>3 DEF S, CallRecs
  <2>4. call' = [call EXCEPT ![k] = r]
    BY DEF Tell
  <2>5. call' \in [Callers -> CallRecs]
    BY <2>2, <2>4 DEF CallRecs
  <2>3. \A j \in Callers : call'[j].pc # "idle" => call'[j].card \in Cards
    BY DEF Tell
  <2> QED BY <2>5, <2>3 DEF Tell, CallRecs
<1>12. CASE \E k \in Callers : Clear(k)
  BY <1>12 DEF Clear, Return, Idle
<1>13. CASE \E c \in Cards : Age(c)
  BY <1>13 DEF Age
<1>14. CASE \E s \in Sweeps : SweepNext(s)
  <2>1. CASE \E s \in Sweeps : SweepList(s)
    BY <2>1 DEF SweepList, Expired
  <2>2. CASE \E s \in Sweeps : SweepTake(s)
    BY <2>2 DEF SweepTake, Decides, Callers
  <2> QED BY <1>14, <2>1, <2>2 DEF SweepNext
<1>15. CASE Crash
  BY <1>15 DEF Crash, Idle
<1>16. CASE UNCHANGED vars
  BY <1>16 DEF vars
<1> QED BY <1>1, <1>2, <1>3, <1>4, <1>5, <1>6, <1>7, <1>8, <1>9, <1>10,
           <1>11, <1>12, <1>13, <1>14, <1>15, <1>16
        DEF Next, RequestNext, Resolve

\* Everything is well typed at the start, and every action keeps it so.
THEOREM ApprovalsTypeCorrect == Spec => []TypeOK
<1>1. Init => TypeOK
  BY PlacesApart, CallersApart, Bounds
     DEF Init, TypeOK, Idle, Options, Rows, Kinds, Callers
<1>2. TypeOK /\ [Next]_vars => TypeOK'
  BY ApprovalsTypeStep
<1> QED BY <1>1, <1>2, PTL DEF Spec

-----------------------------------------------------------------------------

LEMMA IInvInit == Init => IInv
<1> SUFFICES ASSUME Init PROVE Callable /\ Undone /\ Alone /\ RowLive /\ TypeOK
  BY DEF IInv
<1>1. \A k \in Callers : call[k] = Idle
  BY DEF Init
<1>2. TypeOK
  BY PlacesApart, CallersApart, Bounds
     DEF Init, TypeOK, Idle, Options, Rows, Kinds, Callers
<1>3. Callable
  BY <1>1 DEF Init, Callable, Busy, Idle, Callers
<1>4. Undone /\ Alone /\ RowLive
  BY <1>1 DEF Init, Undone, Alone, RowLive, Is, Busy, Idle
<1> QED BY <1>2, <1>3, <1>4

\* What is in a caller's record after each kind of write to it.
Others(k) == \A j \in Callers : j # k => call'[j] = call[j]

LEMMA Becomes == ASSUME TypeOK, NEW k \in Callers, NEW pc, Become(k, pc)
                 PROVE  /\ Others(k) /\ call'[k].pc = pc
                        /\ call'[k].card = call[k].card /\ call'[k].opt = call[k].opt
<1>1. call \in [Callers -> CallRecs]
  BY DEF TypeOK, CallRecs
<1> QED BY <1>1 DEF Become, Others, CallRecs

LEMMA Returns == ASSUME TypeOK, NEW k \in Callers, Return(k)
                 PROVE  Others(k) /\ call'[k].pc = "idle"
BY DEF TypeOK, Return, Others, Idle

LEMMA Begins == ASSUME TypeOK, NEW k \in Callers, NEW c, NEW opt,
                       call' = [call EXCEPT ![k] = Decides(c, opt)]
                PROVE  /\ Others(k) /\ call'[k].pc = "decide"
                       /\ call'[k].card = c /\ call'[k].opt = opt
BY DEF TypeOK, Others, Decides

LEMMA Tells == ASSUME TypeOK, NEW k \in Callers, Tell(k)
               PROVE  /\ Others(k) /\ call'[k].pc = "clear"
                      /\ call'[k].card = call[k].card
<1>1. call \in [Callers -> CallRecs]
  BY DEF TypeOK, CallRecs
<1> QED BY <1>1 DEF Tell, Others, CallRecs

\* What a step leaves of the callers: each goes on with its card or is idle.
Goes == \A j \in Callers : Busy(j)' => Busy(j) /\ call'[j].card = call[j].card

\* A caller's own step begins nothing.
LEMMA StepGoes ==
    ASSUME TypeOK, NEW k \in Callers,
           \/ Approve(k) \/ Reject(k) \/ RejectSessionless(k) \/ Unclaimed(k)
           \/ Release(k) \/ Tell(k) \/ ReleaseFails(k) \/ Clear(k)
    PROVE  Goes /\ Busy(k) /\ UNCHANGED <<old, todo, sent>>
<1>1. UNCHANGED <<old, todo, sent>> /\ Busy(k)
  BY DEF Approve, Reject, RejectSessionless, Unclaimed, Release, Tell, ReleaseFails,
         Clear, Busy, Is, cardVars
<1>2. CASE \E pc \in {"run", "tell"} : Become(k, pc)
  BY <1>1, <1>2, Becomes DEF Goes, Others, Busy
<1>3. CASE Return(k)
  BY <1>1, <1>3, Returns DEF Goes, Others, Busy
<1>4. CASE Tell(k)
  BY <1>1, <1>4, Tells DEF Goes, Others, Busy
<1> QED BY <1>1, <1>2, <1>3, <1>4
        DEF Approve, Reject, RejectSessionless, Unclaimed, Release, ReleaseFails, Clear

\* No step is a claim on a card its caller could not have found.
LEMMA CallableStep == ASSUME TypeOK, Callable, [Next]_vars PROVE Callable'
<1>0. /\ req \in [Cards -> {"new", "judge", "send", "end"}] /\ old \subseteq Cards
      /\ todo \in [Sweeps -> SUBSET Cards] /\ todo = [s \in Sweeps |-> todo[s]]
      /\ \A k \in Callers : Busy(k) => call[k].card \in Cards
  BY DEF TypeOK, Busy
<1> USE <1>0, PlacesApart, CallersApart DEF Callable, Busy, cardVars
<1>r. \A c \in Cards : sent \subseteq sent' /\ Reached(c) => Reached(c)'
  BY DEF Reached
<1>1. CASE \E c \in Cards : Request(c) \/ Escalate(c) \/ Sent(c)
  <2> PICK c \in Cards : Request(c) \/ Escalate(c) \/ Sent(c)
    BY <1>1
  <2>1. c \notin old /\ UNCHANGED <<index, sent, old, todo, call>>
    BY DEF Request, Escalate, Sent
  <2>2. /\ \A d \in Cards : d # c => req'[d] = req[d]
        /\ call[c].pc = "idle" \/ req[c] = "send" \/ req[c] = "new"
    BY DEF Request, Escalate, Sent
  <2>3. call[c].pc = "idle"
    BY <2>2
  <2> QED BY <2>1, <2>2, <2>3, <1>r DEF Callers
<1>2. CASE \E c \in Cards : JudgeApproves(c)
  <2> PICK c \in Cards : JudgeApproves(c)
    BY <1>2
  <2>1. Others(c) /\ call'[c].card = c
    BY Begins DEF JudgeApproves, Callers
  <2> QED BY <2>1 DEF JudgeApproves, Others, Callers, Reached
<1>3. CASE \E c \in Cards : StoreCard(c) \/ IndexCard(c)
  BY <1>3 DEF StoreCard, IndexCard, Reached
<1>4. CASE \E c \in Cards, p \in Inboxes : Deliver(c, p) \/ DeliverFails(c, p)
  BY <1>4 DEF Deliver, DeliverFails, Reached
<1>5. CASE \E k \in Clicks, c \in Cards, opt \in Options : Click(k, c, opt)
  <2> PICK k \in Clicks, c \in Cards, opt \in Options : Click(k, c, opt)
    BY <1>5
  <2>1. Others(k) /\ call'[k].card = c
    BY Begins DEF Click, Callers
  <2>2. Reached(c) /\ UNCHANGED <<index, sent, old, todo, req>>
    BY DEF Click, Reached
  <2>3. \A j \in Clicks : Busy(j)' => Reached(call[j].card)'
    <3> SUFFICES ASSUME NEW j \in Clicks, Busy(j)' PROVE Reached(call[j].card)'
      OBVIOUS
    <3>1. CASE j = k
      BY <2>1, <2>2, <3>1, <1>r DEF Callers
    <3>2. CASE j # k
      <4>1. call'[j] = call[j]
        BY <2>1, <3>2 DEF Others, Callers
      <4> QED BY <2>2, <4>1, <1>r DEF Callers
    <3> QED BY <3>1, <3>2
  <2>4. \A j \in Sweeps \cup Cards : call'[j] = call[j]
    BY <2>1 DEF Others, Callers
  <2> QED BY <2>2, <2>3, <2>4
<1>6. CASE \E k \in Callers : \/ Approve(k) \/ Reject(k) \/ RejectSessionless(k)
                              \/ Unclaimed(k) \/ Release(k) \/ Tell(k)
  <2> PICK k \in Callers : \/ Approve(k) \/ Reject(k) \/ RejectSessionless(k)
                           \/ Unclaimed(k) \/ Release(k) \/ Tell(k)
    BY <1>6
  <2>1. UNCHANGED <<index, sent, old, req, todo>>
    BY DEF Approve, Reject, RejectSessionless, Unclaimed, Release, Tell
  <2>2. Goes
    BY StepGoes
  <2> QED BY <2>1, <2>2, <1>r DEF Callers, Goes
<1>7. CASE \E k \in Callers : ReleaseFails(k) \/ Clear(k)
  <2> PICK k \in Callers : ReleaseFails(k) \/ Clear(k)
    BY <1>7
  <2>1. Goes /\ Busy(k) /\ UNCHANGED <<old, todo, sent>>
    BY StepGoes
  <2>2. index' \subseteq index
    BY DEF ReleaseFails, Clear
  <2>3. /\ k \notin Cards => req' = req
        /\ k \in Cards => \A c \in Cards : c # k => req'[c] = req[c]
    BY DEF ReleaseFails, Clear
  <2>4. k \in Cards => k \notin old /\ ~Busy(k)'
    BY <2>1, Returns DEF ReleaseFails, Clear
  <2> QED BY <2>1, <2>2, <2>3, <2>4, <1>r DEF Callers, Goes
<1>8. CASE \E c \in Cards : Age(c)
  BY <1>8 DEF Age, Reached
<1>9. CASE \E s \in Sweeps : SweepNext(s)
  <2> PICK s \in Sweeps : SweepNext(s)
    BY <1>9
  <2>1. CASE SweepList(s)
    BY <2>1 DEF SweepList, Expired, Reached
  <2>2. CASE SweepTake(s)
    <3> PICK c \in todo[s] : /\ todo' = [todo EXCEPT ![s] = @ \ {c}]
                             /\ call' = [call EXCEPT ![s] = Decides(c, "reject")]
      BY <2>2 DEF SweepTake
    <3>1. Others(s) /\ call'[s].card = c
      BY Begins DEF Callers
    <3> QED BY <2>2, <3>1 DEF SweepTake, Others, Callers, Reached
  <2> QED BY <2>1, <2>2 DEF SweepNext
<1>10. CASE Crash
  BY <1>10 DEF Reached, Crash, Idle, Callers
<1>11. CASE UNCHANGED vars
  BY <1>11 DEF vars, Reached
<1> QED BY <1>1, <1>2, <1>3, <1>4, <1>5, <1>6, <1>7, <1>8, <1>9, <1>10, <1>11
        DEF Next, RequestNext, Resolve

\* A row comes with its request, and a decision takes it out of waiting.
LEMMA UndoneStep == ASSUME TypeOK, Callable, Undone, [Next]_vars PROVE Undone'
<1>0. /\ req \in [Cards -> {"new", "judge", "send", "end"}] /\ row \in [Cards -> Rows]
      /\ decided \in [Cards -> {"no", "approved", "rejected"}]
      /\ \A k \in Callers : Busy(k) => call[k].card \in Cards
  BY DEF TypeOK, Busy
<1> USE <1>0 DEF Undone, Busy, cardVars, history, WithSession, Undecided, Without
<1>1. CASE \E c \in Cards : Request(c) \/ Escalate(c) \/ Sent(c)
  BY <1>1 DEF Request, Escalate, Sent
<1>2. CASE \E c \in Cards : JudgeApproves(c)
  <2> PICK c \in Cards : JudgeApproves(c)
    BY <1>2
  <2>1. Others(c) /\ call'[c].card = c
    BY Begins DEF JudgeApproves, Callers
  <2> QED BY <2>1 DEF JudgeApproves, Others, Callers
<1>3. CASE \E c \in Cards : StoreCard(c) \/ IndexCard(c)
  BY <1>3 DEF StoreCard, IndexCard
<1>4. CASE \E c \in Cards, p \in Inboxes : Deliver(c, p) \/ DeliverFails(c, p)
  BY <1>4 DEF Deliver, DeliverFails
<1>5. CASE \E k \in Clicks, c \in Cards, opt \in Options : Click(k, c, opt)
  <2> PICK k \in Clicks, c \in Cards, opt \in Options : Click(k, c, opt)
    BY <1>5
  <2>1. Others(k) /\ call'[k].card = c
    BY Begins DEF Click, Callers
  <2> QED BY <2>1 DEF Click, Others, Callers
<1>6. CASE \E k \in Callers : \/ Approve(k) \/ Reject(k) \/ RejectSessionless(k)
                              \/ Unclaimed(k) \/ Release(k) \/ Tell(k)
                              \/ ReleaseFails(k) \/ Clear(k)
  <2> PICK k \in Callers : \/ Approve(k) \/ Reject(k) \/ RejectSessionless(k)
                           \/ Unclaimed(k) \/ Release(k) \/ Tell(k)
                           \/ ReleaseFails(k) \/ Clear(k)
    BY <1>6
  <2>1. Goes /\ Busy(k)
    BY StepGoes
  <2> DEFINE c == call[k].card
  <2>2. c \in Cards /\ req[c] # "new"
    BY <2>1
  <2>3. \A d \in Cards : (req'[d] = "new" <=> req[d] = "new")
                         /\ (row'[d] = "none" <=> row[d] = "none")
    BY <2>2 DEF Approve, Reject, RejectSessionless, Unclaimed, Release, Tell,
              ReleaseFails, Clear, Rows
  <2>4. \A d \in Cards : d # c => /\ row'[d] = row[d] /\ decided'[d] = decided[d]
                                  /\ d \in applied' <=> d \in applied
    BY <2>2 DEF Approve, Reject, RejectSessionless, Unclaimed, Release, Tell,
              ReleaseFails, Clear
  <2>5. kind' = kind /\ (WithSession(c) /\ row'[c] = "pending" =>
            row[c] = "pending" /\ decided'[c] = decided[c] /\ applied' = applied)
    BY <2>2 DEF Approve, Reject, RejectSessionless, Unclaimed, Release, Tell,
              ReleaseFails, Clear
  <2> QED BY <2>1, <2>2, <2>3, <2>4, <2>5 DEF Goes
<1>7. CASE \E c \in Cards : Age(c)
  BY <1>7 DEF Age
<1>8. CASE \E s \in Sweeps : SweepNext(s)
  <2> PICK s \in Sweeps : SweepNext(s)
    BY <1>8
  <2>1. CASE SweepList(s)
    BY <2>1 DEF SweepList
  <2>2. CASE SweepTake(s)
    <3> PICK c \in todo[s] : call' = [call EXCEPT ![s] = Decides(c, "reject")]
      BY <2>2 DEF SweepTake
    <3>1. Others(s) /\ call'[s].card = c
      BY Begins DEF Callers
    <3>2. c \in Cards /\ req[c] = "end"
      BY DEF Callable, TypeOK
    <3> QED BY <2>2, <3>1, <3>2 DEF SweepTake, Others, Callers
  <2> QED BY <2>1, <2>2 DEF SweepNext
<1>9. CASE Crash
  BY <1>9 DEF Crash, Idle
<1>10. CASE UNCHANGED vars
  BY <1>10 DEF vars
<1> QED BY <1>1, <1>2, <1>3, <1>4, <1>5, <1>6, <1>7, <1>8, <1>9, <1>10
        DEF Next, RequestNext, Resolve

\* The row lives while its handler runs, and one handler runs: who approves
\* found the row waiting, so nobody ran; and only the runner takes it away.
Runs(k, c) == call[k].pc = "run" /\ call[k].card = c /\ WithSession(c)

LEMMA AloneStep == ASSUME TypeOK, Callable, Undone, Alone, RowLive, [Next]_vars
                   PROVE  Alone' /\ RowLive'
<1>0. /\ req \in [Cards -> {"new", "judge", "send", "end"}] /\ row \in [Cards -> Rows]
      /\ \A k \in Callers : Busy(k) => call[k].card \in Cards
      /\ inFlight \subseteq Cards
  BY DEF TypeOK, Busy
<1>a. Alone /\ RowLive <=>
        \A k \in Callers, c \in Cards : Runs(k, c) =>
            /\ call[k].opt = "approve" /\ row[c] = "approved" /\ c \in inFlight
            /\ \A j \in Callers : Runs(j, c) => j = k
  BY <1>0 DEF Alone, RowLive, Runs, Is, Busy
<1>b. TypeOK'
  BY ApprovalsTypeStep
<1>c. Alone' /\ RowLive' <=>
        \A k \in Callers, c \in Cards : Runs(k, c)' =>
            /\ call'[k].opt = "approve" /\ row'[c] = "approved" /\ c \in inFlight'
            /\ \A j \in Callers : Runs(j, c)' => j = k
  BY <1>b DEF Alone, RowLive, Runs, Is, TypeOK
\* Any step that starts no handler and leaves rows and claims that are run.
<1>d. ASSUME \A k \in Callers, c \in Cards : Runs(k, c)' =>
                /\ Runs(k, c) /\ call'[k].opt = call[k].opt
                /\ row'[c] = row[c] /\ (c \in inFlight => c \in inFlight')
      PROVE  Alone' /\ RowLive'
  BY <1>a, <1>c, <1>d
<1> USE DEF Runs, cardVars
<1>1. CASE \E c \in Cards : Request(c)
  <2> PICK c \in Cards : Request(c)
    BY <1>1
  <2>1. \A k \in Callers : ~Runs(k, c)
    BY <1>a DEF Request, Undone, Busy
  <2>2. UNCHANGED <<call, kind, inFlight>> /\ \A d \in Cards : d # c => row'[d] = row[d]
    BY <1>0 DEF Request
  <2> QED BY <2>1, <2>2, <1>d DEF WithSession
<1>2. CASE \E c \in Cards : Sent(c)
  \* Nobody works on a card that reached nobody and is still being sent.
  <2> PICK c \in Cards : Sent(c)
    BY <1>2
  <2>1. ~Reached(c) => \A k \in Callers : ~Runs(k, c)
    BY DEF Sent, Callable, Busy, Callers
  <2>2. /\ UNCHANGED <<call, kind, inFlight>> /\ \A d \in Cards : d # c => row'[d] = row[d]
        /\ Reached(c) => row' = row
    BY <1>0 DEF Sent, Without
  <2> QED BY <2>1, <2>2, <1>d DEF WithSession
<1>3. CASE \E c \in Cards : \/ Escalate(c) \/ StoreCard(c) \/ IndexCard(c) \/ Age(c)
                            \/ \E p \in Inboxes : Deliver(c, p) \/ DeliverFails(c, p)
  <2>1. UNCHANGED <<call, kind, inFlight, row>>
    BY <1>3 DEF Escalate, StoreCard, IndexCard, Age, Deliver, DeliverFails
  <2> QED BY <2>1, <1>d DEF WithSession
<1>4. CASE \/ \E c \in Cards : JudgeApproves(c)
           \/ \E k \in Clicks, c \in Cards, opt \in Options : Click(k, c, opt)
           \/ \E s \in Sweeps : SweepTake(s)
  <2> PICK k \in Callers, c \in Cards, opt \in Options :
           call' = [call EXCEPT ![k] = Decides(c, opt)]
    <3>1. CASE \E c \in Cards : JudgeApproves(c)
      BY <3>1 DEF JudgeApproves, Callers, Options
    <3>2. CASE \E k \in Clicks, c \in Cards, opt \in Options : Click(k, c, opt)
      <4>1. PICK k \in Clicks, c \in Cards, opt \in Options : Click(k, c, opt)
        BY <3>2
      <4>2. call' = [call EXCEPT ![k] = Decides(c, opt)]
        BY <4>1 DEF Click
      <4> QED BY <4>2 DEF Callers
    <3>3. CASE \E s \in Sweeps : SweepTake(s)
      <4>1. PICK s \in Sweeps : SweepTake(s)
        BY <3>3
      <4>2. \E c \in todo[s] : call' = [call EXCEPT ![s] = Decides(c, "reject")]
        BY <4>1 DEF SweepTake
      <4>3. todo[s] \subseteq Cards /\ s \in Callers /\ "reject" \in Options
        BY DEF TypeOK, Callers, Options
      <4> QED BY <4>2, <4>3
    <3> QED BY <1>4, <3>1, <3>2, <3>3
  <2>1. Others(k) /\ call'[k].pc = "decide"
    BY Begins
  <2>2. UNCHANGED <<kind, inFlight, row>>
    BY <1>4 DEF JudgeApproves, Click, SweepTake
  <2> QED BY <2>1, <2>2, <1>d DEF Others, WithSession
<1>5. CASE \E k \in Callers : Approve(k)
  <2> PICK k \in Callers : Approve(k)
    BY <1>5
  <2> DEFINE c == call[k].card
  <2>0. c \in Cards
    BY <1>0 DEF Approve, Is, Busy
  <2>1. CASE Undecided(c)
    <3>1. Others(k) /\ call'[k].card = c /\ call'[k].opt = "approve"
      BY <2>1, Becomes DEF Approve, Is
    <3>2. \A j \in Callers : ~Runs(j, c)
      BY <2>0, <2>1, <1>a DEF Undecided
    <3>3. /\ row' = [row EXCEPT ![c] = "approved"] /\ kind' = kind
          /\ inFlight \subseteq inFlight' /\ (WithSession(c) => c \in inFlight')
      BY <2>1 DEF Approve
    <3>4. row'[c] = "approved" /\ \A d \in Cards : d # c => row'[d] = row[d]
      BY <3>3, <2>0, <1>0
    <3> QED BY <3>1, <3>2, <3>3, <3>4, <1>a, <1>c DEF Others, WithSession
  <2>2. CASE ~Undecided(c)
    <3>1. Others(k) /\ call'[k].pc = "idle" /\ UNCHANGED <<row, kind, inFlight>>
      BY <2>2, Returns DEF Approve
    <3> QED BY <3>1, <1>d DEF Others, WithSession
  <2> QED BY <2>1, <2>2
<1>6. CASE \E k \in Callers : Reject(k)
  <2> PICK k \in Callers : Reject(k)
    BY <1>6
  <2> DEFINE c == call[k].card
  <2>0. c \in Cards /\ UNCHANGED <<kind, inFlight>>
    BY <1>0 DEF Reject, Is, Busy
  <2>1. CASE Undecided(c)
    <3>1. Others(k) /\ call'[k].pc = "tell"
      BY <2>1, Becomes DEF Reject
    <3>2. \A j \in Callers : ~Runs(j, c)
      BY <2>0, <2>1, <1>a DEF Undecided
    <3>3. \A d \in Cards : d # c => row'[d] = row[d]
      BY <2>0, <2>1, <1>0 DEF Reject, Without
    <3> QED BY <2>0, <3>1, <3>2, <3>3, <1>d DEF Others, WithSession
  <2>2. CASE ~Undecided(c)
    <3>1. Others(k) /\ call'[k].pc = "idle" /\ row' = row
      BY <2>2, Returns DEF Reject
    <3> QED BY <2>0, <3>1, <1>d DEF Others, WithSession
  <2> QED BY <2>1, <2>2
<1>7. CASE \E k \in Callers : RejectSessionless(k)
  <2> PICK k \in Callers : RejectSessionless(k)
    BY <1>7
  <2>1. Others(k) /\ call'[k].card = call[k].card /\ UNCHANGED <<kind, inFlight, row>>
    BY Becomes DEF RejectSessionless
  <2>2. ~WithSession(call[k].card)
    BY DEF RejectSessionless, WithSession
  <2> QED BY <2>1, <2>2, <1>d DEF Others, WithSession
<1>8. CASE \E k \in Callers : Unclaimed(k)
  <2> PICK k \in Callers : Unclaimed(k)
    BY <1>8
  <2> DEFINE c == call[k].card
  <2>0. c \in Cards /\ ~WithSession(c)
    BY <1>0 DEF Unclaimed, WithSession, Busy
  <2>1. Others(k) /\ call'[k].pc = "idle" /\ UNCHANGED <<kind, inFlight>>
    BY Returns DEF Unclaimed
  <2>2. \A d \in Cards : d # c => row'[d] = row[d]
    BY <2>0, <1>0 DEF Unclaimed, Without
  <2> QED BY <2>0, <2>1, <2>2, <1>d DEF Others, WithSession
<1>9. CASE \E k \in Callers : Release(k) \/ ReleaseFails(k)
  <2> PICK k \in Callers : Release(k) \/ ReleaseFails(k)
    BY <1>9
  <2> DEFINE c == call[k].card
  <2>0. c \in Cards /\ call[k].pc = "run" /\ kind' = kind /\ inFlight' = inFlight \ {c}
    BY <1>0 DEF Release, ReleaseFails, Busy
  <2>1. Others(k) /\ call'[k].pc # "run"
    BY Becomes, Returns DEF Release, ReleaseFails
  <2>2. \A d \in Cards : d # c => row'[d] = row[d]
    BY <2>0, <1>0 DEF Release, ReleaseFails, Without
  <2>3. \A j \in Callers : j # k => ~Runs(j, c)
    BY <2>0, <1>a
  <2> QED BY <2>0, <2>1, <2>2, <2>3, <1>d DEF Others, WithSession
<1>10. CASE \E k \in Callers : Tell(k) \/ Clear(k)
  <2> PICK k \in Callers : Tell(k) \/ Clear(k)
    BY <1>10
  <2>1. Others(k) /\ call'[k].pc # "run" /\ UNCHANGED <<kind, inFlight, row>>
    BY Tells, Returns DEF Tell, Clear
  <2> QED BY <2>1, <1>d DEF Others, WithSession
<1>11. CASE \E s \in Sweeps : SweepList(s)
  <2>1. UNCHANGED <<call, kind, inFlight, row>>
    BY <1>11 DEF SweepList
  <2> QED BY <2>1, <1>d DEF WithSession
<1>12. CASE Crash
  BY <1>12, <1>c DEF Crash, Idle
<1>13. CASE UNCHANGED vars
  <2>1. UNCHANGED <<call, kind, inFlight, row>>
    BY <1>13 DEF vars
  <2> QED BY <2>1, <1>d DEF WithSession
<1> QED BY <1>1, <1>2, <1>3, <1>4, <1>5, <1>6, <1>7, <1>8, <1>9, <1>10, <1>11,
           <1>12, <1>13
        DEF Next, RequestNext, Resolve, SweepNext

LEMMA Inductive == Spec => []IInv
<1>1. IInv /\ [Next]_vars => IInv'
  BY ApprovalsTypeStep, CallableStep, UndoneStep, AloneStep DEF IInv
<1> QED BY <1>1, IInvInit, PTL DEF Spec

\* The row of an approved card is there, and claimed, while its handler runs.
THEOREM RowLivesOn == Spec => []RowLive
<1>1. IInv => RowLive
  BY DEF IInv
<1> QED BY <1>1, Inductive, PTL

\* A card with a session is decided once and applied at most once: every step
\* is a decision of OneDecision, or changes nothing it speaks of.
THEOREM ImplementsOneDecision == Spec => OneDecisionEach
<1>1. Init => Card!Init
  BY DEF Init, Card!Init
<1>2. IInv /\ [Next]_vars => [Card!Next]_(Card!vars)
  <2> SUFFICES ASSUME IInv, [Next]_vars PROVE [Card!Next]_(Card!vars)
    OBVIOUS
  <2>0. /\ row \in [Cards -> Rows] /\ decided \in [Cards -> {"no", "approved", "rejected"}]
        /\ applied \subseteq Cards /\ \A k \in Callers : Busy(k) => call[k].card \in Cards
    BY DEF IInv, TypeOK, Busy
  <2> USE DEF Card!vars
  <2>1. ASSUME UNCHANGED <<kind, decided, applied>> PROVE UNCHANGED Card!vars
    BY <2>1 DEF WithSession
  <2>2. CASE \E k \in Callers : Approve(k) \/ Reject(k) \/ RejectSessionless(k)
    <3> PICK k \in Callers : Approve(k) \/ Reject(k) \/ RejectSessionless(k)
      BY <2>2
    <3>c. call[k].card \in Cards
      BY <2>0 DEF Approve, Reject, RejectSessionless, Is, Busy
    <3> PICK c \in Cards : c = call[k].card
      BY <3>c
    <3>0. c = call[k].card /\ c \in Cards /\ kind' = kind
      BY DEF Approve, Reject, RejectSessionless, Is, Busy
    <3>1. CASE WithSession(c) /\ Undecided(c)
      <4>1. decided[c] = "no" /\ c \notin applied
        BY <3>0, <3>1 DEF IInv, Undone, Undecided
      <4>2. CASE Approve(k)
        <5>1. decided' = [decided EXCEPT ![c] = "approved"] /\ applied' = applied \cup {c}
          BY <3>1, <4>2 DEF Approve
        <5>2. {d \in applied' : kind[d] = "session"}
                = {d \in applied : kind[d] = "session"} \cup {c}
          BY <2>0, <3>0, <3>1, <5>1 DEF WithSession
        <5>3. [d \in Cards |-> IF kind[d] = "session" THEN decided'[d] ELSE "no"]
                = [[d \in Cards |-> IF kind[d] = "session" THEN decided[d] ELSE "no"]
                     EXCEPT ![c] = "approved"]
          BY <2>0, <3>0, <3>1, <5>1 DEF WithSession
        <5>4. Card!Apply(c)
          BY <3>0, <3>1, <4>1, <5>2, <5>3 DEF Card!Apply, WithSession
        <5> QED BY <5>4, <3>0 DEF Card!Next
      <4>3. CASE Reject(k)
        <5>1. decided' = [decided EXCEPT ![c] = "rejected"] /\ applied' = applied
          BY <3>1, <4>3 DEF Reject
        <5>2. Card!Decide(c, "rejected")
          BY <2>0, <3>0, <3>1, <4>1, <5>1 DEF Card!Decide, WithSession
        <5> QED BY <5>2, <3>0 DEF Card!Next
      <4>4. CASE RejectSessionless(k)
        BY <3>1, <4>4 DEF RejectSessionless, WithSession
      <4> QED BY <4>2, <4>3, <4>4
    <3>2. CASE WithSession(c) /\ ~Undecided(c)
      <4>1. ~RejectSessionless(k)
        BY <3>2 DEF RejectSessionless, WithSession
      <4>2. UNCHANGED <<decided, applied>>
        BY <3>2, <4>1 DEF Approve, Reject, history
      <4> QED BY <4>2, <3>0, <2>1
    <3>3. CASE ~WithSession(c)
      <4>1. /\ \A d \in Cards : d # c => decided'[d] = decided[d]
            /\ \A d \in Cards : d # c => (d \in applied' <=> d \in applied)
            /\ applied' \subseteq Cards
        BY <2>0, <3>0, <3>3 DEF Approve, Reject, RejectSessionless, history
      <4> QED BY <2>0, <3>0, <3>3, <4>1 DEF WithSession
    <3> QED BY <3>1, <3>2, <3>3
  <2>3. CASE \E c \in Cards : RequestNext(c) \/ Age(c)
    BY <2>3, <2>1 DEF RequestNext, Request, JudgeApproves, Escalate, Deliver,
       DeliverFails, Sent, StoreCard, IndexCard, Age, history
  <2>4. CASE \E k \in Clicks, c \in Cards, opt \in Options : Click(k, c, opt)
    BY <2>4, <2>1 DEF Click, history
  <2>5. CASE \E k \in Callers : \/ Unclaimed(k) \/ Release(k) \/ ReleaseFails(k)
                                \/ Tell(k) \/ Clear(k)
    BY <2>5, <2>1 DEF Unclaimed, Release, ReleaseFails, Tell, Clear, history
  <2>6. CASE (\E s \in Sweeps : SweepNext(s)) \/ Crash \/ UNCHANGED vars
    BY <2>6, <2>1 DEF SweepNext, SweepList, SweepTake, Crash, history, vars
  <2> QED BY <2>2, <2>3, <2>4, <2>5, <2>6 DEF Next, Resolve
<1> QED BY <1>1, <1>2, Inductive, PTL DEF Spec, OneDecisionEach, Card!Spec

-----------------------------------------------------------------------------
(* Who can still answer, and what the room shows.  Where a request is before  *)
(* it is over, who tells of a decision, and what the index still holds.       *)

\* Nobody was sent the card of a request that is still judged; its row waits or
\* the intercept has decided it. One being sent has lost its row only to who was
\* sent it. Only cards with a session are judged, or copied into the room.
Stages ==
    /\ \A c \in Cards : req[c] \in {"new", "judge"} => ~Reached(c)
    /\ \A c \in Cards : req[c] = "judge" =>
            WithSession(c) /\ (row[c] = "pending" \/ call[c].pc \in {"run", "tell", "clear"})
    /\ \A c \in Cards : req[c] = "send" /\ row[c] = "gone" => Reached(c)
    /\ \A c \in Cards : surf[c] # "no" => WithSession(c)

\* Who tells of a decision has removed the row.
Telling(k) == call[k].pc \in {"tell", "clear"}
Over == \A k \in Callers : Telling(k) =>
    WithSession(call[k].card) /\ row[call[k].card] = "gone"

\* A card that waits and was sent is in the index of its inbox, and one whose
\* request is over was sent.
Listed == \A c \in Cards, p \in Inboxes \ Chats :
    row[c] = "pending" /\ <<c, p>> \in sent => <<c, p>> \in index
Owed == \A c \in Cards \ cut : row[c] = "pending" /\ req[c] = "end" => Reached(c)

\* A copy that came in time is in the index until who clears it has read that.
Copied == \A c \in Cards \ (cut \cup late) :
    roomCard[c] = "open" /\ surf[c] = "end" =>
        /\ \/ row[c] # "gone"
           \/ \E k \in Callers : call[k].card = c /\ call[k].pc = "tell"
           => <<c, Room>> \in index
        /\ \A k \in Callers : call[k].card = c /\ call[k].pc = "clear"
                => Room \in call[k].seen

Answered == Stages /\ Over /\ Listed /\ Owed /\ Copied /\ RoomCardTrue

LEMMA AnsweredInit == Init => Answered
<1> SUFFICES ASSUME Init PROVE Answered
  OBVIOUS
<1>1. \A k \in Callers : call[k].pc = "idle"
  BY DEF Init, Idle
<1>2. Stages /\ Over /\ Listed /\ Owed
  BY <1>1 DEF Init, Stages, Over, Telling, Listed, Owed, Reached
<1>3. Copied /\ RoomCardTrue
  BY DEF Init, Copied, RoomCardTrue
<1> QED BY <1>2, <1>3 DEF Answered

\* The types a step needs, and that a row once there is never "none" again.
Typed == /\ req \in [Cards -> {"new", "judge", "send", "end"}]
         /\ row \in [Cards -> Rows]
         /\ surf \in [Cards -> {"no", "store", "index", "end"}]
         /\ roomCard \in [Cards -> {"none", "open", "resolved"}]
         /\ \A k \in Callers : Busy(k) => call[k].card \in Cards

LEMMA TypedNow == ASSUME TypeOK PROVE Typed
BY DEF TypeOK, Typed, Busy

\* Only the intercept works on a card that is judged, and on one that is being
\* sent only who was sent it.
LEMMA Finder ==
    ASSUME IInv, Stages, NEW k \in Callers, Busy(k)
    PROVE  /\ call[k].card \in Cards
           /\ req[call[k].card] = "judge" => k = call[k].card
           /\ req[call[k].card] = "send" => Reached(call[k].card)
           /\ k \in Cards => k = call[k].card /\ req[k] = "judge"
<1>1. call[k].card \in Cards
  BY DEF IInv, TypeOK, Busy
<1>2. CASE k \in Clicks
  BY <1>1, <1>2, CallersApart DEF IInv, Callable, Stages
<1>3. CASE k \in Sweeps
  BY <1>1, <1>3, CallersApart DEF IInv, Callable
<1>4. CASE k \in Cards
  BY <1>1, <1>4 DEF IInv, Callable
<1> QED BY <1>2, <1>3, <1>4 DEF Callers

\* Who runs for a card with a session finds its row as it was approved.
LEMMA Runner ==
    ASSUME IInv, NEW k \in Callers, call[k].pc = "run", WithSession(call[k].card)
    PROVE  row[call[k].card] = "approved"
BY DEF IInv, Alone, RowLive, Is

LEMMA StagesStep == ASSUME IInv, Stages, Over, [Next]_vars PROVE Stages' /\ Over'
<1>0. Typed /\ TypeOK
  BY TypedNow DEF IInv
<1> USE <1>0 DEF Stages, Over, Telling, Typed, cardVars, history, upsets, WithSession, Without
<1>r. \A c \in Cards : sent \subseteq sent' /\ Reached(c) => Reached(c)'
  BY DEF Reached
<1>s. \A c \in Cards : sent' = sent => (Reached(c)' <=> Reached(c))
  BY DEF Reached
<1>1. CASE \E c \in Cards : Request(c)
  <2> PICK c \in Cards : Request(c)
    BY <1>1
  <2>1. /\ UNCHANGED <<kind, sent, surf, call>> /\ req[c] = "new"
        /\ req'[c] = IF WithSession(c) THEN "judge" ELSE "send"
        /\ row'[c] = "pending"
        /\ \A d \in Cards : d # c => req'[d] = req[d] /\ row'[d] = row[d]
    BY DEF Request
  <2>2. \A k \in Callers : Busy(k) => call[k].card # c
    BY <2>1 DEF IInv, Undone
  <2> QED BY <2>1, <2>2, <1>s DEF Busy
<1>2. CASE \E c \in Cards : JudgeApproves(c)
  <2> PICK c \in Cards : JudgeApproves(c)
    BY <1>2
  <2>1. Others(c) /\ call'[c].pc = "decide" /\ UNCHANGED <<kind, sent, surf, req, row>>
    BY Begins DEF JudgeApproves, Callers
  <2>2. row[c] = "pending"
    BY DEF JudgeApproves
  <2> QED BY <2>1, <2>2, <1>s DEF Others, Callers
<1>3. CASE \E c \in Cards : Escalate(c)
  <2> PICK c \in Cards : Escalate(c)
    BY <1>3
  <2>1. /\ UNCHANGED <<kind, sent, row, call>> /\ req'[c] = "send" /\ req[c] = "judge"
        /\ \A d \in Cards : d # c => req'[d] = req[d] /\ surf'[d] = surf[d]
        /\ row[c] = "pending"
    BY DEF Escalate
  <2> QED BY <2>1, <1>s
<1>4. CASE \E c \in Cards : Sent(c)
  <2> PICK c \in Cards : Sent(c)
    BY <1>4
  <2>1. /\ UNCHANGED <<kind, sent, surf, call>> /\ req'[c] = "end"
        /\ \A d \in Cards : d # c => req'[d] = req[d] /\ row'[d] = row[d]
        /\ row'[c] \in {row[c], "gone"}
    BY DEF Sent
  <2>2. Stages'
    BY <2>1, <1>s
  <2>3. Over'
    BY <2>1 DEF Busy
  <2> QED BY <2>2, <2>3
<1>5. CASE \E c \in Cards : StoreCard(c) \/ IndexCard(c)
  <2> PICK c \in Cards : StoreCard(c) \/ IndexCard(c)
    BY <1>5
  <2>1. /\ UNCHANGED <<kind, sent, row, req, call>> /\ surf[c] # "no"
        /\ \A d \in Cards : d # c => surf'[d] = surf[d]
    BY DEF StoreCard, IndexCard
  <2> QED BY <2>1, <1>s
<1>6. CASE \E c \in Cards, p \in Inboxes : Deliver(c, p) \/ DeliverFails(c, p)
  <2> PICK c \in Cards, p \in Inboxes : Deliver(c, p) \/ DeliverFails(c, p)
    BY <1>6
  <2>1. /\ UNCHANGED <<kind, surf, row, req, call>> /\ req[c] = "send"
        /\ sent \subseteq sent' /\ sent' \subseteq sent \cup {<<c, p>>}
    BY DEF Deliver, DeliverFails
  <2>2. \A d \in Cards : d # c => (Reached(d)' <=> Reached(d))
    BY <2>1 DEF Reached
  <2> QED BY <2>1, <2>2, <1>r
<1>7. CASE \E k \in Clicks, c \in Cards, opt \in Options : Click(k, c, opt)
  <2> PICK k \in Clicks, c \in Cards, opt \in Options : Click(k, c, opt)
    BY <1>7
  <2>1. /\ Others(k) /\ call'[k].pc = "decide" /\ k \notin Cards
        /\ UNCHANGED <<kind, sent, surf, req, row>>
    BY Begins, CallersApart DEF Click, Callers
  <2> QED BY <2>1, <1>s DEF Others, Callers
<1>8. CASE \E k \in Callers : \/ Approve(k) \/ Reject(k) \/ RejectSessionless(k)
                              \/ Unclaimed(k) \/ Release(k) \/ Tell(k)
  <2> PICK k \in Callers : \/ Approve(k) \/ Reject(k) \/ RejectSessionless(k)
                           \/ Unclaimed(k) \/ Release(k) \/ Tell(k)
    BY <1>8
  <2> DEFINE c == call[k].card
  <2>1. Busy(k) /\ UNCHANGED <<kind, sent, surf, req>>
    BY StepGoes DEF Approve, Reject, RejectSessionless, Unclaimed, Release, Tell
  <2>2. /\ c \in Cards /\ (req[c] = "judge" => k = c) /\ (req[c] = "send" => Reached(c))
        /\ (k \in Cards => k = c)
    BY <2>1, Finder
  <2>3. Others(k) /\ \A d \in Cards : d # c => row'[d] = row[d]
    <3>1. Others(k)
      <4>1. CASE \E pc \in {"run", "tell"} : Become(k, pc)
        BY <4>1, Becomes
      <4>2. CASE Return(k)
        BY <4>2, Returns
      <4>3. CASE Tell(k)
        BY <4>3, Tells
      <4> QED BY <4>1, <4>2, <4>3
              DEF Approve, Reject, RejectSessionless, Unclaimed, Release
    <3>2. \A d \in Cards : d # c => row'[d] = row[d]
      BY <2>2 DEF Approve, Reject, RejectSessionless, Unclaimed, Release, Tell
    <3> QED BY <3>1, <3>2
  <2>4. row[c] = "gone" => row'[c] = "gone"
    BY <2>2 DEF Approve, Reject, RejectSessionless, Unclaimed, Release, Tell, Undecided
  <2>5. call'[k].pc \in {"tell", "clear"} =>
            call'[k].card = c /\ WithSession(c) /\ row'[c] = "gone"
    <3>1. CASE Approve(k) \/ RejectSessionless(k) \/ Unclaimed(k)
      BY <3>1, Becomes, Returns DEF Approve, RejectSessionless, Unclaimed
    <3>2. CASE Reject(k) \/ Release(k)
      BY <2>2, <3>2, Becomes, Returns DEF Reject, Release
    <3>3. CASE Tell(k)
      BY <2>2, <3>3, Tells DEF Tell
    <3> QED BY <3>1, <3>2, <3>3
  <2>6. req[c] = "judge" => row'[c] = "pending" \/ call'[k].pc \in {"run", "tell", "clear"}
    <3>1. CASE Approve(k)
      <4>1. CASE Undecided(c)
        BY <3>1, <4>1, Becomes DEF Approve
      <4>2. CASE ~Undecided(c)
        BY <2>2, <3>1, <4>2 DEF Approve, Undecided, Is
      <4> QED BY <4>1, <4>2
    <3>2. CASE Reject(k)
      <4>1. CASE Undecided(c)
        BY <3>2, <4>1, Becomes DEF Reject
      <4>2. CASE ~Undecided(c)
        BY <2>2, <3>2, <4>2 DEF Reject, Undecided, Is
      <4> QED BY <4>1, <4>2
    <3>3. CASE RejectSessionless(k) \/ Unclaimed(k)
      BY <2>2, <3>3 DEF RejectSessionless, Unclaimed
    <3>4. CASE Release(k)
      BY <2>2, <3>4, Becomes DEF Release
    <3>5. CASE Tell(k)
      BY <3>5, Tells
    <3> QED BY <3>1, <3>2, <3>3, <3>4, <3>5
  <2>7. Stages'
    <3>1. \A d \in Cards : d # c => call'[d] = call[d]
      BY <2>2, <2>3 DEF Others, Callers
    <3>2. \A d \in Cards : req'[d] = "judge" =>
              row'[d] = "pending" \/ call'[d].pc \in {"run", "tell", "clear"}
      <4> SUFFICES ASSUME NEW d \in Cards, req'[d] = "judge"
                   PROVE  row'[d] = "pending" \/ call'[d].pc \in {"run", "tell", "clear"}
        OBVIOUS
      <4>1. CASE d = c
        BY <2>1, <2>2, <2>6, <4>1
      <4>2. CASE d # c
        BY <2>1, <2>3, <3>1, <4>2
      <4> QED BY <4>1, <4>2
    <3> QED BY <2>1, <2>2, <2>3, <3>2, <1>s
  <2>8. Over'
    <3> SUFFICES ASSUME NEW j \in Callers, Telling(j)'
                 PROVE  WithSession(call[j].card)' /\ row'[call'[j].card] = "gone"
      OBVIOUS
    <3>1. CASE j = k
      BY <2>1, <2>5, <3>1
    <3>2. CASE j # k
      <4>1. call'[j] = call[j] /\ call[j].card \in Cards
        BY <2>3, <3>2 DEF Others, Busy
      <4> QED BY <2>1, <2>3, <2>4, <4>1
    <3> QED BY <3>1, <3>2
  <2> QED BY <2>7, <2>8
<1>9. CASE \E k \in Callers : ReleaseFails(k) \/ Clear(k)
  <2> PICK k \in Callers : ReleaseFails(k) \/ Clear(k)
    BY <1>9
  <2> DEFINE c == call[k].card
  <2>1. Busy(k) /\ UNCHANGED <<kind, sent, row>>
    BY StepGoes DEF ReleaseFails, Clear
  <2>2. /\ c \in Cards /\ (req[c] = "judge" => k = c)
        /\ (k \in Cards => k = c /\ req[c] = "judge")
    BY <2>1, Finder
  <2>3. Others(k) /\ call'[k].pc = "idle"
    BY Returns DEF ReleaseFails, Clear
  <2>4. /\ \A d \in Cards : d # c => req'[d] = req[d] /\ surf'[d] = surf[d]
        /\ k \notin Cards => req' = req /\ surf' = surf
        /\ req'[c] \in {req[c], "send", "end"}
        /\ k \in Cards => req'[c] # "judge"
    BY <2>2 DEF ReleaseFails, Clear
  <2>5. surf'[c] # "no" => WithSession(c)
    BY <2>2 DEF ReleaseFails, Clear
  <2>6. req'[c] = "send" => (req[c] = "send" \/ row[c] # "gone")
    <3>1. CASE ReleaseFails(k)
      BY <2>2, <2>4, <3>1, Runner DEF ReleaseFails
    <3>2. CASE Clear(k)
      BY <2>2, <3>2 DEF Clear
    <3> QED BY <3>1, <3>2
  <2>7. Over'
    BY <2>1, <2>3 DEF Others
  <2>8. \A d \in Cards : req'[d] = "judge" => req[d] = "judge" /\ d # k
    BY <2>2, <2>4
  <2>9. \A d \in Cards : d # k => call'[d] = call[d]
    BY <2>3 DEF Others, Callers
  <2>10. \A d \in Cards : req'[d] \in {"new", "judge"} => req[d] = req'[d]
    BY <2>2, <2>4
  <2>11. \A d \in Cards : req'[d] = "send" => req[d] = "send" \/ row[d] # "gone"
    BY <2>4, <2>6
  <2>12. \A d \in Cards : surf'[d] # "no" => WithSession(d)
    BY <2>4, <2>5
  <2> QED BY <2>1, <2>7, <2>8, <2>9, <2>10, <2>11, <2>12, <1>s
<1>10. CASE (\E c \in Cards : Age(c)) \/ UNCHANGED vars
  <2>1. UNCHANGED <<kind, sent, row, req, surf, call>>
    BY <1>10 DEF Age, vars
  <2> QED BY <2>1, <1>s
<1>11. CASE \E s \in Sweeps : SweepNext(s)
  <2> PICK s \in Sweeps : SweepNext(s)
    BY <1>11
  <2>0. UNCHANGED <<kind, sent, row, req, surf>>
    BY DEF SweepNext, SweepList, SweepTake
  <2>1. CASE SweepList(s)
    BY <2>0, <2>1, <1>s DEF SweepList
  <2>2. CASE SweepTake(s)
    <3> PICK c \in todo[s] : call' = [call EXCEPT ![s] = Decides(c, "reject")]
      BY <2>2 DEF SweepTake
    <3>1. Others(s) /\ call'[s].pc = "decide" /\ s \notin Cards
      BY Begins, CallersApart DEF Callers
    <3> QED BY <2>0, <3>1, <1>s DEF Others, Callers
  <2> QED BY <2>1, <2>2 DEF SweepNext
<1>12. CASE Crash
  <2>1. /\ UNCHANGED <<kind, sent, row>> /\ \A k \in Callers : call'[k].pc = "idle"
        /\ \A c \in Cards : /\ req'[c] \in {"new", "end"} /\ (req'[c] = "new" => req[c] = "new")
                            /\ surf'[c] = "no" <=> surf[c] = "no"
    BY <1>12 DEF Crash, Idle
  <2> QED BY <2>1, <1>s
<1> QED BY <1>1, <1>2, <1>3, <1>4, <1>5, <1>6, <1>7, <1>8, <1>9, <1>10, <1>11, <1>12
        DEF Next, RequestNext, Resolve

LEMMA ListedStep ==
    ASSUME IInv, Stages, Over, Listed, Owed, [Next]_vars PROVE Listed' /\ Owed'
<1>0. Typed /\ TypeOK /\ cut \subseteq cut'
  <2>1. Typed /\ TypeOK
    BY TypedNow DEF IInv
  <2>2. cut \subseteq cut'
    BY DEF Next, RequestNext, Resolve, SweepNext, Request, JudgeApproves, Escalate,
       Deliver, DeliverFails, Sent, StoreCard, IndexCard, Age, Click, Approve, Reject,
       RejectSessionless, Unclaimed, Release, ReleaseFails, Tell, Clear, SweepList,
       SweepTake, Crash, vars, upsets
  <2> QED BY <2>1, <2>2
<1> USE <1>0 DEF Listed, Owed, Typed, cardVars, history, upsets, Without
<1>r. \A c \in Cards : sent \subseteq sent' /\ Reached(c) => Reached(c)'
  BY DEF Reached
\* Any step that sends nothing, ends no request and takes no place out of the
\* index, and lets no row wait that did not.
<1>d. ASSUME sent' = sent, index \subseteq index',
             \A c \in Cards : /\ row'[c] = "pending" => row[c] = "pending"
                              /\ req'[c] = "end" => req[c] = "end"
      PROVE  Listed' /\ Owed'
  BY <1>d, <1>r
<1>1. CASE \E c \in Cards : Request(c)
  <2> PICK c \in Cards : Request(c)
    BY <1>1
  <2>1. ~Reached(c) /\ req'[c] # "end" /\ UNCHANGED <<sent, index>>
    BY DEF Request, Stages
  <2>2. \A d \in Cards : d # c => req'[d] = req[d] /\ row'[d] = row[d]
    BY DEF Request
  <2> QED BY <2>1, <2>2, <1>r DEF Reached
<1>2. CASE \E c \in Cards : \/ JudgeApproves(c) \/ Escalate(c) \/ StoreCard(c)
                            \/ IndexCard(c) \/ Age(c)
  <2>1. UNCHANGED <<sent, row>> /\ index \subseteq index'
    BY <1>2 DEF JudgeApproves, Escalate, StoreCard, IndexCard, Age
  <2>2. \A d \in Cards : req'[d] = "end" => req[d] = "end"
    BY <1>2 DEF JudgeApproves, Escalate, StoreCard, IndexCard, Age
  <2> QED BY <2>1, <2>2, <1>d
<1>3. CASE \E c \in Cards, p \in Inboxes : Deliver(c, p) \/ DeliverFails(c, p)
  <2> PICK c \in Cards, p \in Inboxes : Deliver(c, p) \/ DeliverFails(c, p)
    BY <1>3
  <2>1. CASE Deliver(c, p)
    BY <2>1, <1>r DEF Deliver
  <2>2. CASE DeliverFails(c, p)
    BY <2>2, <1>d DEF DeliverFails
  <2> QED BY <2>1, <2>2
<1>4. CASE \E c \in Cards : Sent(c)
  <2> PICK c \in Cards : Sent(c)
    BY <1>4
  <2>1. /\ UNCHANGED <<sent, index>> /\ (row'[c] = "pending" => row[c] = "pending" /\ Reached(c))
        /\ \A d \in Cards : d # c => req'[d] = req[d] /\ row'[d] = row[d]
    BY DEF Sent
  <2> QED BY <2>1, <1>r
<1>5. CASE \/ \E k \in Clicks, c \in Cards, opt \in Options : Click(k, c, opt)
           \/ \E s \in Sweeps : SweepNext(s)
           \/ UNCHANGED vars
  <2>1. UNCHANGED <<sent, row, index, req>>
    BY <1>5 DEF Click, SweepNext, SweepList, SweepTake, vars
  <2> QED BY <2>1, <1>d
<1>6. CASE \E k \in Callers : \/ Approve(k) \/ Reject(k) \/ RejectSessionless(k)
                              \/ Unclaimed(k) \/ Release(k) \/ Tell(k)
  <2>1. UNCHANGED <<sent, index, req>>
    BY <1>6 DEF Approve, Reject, RejectSessionless, Unclaimed, Release, Tell
  <2>2. \A d \in Cards : row'[d] = "pending" => row[d] = "pending"
    BY <1>6 DEF Approve, Reject, RejectSessionless, Unclaimed, Release, Tell
  <2> QED BY <2>1, <2>2, <1>d
<1>7. CASE \E k \in Callers : ReleaseFails(k)
  <2>1. UNCHANGED <<sent, index, row>>
    BY <1>7 DEF ReleaseFails
  <2>2. \A d \in Cards : req'[d] = "end" => req[d] = "end"
    BY <1>7 DEF ReleaseFails
  <2> QED BY <2>1, <2>2, <1>d
<1>8. CASE \E k \in Callers : Clear(k)
  <2> PICK k \in Callers : Clear(k)
    BY <1>8
  <2> DEFINE c == call[k].card
  <2>1. row[c] = "gone" /\ UNCHANGED <<sent, row>>
    BY DEF Clear, Over, Telling
  <2>2. \A d \in Cards, p \in Inboxes : d # c /\ <<d, p>> \in index => <<d, p>> \in index'
    BY DEF Clear
  <2>3. \A d \in Cards : d # c => req'[d] = req[d]
    BY DEF Clear
  <2> QED BY <2>1, <2>2, <2>3, <1>r
<1>9. CASE Crash
  <2>1. UNCHANGED <<sent, index, row>>
    BY <1>9 DEF Crash
  <2>2. \A c \in Cards \ cut' : req'[c] = "end" => req[c] = "end"
    BY <1>9 DEF Crash
  <2> QED BY <2>1, <2>2, <1>r
<1> QED BY <1>1, <1>2, <1>3, <1>4, <1>5, <1>6, <1>7, <1>8, <1>9
        DEF Next, RequestNext, Resolve

\* The room's copy: one caller tells of a card after its row is gone, what it
\* reads has the room in it, and what it clears was in what it read.
LEMMA CopiedStep ==
    ASSUME IInv, Stages, Over, Copied, RoomCardTrue, [Next]_vars
    PROVE  Copied' /\ RoomCardTrue'
<1>0. Typed /\ TypeOK /\ cut \subseteq cut' /\ late \subseteq late'
  <2>1. Typed /\ TypeOK
    BY TypedNow DEF IInv
  <2>2. cut \subseteq cut' /\ late \subseteq late'
    BY DEF Next, RequestNext, Resolve, SweepNext, Request, JudgeApproves, Escalate,
       Deliver, DeliverFails, Sent, StoreCard, IndexCard, Age, Click, Approve, Reject,
       RejectSessionless, Unclaimed, Release, ReleaseFails, Tell, Clear, SweepList,
       SweepTake, Crash, vars, upsets, cardVars
  <2> QED BY <2>1, <2>2
<1> USE <1>0 DEF Typed, cardVars, history, upsets, Without
<1> DEFINE Shown(c) == c \notin cut \cup late /\ roomCard[c] = "open" /\ surf[c] = "end"
           Due(c) == \/ row[c] # "gone"
                     \/ \E k \in Callers : call[k].card = c /\ call[k].pc = "tell"
           Kept(c) == /\ Due(c) => <<c, Room>> \in index
                      /\ \A k \in Callers : call[k].card = c /\ call[k].pc = "clear"
                            => Room \in call[k].seen
           Told(c) == row[c] = "gone" =>
                        ~Reached(c) \/ \E k \in Callers : call[k].card = c /\ Telling(k)
<1>a. Copied /\ RoomCardTrue <=> \A c \in Cards : Shown(c) => Kept(c) /\ Told(c)
  <2>1. Copied <=> \A c \in Cards : Shown(c) => Kept(c)
    BY DEF Copied
  <2>2. RoomCardTrue <=> \A c \in Cards : Shown(c) => Told(c)
    BY DEF RoomCardTrue, Telling
  <2> HIDE DEF Shown, Kept, Told
  <2> QED BY <2>1, <2>2
<1>b. Copied' /\ RoomCardTrue' <=> \A c \in Cards : Shown(c)' => Kept(c)' /\ Told(c)'
  <2>1. Copied' <=> \A c \in Cards : Shown(c)' => Kept(c)'
    BY DEF Copied
  <2>2. RoomCardTrue' <=> \A c \in Cards : Shown(c)' => Told(c)'
    BY DEF RoomCardTrue, Telling
  <2> HIDE DEF Shown, Kept, Told
  <2> QED BY <2>1, <2>2
<1>s. \A c \in Cards : sent' = sent => (Reached(c)' <=> Reached(c))
  BY DEF Reached
\* Any card of which a step changes nothing but that it is no longer shown.
<1> DEFINE Same(c) == /\ row'[c] = row[c]
                      /\ <<c, Room>> \in index => <<c, Room>> \in index'
                      /\ \A k \in Callers :
                            \/ call'[k] = call[k]
                            \/ /\ call[k].card = c => ~Telling(k)
                               /\ call'[k].card = c => ~Telling(k)'
<1>c. ASSUME NEW c \in Cards, Same(c), Shown(c) => (Reached(c)' <=> Reached(c)),
             Shown(c)' => Shown(c)
      PROVE  Shown(c)' => Kept(c)' /\ Told(c)'
  <2> SUFFICES ASSUME Shown(c)' PROVE Kept(c)' /\ Told(c)'
    OBVIOUS
  <2>1. Kept(c) /\ Told(c) /\ (Reached(c)' <=> Reached(c))
    BY <1>a, <1>c
  <2>2. Kept(c)'
    BY <2>1, <1>c DEF Telling
  <2>3. Told(c)'
    BY <2>1, <1>c DEF Telling
  <2> QED BY <2>2, <2>3
<1>e. ASSUME \A c \in Cards : Same(c) /\ (Shown(c)' => Shown(c)), sent' = sent
      PROVE  Copied' /\ RoomCardTrue'
  <2>1. ASSUME NEW c \in Cards PROVE Shown(c)' => Kept(c)' /\ Told(c)'
    <3>1. Same(c) /\ (Shown(c)' => Shown(c)) /\ (Reached(c)' <=> Reached(c))
      BY <1>e, <1>s
    <3> HIDE DEF Same, Shown, Kept, Told
    <3> QED BY <3>1, <1>c
  <2> QED BY <2>1, <1>b
\* Any step about one card, for which the two are shown on their own.
<1>f. ASSUME NEW c \in Cards, Shown(c)' => Kept(c)' /\ Told(c)',
             \A d \in Cards \ {c} : /\ Same(d) /\ (Shown(d)' => Shown(d))
                                    /\ (Reached(d)' <=> Reached(d))
      PROVE  Copied' /\ RoomCardTrue'
  <2>1. ASSUME NEW d \in Cards PROVE Shown(d)' => Kept(d)' /\ Told(d)'
    <3>1. CASE d = c
      BY <1>f, <3>1
    <3>2. CASE d # c
      <4>1. Same(d) /\ (Shown(d)' => Shown(d)) /\ (Reached(d)' <=> Reached(d))
        BY <1>f, <3>2
      <4> HIDE DEF Same, Shown, Kept, Told
      <4> QED BY <4>1, <1>c
    <3> QED BY <3>1, <3>2
  <2> QED BY <2>1, <1>b
<1> HIDE DEF Same, Shown, Kept, Told, Due
<1>1. CASE \E c \in Cards : Request(c)
  <2> PICK c \in Cards : Request(c)
    BY <1>1
  <2>1. /\ UNCHANGED <<sent, index, call, roomCard, surf, cut, late>>
        /\ row[c] # "gone" /\ row'[c] = "pending"
        /\ \A d \in Cards : d # c => row'[d] = row[d]
    BY DEF Request, IInv, Undone
  <2>2. Shown(c)' => Kept(c)' /\ Told(c)'
    BY <2>1, <1>a DEF Shown, Kept, Told, Due
  <2>3. \A d \in Cards \ {c} : Same(d) /\ (Shown(d)' => Shown(d))
    BY <2>1 DEF Same, Shown
  <2> QED BY <2>1, <2>2, <2>3, <1>f, <1>s
<1>2. CASE \/ \E c \in Cards : JudgeApproves(c)
           \/ \E k \in Clicks, c \in Cards, opt \in Options : Click(k, c, opt)
           \/ \E s \in Sweeps : SweepNext(s)
  <2>1. UNCHANGED <<sent, index, row, roomCard, surf, cut, late>>
    BY <1>2 DEF JudgeApproves, Click, SweepNext, SweepList, SweepTake
  <2>2. \/ call' = call
        \/ \E k \in Callers : Others(k) /\ ~Telling(k) /\ ~Telling(k)'
    <3>1. CASE \E c \in Cards : JudgeApproves(c)
      <4> PICK c \in Cards : JudgeApproves(c)
        BY <3>1
      <4>1. Others(c) /\ call'[c].pc = "decide" /\ c \in Callers /\ call[c].pc = "idle"
        BY Begins DEF Callers, JudgeApproves
      <4> QED BY <4>1 DEF Telling
    <3>2. CASE \E k \in Clicks, c \in Cards, opt \in Options : Click(k, c, opt)
      <4> PICK k \in Clicks, c \in Cards, opt \in Options : Click(k, c, opt)
        BY <3>2
      <4>1. Others(k) /\ call'[k].pc = "decide" /\ k \in Callers /\ call[k].pc = "idle"
        BY Begins DEF Callers, Click
      <4> QED BY <4>1 DEF Telling
    <3>3. CASE \E s \in Sweeps : SweepList(s)
      BY <3>3 DEF SweepList
    <3>4. CASE \E s \in Sweeps : SweepTake(s)
      <4> PICK s \in Sweeps : SweepTake(s)
        BY <3>4
      <4> PICK c \in todo[s] : call' = [call EXCEPT ![s] = Decides(c, "reject")]
        BY DEF SweepTake
      <4>1. Others(s) /\ call'[s].pc = "decide" /\ s \in Callers /\ call[s].pc = "idle"
        BY Begins DEF Callers, SweepTake
      <4> QED BY <4>1 DEF Telling
    <3> QED BY <1>2, <3>1, <3>2, <3>3, <3>4 DEF SweepNext
  <2>3. \A d \in Cards : Same(d) /\ (Shown(d)' => Shown(d))
    BY <2>1, <2>2 DEF Same, Shown, Others
  <2> QED BY <2>1, <2>3, <1>e
<1>3. CASE \E c \in Cards : Escalate(c) \/ StoreCard(c)
  <2> PICK c \in Cards : Escalate(c) \/ StoreCard(c)
    BY <1>3
  <2>1. /\ UNCHANGED <<sent, index, row, call, cut, late>> /\ surf'[c] # "end"
        /\ \A d \in Cards : d # c => surf'[d] = surf[d] /\ roomCard'[d] = roomCard[d]
    BY DEF Escalate, StoreCard
  <2>2. \A d \in Cards : Same(d) /\ (Shown(d)' => Shown(d))
    BY <2>1 DEF Same, Shown
  <2> QED BY <2>1, <2>2, <1>e
<1>4. CASE \E c \in Cards : IndexCard(c)
  \* Not late: its row is there, and nobody is clearing it.
  <2> PICK c \in Cards : IndexCard(c)
    BY <1>4
  <2>1. /\ UNCHANGED <<sent, row, call, roomCard, cut>> /\ index' = index \cup {<<c, Room>>}
        /\ \A d \in Cards : d # c => surf'[d] = surf[d]
        /\ c \notin late' => /\ row[c] # "gone"
                             /\ \A k \in Callers : ~(call[k].card = c /\ call[k].pc = "clear")
    BY DEF IndexCard
  <2>2. Shown(c)' => Kept(c)' /\ Told(c)'
    BY <2>1 DEF Shown, Kept, Told, Due
  <2>3. \A d \in Cards \ {c} : Same(d) /\ (Shown(d)' => Shown(d))
    BY <2>1 DEF Same, Shown
  <2> QED BY <2>1, <2>2, <2>3, <1>f, <1>s
<1>5. CASE \E c \in Cards, p \in Inboxes : Deliver(c, p) \/ DeliverFails(c, p)
  <2> PICK c \in Cards, p \in Inboxes : Deliver(c, p) \/ DeliverFails(c, p)
    BY <1>5
  <2>1. /\ UNCHANGED <<row, call, roomCard, surf, cut, late>> /\ req[c] = "send"
        /\ \A d \in Cards : <<d, Room>> \in index => <<d, Room>> \in index'
        /\ <<c, Room>> \in index' <=> <<c, Room>> \in index
        /\ sent \subseteq sent' /\ sent' \subseteq sent \cup {<<c, p>>}
    BY PlacesApart DEF Deliver, DeliverFails
  <2>2. \A d \in Cards \ {c} : (Reached(d)' <=> Reached(d))
    BY <2>1 DEF Reached
  <2>3. row[c] = "gone" => Reached(c)
    BY <2>1 DEF Stages
  <2>4. Shown(c)' => Kept(c)' /\ Told(c)'
    <3> SUFFICES ASSUME Shown(c)' PROVE Kept(c)' /\ Told(c)'
      OBVIOUS
    <3>1. Kept(c) /\ Told(c)
      BY <2>1, <1>a DEF Shown
    <3>2. Kept(c)'
      BY <2>1, <3>1 DEF Kept, Due
    <3>3. Told(c)'
      BY <2>1, <2>3, <3>1 DEF Told, Telling
    <3> QED BY <3>2, <3>3
  <2>5. \A d \in Cards \ {c} : Same(d) /\ (Shown(d)' => Shown(d))
    BY <2>1 DEF Same, Shown
  <2> QED BY <2>2, <2>4, <2>5, <1>f
<1>6. CASE \E c \in Cards : Sent(c)
  <2> PICK c \in Cards : Sent(c)
    BY <1>6
  <2>1. /\ UNCHANGED <<sent, index, call, roomCard, surf, cut, late>>
        /\ \A d \in Cards : d # c => row'[d] = row[d]
        /\ row'[c] = row[c] \/ (row'[c] = "gone" /\ ~Reached(c))
    BY DEF Sent
  <2>2. Shown(c)' => Kept(c)' /\ Told(c)'
    <3> SUFFICES ASSUME Shown(c)' PROVE Kept(c)' /\ Told(c)'
      OBVIOUS
    <3>1. Kept(c) /\ Told(c)
      BY <2>1, <1>a DEF Shown
    <3>2. Kept(c)'
      BY <2>1, <3>1 DEF Kept, Due
    <3>3. Told(c)'
      BY <2>1, <3>1, <1>s DEF Told, Telling
    <3> QED BY <3>2, <3>3
  <2>3. \A d \in Cards \ {c} : Same(d) /\ (Shown(d)' => Shown(d))
    BY <2>1 DEF Same, Shown
  <2> QED BY <2>1, <2>2, <2>3, <1>f, <1>s
<1>7. CASE (\E c \in Cards : Age(c)) \/ UNCHANGED vars
  <2>1. UNCHANGED <<sent, index, row, roomCard, surf, cut, late, call>>
    BY <1>7 DEF Age, vars
  <2> QED BY <2>1, <1>e DEF Same, Shown
<1>8. CASE \E k \in Callers : Approve(k) \/ Reject(k) \/ Release(k)
  <2> PICK k \in Callers : Approve(k) \/ Reject(k) \/ Release(k)
    BY <1>8
  <2>0. call[k].card \in Cards
    BY DEF Approve, Reject, Release, Is, Busy
  <2> PICK c \in Cards : c = call[k].card
    BY <2>0
  <2>1. /\ c \in Cards /\ UNCHANGED <<sent, index, roomCard, surf, cut, late>>
        /\ ~Telling(k)
    BY DEF Approve, Reject, Release, Is, Busy, Telling
  <2>2. \A d \in Cards : d # c => row'[d] = row[d]
    BY <2>1 DEF Approve, Reject, Release
  <2>3. /\ Others(k) /\ call'[k].pc # "clear"
        /\ Telling(k)' => call'[k].card = c /\ row'[c] = "gone"
    BY <2>1, Becomes, Returns DEF Approve, Reject, Release, Telling
  <2>4. \/ row'[c] = row[c] /\ ~Telling(k)'
        \/ WithSession(c) => row[c] # "gone" /\ (row'[c] = "gone" => Telling(k)')
    <3>1. CASE Approve(k)
      BY <2>1, <3>1, Becomes, Returns DEF Approve, Undecided, Telling
    <3>2. CASE Reject(k)
      BY <2>1, <3>2, Becomes, Returns DEF Reject, Undecided, Telling
    <3>3. CASE Release(k)
      BY <2>1, <3>3, Becomes, Runner DEF Release, Telling
    <3> QED BY <3>1, <3>2, <3>3
  <2>5. ASSUME NEW j \in Callers PROVE j # k => call'[j] = call[j]
    BY <2>3 DEF Others
  <2>6. Shown(c)' => Kept(c)' /\ Told(c)'
    <3> SUFFICES ASSUME Shown(c)' PROVE Kept(c)' /\ Told(c)'
      OBVIOUS
    <3>1. Kept(c) /\ Told(c) /\ WithSession(c)
      BY <2>1, <1>a DEF Stages, Shown
    <3>2. CASE row'[c] = row[c] /\ ~Telling(k)'
      BY <2>1, <2>5, <3>1, <3>2, <1>s DEF Telling, Kept, Told, Due
    <3>3. CASE row[c] # "gone" /\ (row'[c] = "gone" => Telling(k)')
      BY <2>1, <2>3, <2>5, <3>1, <3>3 DEF Telling, Kept, Told, Due
    <3> QED BY <2>4, <3>1, <3>2, <3>3
  <2>7. \A d \in Cards \ {c} : Same(d) /\ (Shown(d)' => Shown(d))
    BY <2>1, <2>2, <2>3, <2>5 DEF Same, Shown
  <2> QED BY <2>1, <2>6, <2>7, <1>f, <1>s
<1>9. CASE \E k \in Callers : RejectSessionless(k) \/ Unclaimed(k)
  <2> PICK k \in Callers : RejectSessionless(k) \/ Unclaimed(k)
    BY <1>9
  <2>0. call[k].card \in Cards
    BY DEF RejectSessionless, Unclaimed, Is, Busy
  <2> PICK c \in Cards : c = call[k].card
    BY <2>0
  <2>1. /\ c \in Cards /\ UNCHANGED <<sent, index, roomCard, surf, cut, late>>
        /\ ~Telling(k) /\ ~WithSession(c)
    BY DEF RejectSessionless, Unclaimed, Is, Busy, Telling, WithSession
  <2>2. \A d \in Cards : d # c => row'[d] = row[d]
    BY <2>1 DEF RejectSessionless, Unclaimed
  <2>3. Others(k) /\ ~Telling(k)'
    BY Becomes, Returns DEF RejectSessionless, Unclaimed, Telling
  <2>4. ~Shown(c)'
    BY <2>1 DEF Stages, Shown
  <2>5. \A d \in Cards \ {c} : Same(d) /\ (Shown(d)' => Shown(d))
    BY <2>1, <2>2, <2>3 DEF Same, Shown, Others
  <2> QED BY <2>1, <2>4, <2>5, <1>f, <1>s
<1>10. CASE \E k \in Callers : ReleaseFails(k)
  <2> PICK k \in Callers : ReleaseFails(k)
    BY <1>10
  <2>0. call[k].card \in Cards
    BY DEF ReleaseFails, Busy
  <2> PICK c \in Cards : c = call[k].card
    BY <2>0
  <2>1. /\ c \in Cards /\ UNCHANGED <<sent, index, row, roomCard, late>>
        /\ ~Telling(k) /\ c \in cut'
        /\ \A d \in Cards : d # c => surf'[d] = surf[d]
    BY DEF ReleaseFails, Busy, Telling
  <2>2. Others(k) /\ ~Telling(k)'
    BY Returns DEF ReleaseFails, Telling
  <2>3. \A d \in Cards : Same(d) /\ (Shown(d)' => Shown(d))
    BY <2>1, <2>2 DEF Same, Shown, Others
  <2> QED BY <2>1, <2>3, <1>e
<1>11. CASE \E k \in Callers : Tell(k)
  <2> PICK k \in Callers : Tell(k)
    BY <1>11
  <2>0. call[k].card \in Cards
    BY DEF Tell, Busy
  <2> PICK c \in Cards : c = call[k].card
    BY <2>0
  <2>1. /\ c \in Cards /\ call[k].pc = "tell"
        /\ UNCHANGED <<sent, index, row, roomCard, surf, cut, late>>
    BY DEF Tell, Busy
  <2>2. Others(k) /\ call'[k].pc = "clear" /\ call'[k].card = c
    BY Tells
  <2>3. call'[k].seen = Places(c)
    <3>1. call[k] \in CallRecs
      BY DEF TypeOK, CallRecs
    <3> QED BY <3>1 DEF Tell, CallRecs, TypeOK
  <2>4. Shown(c)' => Kept(c)' /\ Told(c)'
    <3> SUFFICES ASSUME Shown(c)' PROVE Kept(c)' /\ Told(c)'
      OBVIOUS
    <3>1. Kept(c) /\ <<c, Room>> \in index
      BY <2>1, <1>a DEF Shown, Kept, Due
    <3>2. Room \in call'[k].seen
      BY <2>3, <3>1 DEF Places
    <3> QED BY <2>1, <2>2, <3>1, <3>2 DEF Others, Telling, Kept, Told, Due
  <2>5. \A d \in Cards \ {c} : Same(d) /\ (Shown(d)' => Shown(d))
    BY <2>1, <2>2 DEF Same, Shown, Others
  <2> QED BY <2>1, <2>4, <2>5, <1>f, <1>s
<1>12. CASE \E k \in Callers : Clear(k)
  <2> PICK k \in Callers : Clear(k)
    BY <1>12
  <2>0. call[k].card \in Cards
    BY DEF Clear, Busy
  <2> PICK c \in Cards : c = call[k].card
    BY <2>0
  <2>1. /\ c \in Cards /\ call[k].pc = "clear"
        /\ UNCHANGED <<sent, row, surf, cut, late>>
        /\ \A d \in Cards : d # c => roomCard'[d] = roomCard[d]
        /\ \A d \in Cards : d # c /\ <<d, Room>> \in index => <<d, Room>> \in index'
    BY DEF Clear, Busy
  <2>2. Others(k) /\ call'[k].pc = "idle"
    BY Returns DEF Clear
  \* What k read has the room in it, so the copy does not stay open.
  <2>3. ~Shown(c)'
    <3>1. CASE Room \in call[k].seen
      BY <2>1, <3>1 DEF Clear, Shown
    <3>2. CASE Room \notin call[k].seen
      BY <2>1, <3>2, <1>a DEF Clear, Shown, Kept
    <3> QED BY <3>1, <3>2
  <2>4. \A d \in Cards \ {c} : Same(d) /\ (Shown(d)' => Shown(d))
    BY <2>1, <2>2 DEF Same, Shown, Others, Telling
  <2> QED BY <2>1, <2>3, <2>4, <1>f, <1>s
<1>13. CASE Crash
  <2>1. /\ UNCHANGED <<sent, index, row, roomCard, late>>
        /\ \A k \in Callers : call'[k].pc = "idle"
        /\ \A c \in Cards \ cut' : /\ surf'[c] = surf[c]
                                   /\ \A k \in Callers : call[k].card # c
    BY <1>13 DEF Crash, Idle
  <2> QED BY <2>1, <1>a, <1>b, <1>s DEF Telling, Shown, Kept, Told, Due
<1> QED BY <1>1, <1>2, <1>3, <1>4, <1>5, <1>6, <1>7, <1>8, <1>9, <1>10, <1>11,
           <1>12, <1>13
        DEF Next, RequestNext, Resolve

LEMMA AnsweredInductive == Spec => []Answered
<1>1. IInv /\ Answered /\ [Next]_vars => Answered'
  BY StagesStep, ListedStep, CopiedStep DEF Answered
<1> QED BY <1>1, AnsweredInit, Inductive, PTL DEF Spec

\* A card that waits once its request is over can be decided by someone who was
\* sent it: the index keeps its place until the row is gone.
THEOREM CardsAnswerable == Spec => []Actionable
<1>1. Answered => Actionable
  <2> SUFFICES ASSUME Answered, NEW c \in Cards \ cut, row[c] = "pending", req[c] = "end"
               PROVE  \E p \in Inboxes : <<c, p>> \in (IF p \in Chats THEN sent ELSE index)
    BY DEF Actionable
  <2> PICK p \in Inboxes : <<c, p>> \in sent
    BY DEF Answered, Owed, Reached
  <2> QED BY DEF Answered, Listed
<1> QED BY <1>1, AnsweredInductive, PTL

\* A card left open in the room waits, is being decided, reached nobody, or came
\* there after its answer.
THEOREM RoomCopiesTrue == Spec => []RoomCardTrue
<1>1. Answered => RoomCardTrue
  BY DEF Answered
<1> QED BY <1>1, AnsweredInductive, PTL
============================================================================

--------------------------- MODULE DeferredProofs ---------------------------
(***************************************************************************)
(* Theorems about what is put off until it can be done: a prompt sent      *)
(* again when its limit has reset (LimitRetry), for any people, notices,   *)
(* threads, requests, sweeps and bounds, and a restart of containers once  *)
(* none of them is mid-turn (RestartWhenIdle), for any calls, sessions and *)
(* limit.  The two share nothing.                                          *)
(***************************************************************************)
EXTENDS LimitRetry, RestartWhenIdle, TLAPS

(***************************************************************************)
(* LimitRetry: its types, that a retry is always in one place, and that    *)
(* what is sent was fit to be sent since it was claimed.                   *)
(***************************************************************************)

-----------------------------------------------------------------------------
(* Types.                                                                  *)

LEMMA RowFields == ASSUME NEW r \in Row
                   PROVE  /\ r.id \in Posts /\ r.user \in Users /\ r.notice \in Notices
                          /\ r.at \in Nat /\ Thread(r) \in Threads
  BY RetryAssumption DEF Row, Thread

\* The parts of TypeOK about the calls under way, as predicates of a function.
PostType(f) ==
    /\ f \in [Posts -> [pc : PostPcs, row : SUBSET Row]]
    /\ \A p \in Posts : f[p].pc # "idle" => \E r \in f[p].row : f[p].row = {r} /\ r.id = p
CancelType(f) ==
    /\ f \in [Cancels -> [pc : CancelPcs, user : SUBSET Users, row : SUBSET Row]]
    /\ \A c \in Cancels : f[c].pc # "idle" => \E r \in f[c].row : f[c].row = {r}
SweepType(f) ==
    /\ f \in [Sweeps -> [pc : SweepPcs, due : SUBSET Row, row : SUBSET Row,
                         fit : SUBSET {"thread", "access"}]]
    /\ \A s \in Sweeps : f[s].pc \notin {"idle", "list"} => \E r \in f[s].row : f[s].row = {r}

LEMMA PostMove ==
  ASSUME NEW f, PostType(f), NEW p \in Posts, NEW x \in [pc : PostPcs, row : SUBSET Row],
         \E r \in x.row : x.row = {r} /\ r.id = p
  PROVE  PostType([f EXCEPT ![p] = x])
  BY DEF PostType

LEMMA CancelMove ==
  ASSUME NEW f, CancelType(f), NEW c \in Cancels,
         NEW x \in [pc : CancelPcs, user : SUBSET Users, row : SUBSET Row],
         \E r \in x.row : x.row = {r}
  PROVE  CancelType([f EXCEPT ![c] = x])
  BY DEF CancelType

LEMMA SweepMove ==
  ASSUME NEW f, SweepType(f), NEW s \in Sweeps,
         NEW x \in [pc : SweepPcs, due : SUBSET Row, row : SUBSET Row,
                    fit : SUBSET {"thread", "access"}],
         x.pc \notin {"idle", "list"} => \E r \in x.row : x.row = {r}
  PROVE  SweepType([f EXCEPT ![s] = x])
  BY DEF SweepType

LEMMA InitTypeOK == Init => TypeOK
  BY RetryAssumption DEF Init, TypeOK, None, PostPcs, CancelPcs, SweepPcs

\* A request holds its one row once it has read the notice.
LEMMA PostTypeOK == ASSUME TypeOK, NEW p \in Posts, PostNext(p) PROVE TypeOK'
  <1>1. PostType(post)
    BY DEF TypeOK, PostType
  <1>2. CASE PostNotice(p)
    <2>1. PICK u \in Users, n \in Notices, j \in Jitters :
            post' = [post EXCEPT ![p] =
                       [pc |-> "asked",
                        row |-> {[id |-> p, user |-> u, notice |-> n, at |-> ResetAt[n] + j]}]]
      BY <1>2 DEF PostNotice
    <2> DEFINE r == [id |-> p, user |-> u, notice |-> n, at |-> ResetAt[n] + j]
    <2>2. r \in Row /\ r.id = p
      BY RetryAssumption DEF Row
    <2> HIDE DEF r
    <2> DEFINE x == [pc |-> "asked", row |-> {r}]
    <2>3. x \in [pc : PostPcs, row : SUBSET Row] /\ \E y \in x.row : x.row = {y} /\ y.id = p
      BY <2>2 DEF PostPcs
    <2>4. post' = [post EXCEPT ![p] = x]
      BY <2>1 DEF r
    <2> HIDE DEF x
    <2>5. PostType(post')
      BY <1>1, <2>3, <2>4, PostMove
    <2> QED
      BY <1>2, <2>5 DEF PostNotice, TypeOK, PostType, dbVars, pastVars
  <1>3. CASE PostPending(p) \/ PostLast(p) \/ PostInsert(p) \/ PostAnnounce(p)
    <2>1. PICK r \in Row : post[p].row = {r} /\ r.id = p
      BY <1>1, <1>3 DEF PostType, PostPending, PostLast, PostInsert, PostAnnounce
    <2>2. \E c \in PostPcs : post' = [post EXCEPT ![p].pc = c]
      BY <1>3, <2>1
      DEF PostPending, PostLast, PostInsert, PostAnnounce, PostStep, PostPcs
    <2>3. PICK c \in PostPcs : post' = [post EXCEPT ![p].pc = c]
      BY <2>2
    <2> DEFINE x == [post[p] EXCEPT !.pc = c]
    <2>4. x \in [pc : PostPcs, row : SUBSET Row] /\ \E y \in x.row : x.row = {y} /\ y.id = p
      BY <1>1, <2>1, <2>3 DEF PostType
    <2>5. post' = [post EXCEPT ![p] = x]
      BY <2>3
    <2> HIDE DEF x
    <2>6. PostType(post')
      BY <1>1, <2>4, <2>5, PostMove
    <2>7. rows' \subseteq Row /\ made' \subseteq Posts
      BY <1>3, <2>1 DEF TypeOK, PostPending, PostLast, PostInsert, PostAnnounce, dbVars, pastVars
    <2>8. shown' \in [Threads -> SUBSET Row]
      BY <1>3, <2>1 DEF TypeOK, PostPending, PostLast, PostInsert, PostAnnounce
    <2>9. UNCHANGED <<now, threads, history, access, cancel, sweep, del, fails, crashes, sent,
                      handed, ended, lost>>
      BY <1>3 DEF PostPending, PostLast, PostInsert, PostAnnounce, dbVars, pastVars
    <2> QED
      BY <2>6, <2>7, <2>8, <2>9 DEF TypeOK, PostType
  <1> QED
    BY <1>2, <1>3 DEF PostNext

LEMMA CancelTypeOK == ASSUME TypeOK, NEW c \in Cancels, CancelNext(c) PROVE TypeOK'
  <1>1. CancelType(cancel) /\ rows \subseteq Row
    BY DEF TypeOK, CancelType
  <1>2. CASE CancelRead(c)
    <2>1. PICK u \in Users, r \in rows :
            cancel' = [cancel EXCEPT ![c] =
                         [pc |-> IF r.user = u THEN "allowed" ELSE "asking",
                          user |-> {u}, row |-> {r}]]
      BY <1>2 DEF CancelRead
    <2> DEFINE x == [pc |-> IF r.user = u THEN "allowed" ELSE "asking", user |-> {u},
                     row |-> {r}]
    <2>2. x \in [pc : CancelPcs, user : SUBSET Users, row : SUBSET Row]
      BY <1>1 DEF CancelPcs
    <2>3. \E y \in x.row : x.row = {y}
      OBVIOUS
    <2>4. cancel' = [cancel EXCEPT ![c] = x]
      BY <2>1
    <2> HIDE DEF x
    <2>5. CancelType(cancel')
      BY <1>1, <2>2, <2>3, <2>4, CancelMove
    <2> QED
      BY <1>2, <2>5 DEF CancelRead, TypeOK, CancelType, dbVars, pastVars
  <1>3. CASE CancelPermit(c) \/ CancelDelete(c) \/ CancelAnnounce(c)
    <2>1. PICK r \in Row : cancel[c].row = {r}
      BY <1>1, <1>3 DEF CancelType, CancelPermit, CancelDelete, CancelAnnounce
    <2>2. PICK place \in CancelPcs : cancel' = [cancel EXCEPT ![c].pc = place]
      BY <1>3 DEF CancelPermit, CancelDelete, CancelAnnounce, CancelPcs
    <2> DEFINE x == [cancel[c] EXCEPT !.pc = place]
    <2>3. x \in [pc : CancelPcs, user : SUBSET Users, row : SUBSET Row]
      BY <1>1, <2>1, <2>2 DEF CancelType
    <2>4. \E y \in x.row : x.row = {y}
      BY <1>1, <2>1 DEF CancelType
    <2>5. cancel' = [cancel EXCEPT ![c] = x]
      BY <2>2
    <2> HIDE DEF x
    <2>6. CancelType(cancel')
      BY <1>1, <2>3, <2>4, <2>5, CancelMove
    <2>7. rows' \subseteq Row
      BY <1>1, <1>3, <2>1 DEF CancelPermit, CancelDelete, CancelAnnounce, dbVars
    <2>8. ended' \subseteq Posts
      BY <1>1, <1>3, <2>1, RowFields
      DEF TypeOK, CancelPermit, CancelDelete, CancelAnnounce, pastVars
    <2>9. shown' \in [Threads -> SUBSET Row]
      BY <1>3, <2>1 DEF TypeOK, CancelPermit, CancelDelete, CancelAnnounce, Hush, None
    <2>10. UNCHANGED <<now, threads, history, access, post, sweep, del, fails, crashes, made,
                       sent, handed, lost>>
      BY <1>3 DEF CancelPermit, CancelDelete, CancelAnnounce, dbVars, pastVars
    <2> QED
      BY <2>6, <2>7, <2>8, <2>9, <2>10 DEF TypeOK, CancelType
  <1> QED
    BY <1>2, <1>3 DEF CancelNext

\* After a row is dealt with, sweep s is back at its list.
LEMMA RestType == ASSUME TypeOK, NEW s \in Sweeps
                  PROVE  SweepType(sweep) /\ SweepType([sweep EXCEPT ![s] = Rest(s)])
  <1>1. SweepType(sweep)
    BY DEF TypeOK, SweepType
  <1>2. sweep[s] \in [pc : SweepPcs, due : SUBSET Row, row : SUBSET Row,
                     fit : SUBSET {"thread", "access"}]
    BY <1>1 DEF SweepType
  <1>3. /\ Rest(s) \in [pc : SweepPcs, due : SUBSET Row, row : SUBSET Row,
                        fit : SUBSET {"thread", "access"}]
        /\ Rest(s).pc = "list"
    BY <1>2 DEF Rest, None, SweepPcs
  <1> QED
    BY <1>1, <1>3, SweepMove

LEMMA SweepTypeOK == ASSUME TypeOK, NEW s \in Sweeps, SweepNext(s) PROVE TypeOK'
  <1> DEFINE SweepRec == [pc : SweepPcs, due : SUBSET Row, row : SUBSET Row,
                          fit : SUBSET {"thread", "access"}]
  <1>1. /\ SweepType(sweep) /\ SweepType([sweep EXCEPT ![s] = Rest(s)])
        /\ rows \subseteq Row /\ sweep[s] \in SweepRec
    BY RestType DEF TypeOK
  <1>2. CASE SweepList(s)
    <2> DEFINE due == {r \in rows : r.at <= now}
               x == [sweep[s] EXCEPT !.pc = "list", !.due = due]
    <2>1. x \in SweepRec /\ x.pc = "list"
      BY <1>1 DEF SweepPcs
    <2>2. sweep' = [sweep EXCEPT ![s] = x]
      BY <1>2 DEF SweepList
    <2> HIDE DEF x
    <2>3. SweepType(sweep')
      BY <1>1, <2>1, <2>2, SweepMove
    <2> QED
      BY <1>2, <2>3 DEF TypeOK, SweepType, SweepList, dbVars, pastVars
  <1>5. CASE SweepEnd(s)
    <2> DEFINE x == [sweep[s] EXCEPT !.pc = "idle"]
    <2>1. x \in SweepRec /\ x.pc = "idle"
      BY <1>1 DEF SweepPcs
    <2>2. sweep' = [sweep EXCEPT ![s] = x]
      BY <1>5 DEF SweepEnd
    <2> HIDE DEF x
    <2>3. SweepType(sweep')
      BY <1>1, <2>1, <2>2, SweepMove
    <2> QED
      BY <1>5, <2>3 DEF TypeOK, SweepType, SweepEnd, dbVars, pastVars
  <1>3. CASE SweepClaim(s)
    <2>1. PICK r \in sweep[s].due :
            /\ rows' = {q \in rows : q.id # r.id}
            /\ sweep' = [sweep EXCEPT ![s] =
                 IF \E q \in rows : q.id = r.id
                 THEN [pc |-> "claimed", due |-> sweep[s].due \ {r}, row |-> {r}, fit |-> Fit(r)]
                 ELSE [sweep[s] EXCEPT !.due = sweep[s].due \ {r}]]
      BY <1>3 DEF SweepClaim
    <2>2. Fit(r) \in SUBSET {"thread", "access"} /\ r \in Row /\ sweep[s].pc = "list"
      BY <1>1, <1>3 DEF Fit, SweepClaim
    <2> DEFINE x == [pc |-> "claimed", due |-> sweep[s].due \ {r}, row |-> {r}, fit |-> Fit(r)]
               y == [sweep[s] EXCEPT !.due = sweep[s].due \ {r}]
    <2>3. x \in SweepRec /\ y \in SweepRec /\ y.pc = "list" /\ x.row = {r}
      BY <1>1, <2>2 DEF SweepPcs
    <2>4. sweep' = [sweep EXCEPT ![s] = x] \/ sweep' = [sweep EXCEPT ![s] = y]
      <3> DEFINE z == IF \E q \in rows : q.id = r.id THEN x ELSE y
      <3>1. sweep' = [sweep EXCEPT ![s] = z]
        BY <2>1
      <3>2. z = x \/ z = y
        OBVIOUS
      <3> HIDE DEF x, y, z
      <3> QED
        BY <3>1, <3>2
    <2> HIDE DEF x, y
    <2>5. SweepType(sweep')
      BY <1>1, <2>3, <2>4, SweepMove
    <2> QED
      BY <1>3, <2>1, <2>5 DEF TypeOK, SweepType, SweepClaim, pastVars
  <1>4. CASE \/ SweepThread(s) \/ SweepAccess(s) \/ SweepStore(s) \/ SweepThrow(s)
             \/ SweepRestore(s) \/ SweepRestoreFails(s) \/ SweepTell(s) \/ SweepHand(s)
    <2> USE DEF SweepThread, SweepAccess, SweepStore, SweepThrow, SweepRestore,
                SweepRestoreFails, SweepTell, SweepHand
    <2>1. PICK r \in Row : sweep[s].row = {r}
      BY <1>1, <1>4 DEF SweepType
    <2>2. \/ sweep' = [sweep EXCEPT ![s] = Rest(s)]
          \/ \E c \in {"there", "reachable", "stored", "failed", "told"} :
                sweep' = [sweep EXCEPT ![s].pc = c]
      BY <1>4, <2>1
    <2>3. ASSUME NEW c \in {"there", "reachable", "stored", "failed", "told"},
                 sweep' = [sweep EXCEPT ![s].pc = c]
          PROVE  SweepType(sweep')
      <3> DEFINE x == [sweep[s] EXCEPT !.pc = c]
      <3>1. x \in SweepRec /\ x.row = {r}
        BY <1>1, <2>1 DEF SweepPcs
      <3>2. sweep' = [sweep EXCEPT ![s] = x]
        BY <2>3
      <3> HIDE DEF x
      <3> QED
        BY <1>1, <3>1, <3>2, SweepMove
    <2>4. SweepType(sweep')
      BY <1>1, <2>2, <2>3
    <2>5. rows' \subseteq Row
      BY <1>1, <1>4, <2>1 DEF dbVars
    <2>6. ended' \subseteq Posts /\ lost' \subseteq Posts /\ handed' \subseteq Posts
      BY <1>4, <2>1, RowFields DEF TypeOK, pastVars
    <2>7. sent' \in [Posts -> Nat] /\ fails' \in Nat
      BY <1>4, <2>1, RowFields DEF TypeOK, pastVars
    <2>8. shown' \in [Threads -> SUBSET Row]
      BY <1>4, <2>1 DEF TypeOK, Hush, None
    <2>9. UNCHANGED <<now, threads, history, access, post, cancel, del, crashes, made>>
      BY <1>4 DEF dbVars, pastVars
    <2> QED
      BY <2>4, <2>5, <2>6, <2>7, <2>8, <2>9 DEF TypeOK, SweepType
  <1> QED
    BY <1>2, <1>3, <1>4, <1>5 DEF SweepNext

LEMMA HostTypeOK ==
  ASSUME TypeOK,
         \/ \E t \in Threads : DeleteThread(t)
         \/ \E u \in Users : LoseAccess(u) \/ GainAccess(u)
         \/ Tick \/ Crash
  PROVE  TypeOK'
  <1> USE DEF TypeOK
  <1>1. ASSUME NEW t \in Threads, DeleteThread(t) PROVE TypeOK'
    <2>1. del' \in [Threads -> 0..3]
      BY <1>1 DEF DeleteThread
    <2>2. rows' \subseteq Row /\ threads' \subseteq Threads /\ history' \subseteq Threads
      BY <1>1 DEF DeleteThread
    <2>3. ended' \subseteq Posts
      BY <1>1, RowFields DEF DeleteThread, Pending
    <2> QED
      BY <1>1, <2>1, <2>2, <2>3 DEF DeleteThread
  <1>2. ASSUME NEW u \in Users, LoseAccess(u) PROVE TypeOK'
    BY <1>2 DEF LoseAccess, callVars, pastVars
  <1>3. ASSUME NEW u \in Users, GainAccess(u) PROVE TypeOK'
    <2>1. SweepType(sweep')
      <3> DEFINE SweepRec == [pc : SweepPcs, due : SUBSET Row, row : SUBSET Row,
                              fit : SUBSET {"thread", "access"}]
                 g(s) == IF \E r \in sweep[s].row : r.user = u
                         THEN [sweep[s] EXCEPT !.fit = @ \cup {"access"}] ELSE sweep[s]
      <3>1. ASSUME NEW s \in Sweeps
            PROVE  /\ g(s) \in SweepRec /\ g(s).pc = sweep[s].pc /\ g(s).row = sweep[s].row
        <4>1. sweep[s] \in SweepRec
          OBVIOUS
        <4>2. LET x == [sweep[s] EXCEPT !.fit = @ \cup {"access"}]
              IN  x \in SweepRec /\ x.pc = sweep[s].pc /\ x.row = sweep[s].row
          BY <4>1
        <4> QED
          BY <4>1, <4>2
      <3>2. sweep' = [s \in Sweeps |-> g(s)]
        BY <1>3 DEF GainAccess
      <3> HIDE DEF g
      <3>3. sweep' \in [Sweeps -> SweepRec]
        BY <3>1, <3>2
      <3>4. ASSUME NEW s \in Sweeps, sweep'[s].pc \notin {"idle", "list"}
            PROVE  \E r \in sweep'[s].row : sweep'[s].row = {r}
        BY <3>1, <3>2, <3>4
      <3> QED
        BY <3>3, <3>4 DEF SweepType
    <2>2. /\ access' \subseteq Users
          /\ UNCHANGED <<now, threads, history, rows, post, cancel, del, fails, crashes, shown>>
      BY <1>3 DEF GainAccess
    <2>3. UNCHANGED <<made, sent, handed, ended, lost>>
      BY <1>3 DEF GainAccess, pastVars
    <2> QED
      BY <2>1, <2>2, <2>3 DEF SweepType
  <1>4. CASE Tick
    BY <1>4 DEF Tick, dbVars, callVars, pastVars
  <1>5. CASE Crash
    <2>1. /\ post' \in [Posts -> [pc : PostPcs, row : SUBSET Row]]
          /\ \A p \in Posts : post'[p].pc # "idle" =>
                \E r \in post'[p].row : post'[p].row = {r} /\ r.id = p
      BY <1>5 DEF Crash, PostPcs
    <2>2. CancelType(cancel')
      <3>1. CancelType(cancel)
        BY DEF TypeOK, CancelType
      <3>2. ASSUME NEW c \in Cancels
            PROVE  [cancel[c] EXCEPT !.pc = "dead"]
                      \in [pc : CancelPcs, user : SUBSET Users, row : SUBSET Row]
        BY <3>1 DEF CancelType, CancelPcs
      <3>3. /\ cancel' = [c \in Cancels |-> IF cancel[c].pc = "idle" THEN cancel[c]
                                            ELSE [cancel[c] EXCEPT !.pc = "dead"]]
        BY <1>5 DEF Crash
      <3>4. cancel' \in [Cancels -> [pc : CancelPcs, user : SUBSET Users, row : SUBSET Row]]
        BY <3>1, <3>2, <3>3 DEF CancelType
      <3>5. \A c \in Cancels : cancel'[c].pc # "idle" =>
                \E r \in cancel'[c].row : cancel'[c].row = {r}
        BY <3>1, <3>3 DEF CancelType
      <3> QED
        BY <3>4, <3>5 DEF CancelType
    <2>3. SweepType(sweep')
      BY <1>5 DEF Crash, SweepType, SweepPcs, None
    <2>4. del' \in [Threads -> 0..3] /\ lost' \subseteq Posts /\ crashes' \in Nat
      BY <1>5 DEF Crash
    <2> QED
      BY <1>5, <2>1, <2>2, <2>3, <2>4 DEF Crash, SweepType, CancelType, dbVars
  <1> QED
    BY <1>1, <1>2, <1>3, <1>4, <1>5

LEMMA NextTypeOK == TypeOK /\ [Next]_vars => TypeOK'
  <1> SUFFICES ASSUME TypeOK, [Next]_vars PROVE TypeOK'
    OBVIOUS
  <1>1. CASE UNCHANGED vars
    BY <1>1 DEF TypeOK, vars, dbVars, callVars, pastVars
  <1>2. CASE Next
    BY <1>2, PostTypeOK, CancelTypeOK, SweepTypeOK, HostTypeOK DEF Next
  <1> QED
    BY <1>1, <1>2

\* Every reachable state of the tables, the calls under way and the history
\* is well typed, and a call past its first read holds one row.
THEOREM RetryTypeCorrect == Spec => []TypeOK
  BY InitTypeOK, NextTypeOK, PTL DEF Spec

-----------------------------------------------------------------------------
(* One place.  The induction also needs that a retry is made only by the   *)
(* request it is named after, and that no two rows have one id.            *)

HandPcs == {"claimed", "there", "reachable", "failed"}
NotYet  == \A p \in Posts : p \in made => post[p].pc \in {"made", "done", "dead"}
OneRow  == \A r, q \in rows : r.id = q.id => r = q
PlaceInv == TypeOK /\ OnePlace /\ NotYet /\ OneRow

LEMMA SamePlaces ==
  ASSUME OnePlace, UNCHANGED <<rows, made, sent, ended, lost>>,
         \A p \in Posts : Hand(p)' = Hand(p)
  PROVE  OnePlace'
  BY DEF OnePlace, InRows

\* What a step of sweep s does to the sweeps that hold a retry.
LEMMA HandMove ==
  ASSUME TypeOK, NEW s \in Sweeps, NEW x, sweep' = [sweep EXCEPT ![s] = x]
  PROVE  \A p : Hand(p)' = (Hand(p) \ {s})
                  \cup (IF x.pc \in HandPcs /\ \E r \in x.row : r.id = p THEN {s} ELSE {})
  <1>1. \A q \in Sweeps : sweep'[q] = IF q = s THEN x ELSE sweep[q]
    BY DEF TypeOK
  <1> QED
    BY <1>1 DEF Hand, HandPcs

\* A step that leaves sweep s holding what it held, or nothing as before.
LEMMA HandSame ==
  ASSUME TypeOK, NEW s \in Sweeps, NEW x, sweep' = [sweep EXCEPT ![s] = x],
         \/ sweep[s].pc \in HandPcs /\ x.pc \in HandPcs /\ x.row = sweep[s].row
         \/ sweep[s].pc \notin HandPcs /\ x.pc \notin HandPcs
  PROVE  \A p \in Posts : Hand(p)' = Hand(p)
  <1>1. \A p : Hand(p)' = (Hand(p) \ {s})
                  \cup (IF x.pc \in HandPcs /\ \E r \in x.row : r.id = p THEN {s} ELSE {})
    BY HandMove
  <1>2. \A p : s \in Hand(p) <=> sweep[s].pc \in HandPcs /\ \E r \in sweep[s].row : r.id = p
    BY DEF Hand, HandPcs
  <1> QED
    BY <1>1, <1>2

\* A step by which sweep s lets go of the retry r it holds.
LEMMA HandLeaves ==
  ASSUME TypeOK, OnePlace, NEW s \in Sweeps, NEW x, sweep' = [sweep EXCEPT ![s] = x],
         NEW r \in Row, sweep[s].row = {r}, sweep[s].pc \in HandPcs, x.pc \notin HandPcs
  PROVE  /\ \A p \in Posts : p # r.id => Hand(p)' = Hand(p)
         /\ Hand(r.id)' = {} /\ Hand(r.id) # {} /\ r.id \in Posts /\ r.id \in made
         /\ ~ InRows(r.id) /\ sent[r.id] = 0 /\ r.id \notin ended /\ r.id \notin lost
  <1>0. \A p : Hand(p)' = (Hand(p) \ {s})
                  \cup (IF x.pc \in HandPcs /\ \E q \in x.row : q.id = p THEN {s} ELSE {})
    BY HandMove
  <1>1. \A p : Hand(p)' = Hand(p) \ {s}
    BY <1>0
  <1>2. \A p : s \in Hand(p) <=> p = r.id
    BY DEF Hand, HandPcs
  <1>3. r.id \in Posts
    BY RowFields
  <1>4. \A s2 \in Hand(r.id) : s2 = s
    BY <1>2, <1>3 DEF OnePlace
  <1>5. \A p \in Posts : p # r.id => Hand(p)' = Hand(p)
    BY <1>1, <1>2
  <1>6. Hand(r.id)' = {}
    BY <1>1, <1>4
  <1>7. Hand(r.id) # {}
    BY <1>2
  <1> QED
    BY <1>3, <1>5, <1>6, <1>7 DEF OnePlace

LEMMA PostPlaces == ASSUME PlaceInv, NEW p \in Posts, PostNext(p)
                    PROVE  OnePlace' /\ NotYet' /\ OneRow'
  <1> USE DEF PlaceInv
  <1>1. sweep' = sweep /\ \A q \in Posts : Hand(q)' = Hand(q)
    BY DEF PostNext, PostNotice, PostPending, PostLast, PostInsert, PostAnnounce, Hand
  <1>2. \A q \in Posts : q # p => post'[q] = post[q]
    BY DEF TypeOK, PostNext, PostNotice, PostPending, PostLast, PostInsert, PostAnnounce,
           PostStep
  <1>3. CASE PostNotice(p) \/ PostPending(p) \/ PostLast(p) \/ PostAnnounce(p)
    <2>1. UNCHANGED <<rows, made, sent, ended, lost>>
      BY <1>3 DEF PostNotice, PostPending, PostLast, PostAnnounce, dbVars, pastVars
    <2>2. post[p].pc = "made" \/ p \notin made
      BY <1>3 DEF PostNotice, PostPending, PostLast, PostAnnounce, NotYet
    <2>3. post[p].pc = "made" => post'[p].pc = "done"
      BY <1>3 DEF TypeOK, PostNotice, PostPending, PostLast, PostAnnounce, PostStep
    <2>4. NotYet'
      BY <1>2, <2>1, <2>2, <2>3 DEF NotYet
    <2> QED
      BY <1>1, <2>1, <2>4, SamePlaces DEF OneRow
  <1>4. CASE PostInsert(p)
    <2>1. PICK r \in Row : post[p].row = {r} /\ r.id = p
      BY <1>4 DEF TypeOK, PostInsert
    <2>2. p \notin made
      BY <1>4 DEF PostInsert, NotYet
    <2>3. CASE rows' = rows /\ made' = made
      <3>1. UNCHANGED <<sent, ended, lost>>
        BY <1>4 DEF PostInsert
      <3>2. OnePlace'
        BY <1>1, <2>3, <3>1, SamePlaces
      <3>3. NotYet'
        BY <1>2, <2>2, <2>3 DEF NotYet
      <3> QED
        BY <2>3, <3>2, <3>3 DEF OneRow
    <2>4. CASE rows' = rows \cup {r} /\ made' = made \cup {p} /\ PostStep(p, "made")
      <3>1. UNCHANGED <<sent, ended, lost>>
        BY <1>4 DEF PostInsert
      <3>2. /\ ~ InRows(p) /\ Hand(p) = {} /\ sent[p] = 0 /\ p \notin ended /\ p \notin lost
        BY <2>2 DEF OnePlace
      <3>3. \A q \in Posts : InRows(q)' <=> InRows(q) \/ q = p
        BY <2>1, <2>4 DEF InRows
      <3>4. OnePlace'
        BY <1>1, <2>4, <3>1, <3>2, <3>3 DEF OnePlace
      <3>5. NotYet'
        BY <1>2, <2>4 DEF NotYet, PostStep, TypeOK
      <3>6. OneRow'
        BY <2>1, <2>4, <3>2 DEF OneRow, InRows
      <3> QED
        BY <3>4, <3>5, <3>6
    <2> QED
      BY <1>4, <2>1, <2>3, <2>4 DEF PostInsert
  <1> QED
    BY <1>3, <1>4 DEF PostNext

LEMMA CancelPlaces == ASSUME PlaceInv, NEW c \in Cancels, CancelNext(c)
                      PROVE  OnePlace' /\ NotYet' /\ OneRow'
  <1> USE DEF PlaceInv
  <1>1. /\ sweep' = sweep /\ post' = post /\ made' = made /\ sent' = sent /\ lost' = lost
        /\ \A q \in Posts : Hand(q)' = Hand(q)
    BY DEF CancelNext, CancelRead, CancelPermit, CancelDelete, CancelAnnounce, Hand, pastVars
  <1>2. NotYet'
    BY <1>1 DEF NotYet
  <1>3. CASE CancelRead(c) \/ CancelPermit(c) \/ CancelAnnounce(c)
    <2>1. rows' = rows /\ ended' = ended
      BY <1>3 DEF CancelRead, CancelPermit, CancelAnnounce, dbVars, pastVars
    <2> QED
      BY <1>1, <1>2, <2>1, SamePlaces DEF OneRow
  <1>4. CASE CancelDelete(c)
    <2> DEFINE Gone(r) == {q \in rows : q.id = r.id}
    <2>1. PICK r \in cancel[c].row :
            rows' = rows \ Gone(r) /\ ended' = ended \cup {q.id : q \in Gone(r)}
      BY <1>4 DEF CancelDelete
    <2>2. \A p \in Posts : InRows(p)' <=> InRows(p) /\ p # r.id
      BY <2>1 DEF InRows
    <2>3. \A p \in Posts : p \in ended' <=> p \in ended \/ (p = r.id /\ InRows(p))
      BY <2>1 DEF InRows
    <2> HIDE DEF Gone
    <2>4. OnePlace'
      BY <1>1, <2>2, <2>3 DEF OnePlace
    <2> QED
      BY <1>2, <2>1, <2>4 DEF OneRow
  <1> QED
    BY <1>3, <1>4 DEF CancelNext

LEMMA SweepPlaces == ASSUME PlaceInv, NEW s \in Sweeps, SweepNext(s)
                     PROVE  OnePlace' /\ NotYet' /\ OneRow'
  <1> USE DEF PlaceInv
  <1>1. post' = post /\ made' = made
    BY DEF SweepNext, SweepList, SweepClaim, SweepEnd, SweepThread, SweepAccess, SweepStore,
           SweepThrow, SweepRestore, SweepRestoreFails, SweepTell, SweepHand, pastVars
  <1>2. NotYet'
    BY <1>1 DEF NotYet
  <1>3. sweep[s].pc \notin {"idle", "list"} =>
          \E r \in Row : sweep[s].row = {r}
    BY DEF TypeOK
  <1>4. sweep[s] \in [pc : SweepPcs, due : SUBSET Row, row : SUBSET Row,
                      fit : SUBSET {"thread", "access"}]
    BY DEF TypeOK
  <1>5. Rest(s).pc = "list"
    BY <1>4 DEF Rest
  <1>6. ASSUME NEW x, sweep' = [sweep EXCEPT ![s] = x],
               UNCHANGED <<rows, sent, ended, lost>>,
               \/ sweep[s].pc \in HandPcs /\ x.pc \in HandPcs /\ x.row = sweep[s].row
               \/ sweep[s].pc \notin HandPcs /\ x.pc \notin HandPcs
        PROVE  OnePlace' /\ OneRow'
    BY <1>1, <1>6, HandSame, SamePlaces DEF OneRow
  <1>7. CASE SweepList(s)
    <2> DEFINE x == [sweep[s] EXCEPT !.pc = "list", !.due = {r \in rows : r.at <= now}]
    <2>1. sweep' = [sweep EXCEPT ![s] = x] /\ x.pc = "list" /\ sweep[s].pc = "idle"
      BY <1>4, <1>7 DEF SweepList
    <2>2. UNCHANGED <<rows, sent, ended, lost>>
      BY <1>7 DEF SweepList, dbVars, pastVars
    <2> HIDE DEF x
    <2> QED
      BY <1>2, <1>6, <2>1, <2>2 DEF HandPcs
  <1>8. CASE SweepClaim(s)
    <2>1. PICK r \in sweep[s].due :
            /\ rows' = {q \in rows : q.id # r.id}
            /\ sweep' = [sweep EXCEPT ![s] =
                 IF \E q \in rows : q.id = r.id
                 THEN [pc |-> "claimed", due |-> sweep[s].due \ {r}, row |-> {r}, fit |-> Fit(r)]
                 ELSE [sweep[s] EXCEPT !.due = sweep[s].due \ {r}]]
      BY <1>8 DEF SweepClaim
    <2>2. UNCHANGED <<sent, ended, lost>> /\ sweep[s].pc = "list"
      BY <1>8 DEF SweepClaim, pastVars
    <2>3. OneRow'
      BY <2>1 DEF OneRow
    <2> DEFINE x == [pc |-> "claimed", due |-> sweep[s].due \ {r}, row |-> {r}, fit |-> Fit(r)]
               y == [sweep[s] EXCEPT !.due = sweep[s].due \ {r}]
               z == IF \E q \in rows : q.id = r.id THEN x ELSE y
    <2>4. sweep' = [sweep EXCEPT ![s] = z]
      BY <2>1
    <2>5. x.pc = "claimed" /\ x.row = {r} /\ y.pc = "list" /\ r.id \in Posts
      BY <1>4, <2>2, RowFields
    <2>6. CASE InRows(r.id)
      <3>1. z = x
        BY <2>6 DEF InRows
      <3> HIDE DEF x, y, z
      <3>2. \A p : Hand(p)' = (Hand(p) \ {s})
                      \cup (IF x.pc \in HandPcs /\ \E q \in x.row : q.id = p THEN {s} ELSE {})
        BY <2>4, <3>1, HandMove
      <3>3. \A p : s \notin Hand(p)
        BY <2>2 DEF Hand
      <3>4. \A p \in Posts : Hand(p)' = IF p = r.id THEN Hand(p) \cup {s} ELSE Hand(p)
        BY <2>5, <3>2, <3>3 DEF HandPcs
      <3>5. \A p \in Posts : InRows(p)' <=> InRows(p) /\ p # r.id
        BY <2>1 DEF InRows
      <3>6. Hand(r.id) = {}
        BY <2>5, <2>6 DEF OnePlace
      <3>7. OnePlace'
        BY <1>1, <2>2, <2>5, <2>6, <3>4, <3>5, <3>6 DEF OnePlace
      <3> QED
        BY <1>2, <2>3, <3>7
    <2>7. CASE ~ InRows(r.id)
      <3>1. z = y /\ rows' = rows
        BY <2>1, <2>7 DEF InRows
      <3> HIDE DEF x, y, z
      <3> QED
        BY <1>2, <1>6, <2>2, <2>4, <2>5, <3>1 DEF HandPcs
    <2> QED
      BY <2>6, <2>7
  <1>9. CASE SweepEnd(s) \/ SweepTell(s) \/ SweepHand(s) \/ SweepThrow(s)
    <2>1. UNCHANGED <<rows, sent, ended, lost>>
      BY <1>9 DEF SweepEnd, SweepTell, SweepHand, SweepThrow, dbVars, pastVars
    <2>2. CASE SweepHand(s)
      BY <1>2, <1>5, <1>6, <2>1, <2>2 DEF SweepHand, HandPcs
    <2>3. CASE SweepEnd(s) \/ SweepTell(s) \/ SweepThrow(s)
      <3>1. PICK c \in SweepPcs :
              /\ sweep' = [sweep EXCEPT ![s].pc = c]
              /\ c \in HandPcs <=> sweep[s].pc \in HandPcs
        BY <2>3 DEF SweepEnd, SweepTell, SweepThrow, SweepPcs, HandPcs
      <3> DEFINE x == [sweep[s] EXCEPT !.pc = c]
      <3>2. sweep' = [sweep EXCEPT ![s] = x] /\ x.pc = c /\ x.row = sweep[s].row
        BY <1>4, <3>1
      <3> HIDE DEF x
      <3> QED
        BY <1>2, <1>6, <2>1, <3>1, <3>2
    <2> QED
      BY <1>9, <2>2, <2>3
  <1>10. CASE SweepThread(s) \/ SweepAccess(s)
    <2>1. PICK r \in Row : sweep[s].row = {r} /\ sweep[s].pc \in HandPcs
      BY <1>3, <1>10 DEF SweepThread, SweepAccess, HandPcs
    <2>2. UNCHANGED <<rows, sent, lost>>
      BY <1>10 DEF SweepThread, SweepAccess, dbVars
    <2>3. \/ /\ sweep' = [sweep EXCEPT ![s] = Rest(s)] /\ ended' = ended \cup {r.id}
          \/ /\ ended' = ended
             /\ \E c \in {"there", "reachable"} : sweep' = [sweep EXCEPT ![s].pc = c]
      BY <1>10, <2>1 DEF SweepThread, SweepAccess
    <2>4. CASE sweep' = [sweep EXCEPT ![s] = Rest(s)] /\ ended' = ended \cup {r.id}
      <3>1. /\ \A p \in Posts : p # r.id => Hand(p)' = Hand(p)
            /\ Hand(r.id)' = {} /\ Hand(r.id) # {} /\ r.id \in Posts /\ r.id \in made
            /\ ~ InRows(r.id) /\ sent[r.id] = 0 /\ r.id \notin ended /\ r.id \notin lost
        BY <1>5, <2>1, <2>4, HandLeaves DEF HandPcs
      <3>2. \A p \in Posts : InRows(p)' <=> InRows(p)
        BY <2>2 DEF InRows
      <3>3. OnePlace'
        BY <1>1, <2>2, <2>4, <3>1, <3>2 DEF OnePlace
      <3> QED
        BY <1>2, <2>2, <3>3 DEF OneRow
    <2>5. ASSUME NEW c \in {"there", "reachable"}, sweep' = [sweep EXCEPT ![s].pc = c],
                 ended' = ended
          PROVE  OnePlace' /\ OneRow'
      <3> DEFINE x == [sweep[s] EXCEPT !.pc = c]
      <3>1. sweep' = [sweep EXCEPT ![s] = x] /\ x.pc = c /\ x.row = sweep[s].row
        BY <1>4, <2>5
      <3> HIDE DEF x
      <3> QED
        BY <1>6, <2>1, <2>2, <2>5, <3>1 DEF HandPcs
    <2> QED
      BY <1>2, <2>3, <2>4, <2>5
  <1>11. CASE SweepStore(s)
    <2>1. PICK r \in Row : sweep[s].row = {r} /\ sweep[s].pc \in HandPcs
      BY <1>3, <1>11 DEF SweepStore, HandPcs
    <2>2. UNCHANGED <<rows, ended, lost>> /\ sent' = [sent EXCEPT ![r.id] = @ + 1]
      BY <1>11, <2>1 DEF SweepStore, dbVars
    <2> DEFINE x == [sweep[s] EXCEPT !.pc = "stored"]
    <2>3. sweep' = [sweep EXCEPT ![s] = x] /\ x.pc = "stored"
      BY <1>4, <1>11 DEF SweepStore
    <2> HIDE DEF x
    <2>4. /\ \A p \in Posts : p # r.id => Hand(p)' = Hand(p)
          /\ Hand(r.id)' = {} /\ Hand(r.id) # {} /\ r.id \in Posts /\ r.id \in made
          /\ ~ InRows(r.id) /\ sent[r.id] = 0 /\ r.id \notin ended /\ r.id \notin lost
      BY <2>1, <2>3, HandLeaves DEF HandPcs
    <2>5. \A p \in Posts : /\ InRows(p)' <=> InRows(p)
                           /\ sent'[p] = IF p = r.id THEN 1 ELSE sent[p]
      BY <2>2, <2>4 DEF InRows, TypeOK
    <2>6. OnePlace'
      BY <1>1, <2>2, <2>4, <2>5 DEF OnePlace
    <2> QED
      BY <1>2, <2>2, <2>6 DEF OneRow
  <1>12. CASE SweepRestore(s) \/ SweepRestoreFails(s)
    <2>1. PICK r \in Row : sweep[s].row = {r} /\ sweep[s].pc \in HandPcs
      BY <1>3, <1>12 DEF SweepRestore, SweepRestoreFails, HandPcs
    <2>2. sent' = sent /\ sweep' = [sweep EXCEPT ![s] = Rest(s)]
      BY <1>12 DEF SweepRestore, SweepRestoreFails
    <2>3. /\ \A p \in Posts : p # r.id => Hand(p)' = Hand(p)
          /\ Hand(r.id)' = {} /\ Hand(r.id) # {} /\ r.id \in Posts /\ r.id \in made
          /\ ~ InRows(r.id) /\ sent[r.id] = 0 /\ r.id \notin ended /\ r.id \notin lost
      BY <1>5, <2>1, <2>2, HandLeaves DEF HandPcs
    <2>4. \/ rows' = rows /\ ended' = ended \cup {r.id} /\ lost' = lost
          \/ rows' = rows \cup {r} /\ ended' = ended /\ lost' = lost
          \/ rows' = rows /\ ended' = ended /\ lost' = lost \cup {r.id}
      BY <1>12, <2>1 DEF SweepRestore, SweepRestoreFails, dbVars
    <2>5. OneRow'
      BY <2>3, <2>4 DEF OneRow, InRows
    <2>6. /\ rows' = rows => \A p \in Posts : InRows(p)' <=> InRows(p)
          /\ rows' = rows \cup {r} => \A p \in Posts : InRows(p)' <=> InRows(p) \/ p = r.id
      BY DEF InRows
    <2>7. OnePlace'
      BY <1>1, <2>2, <2>3, <2>4, <2>6 DEF OnePlace
    <2> QED
      BY <1>2, <2>5, <2>7
  <1> QED
    BY <1>7, <1>8, <1>9, <1>10, <1>11, <1>12 DEF SweepNext

LEMMA HostPlaces ==
  ASSUME PlaceInv,
         \/ \E t \in Threads : DeleteThread(t)
         \/ \E u \in Users : LoseAccess(u) \/ GainAccess(u)
         \/ Tick \/ Crash
  PROVE  OnePlace' /\ NotYet' /\ OneRow'
  <1> USE DEF PlaceInv
  <1>1. ASSUME NEW t \in Threads, DeleteThread(t) PROVE OnePlace' /\ NotYet' /\ OneRow'
    <2>1. UNCHANGED <<made, sent, lost, post, sweep>> /\ \A p \in Posts : Hand(p)' = Hand(p)
      BY <1>1 DEF DeleteThread, Hand
    <2>2. NotYet'
      BY <2>1 DEF NotYet
    <2>3. CASE rows' = rows /\ ended' = ended
      BY <2>1, <2>2, <2>3, SamePlaces DEF OneRow
    <2>4. CASE /\ rows' = rows \ Pending(t)
               /\ ended' = ended \cup {r.id : r \in Pending(t)}
      <3> DEFINE Out(p) == \E r \in Pending(t) : r.id = p
      <3>1. \A p \in Posts : Out(p) => InRows(p)
        BY DEF InRows, Pending
      <3>2. \A p \in Posts : InRows(p)' <=> InRows(p) /\ ~ Out(p)
        BY <2>4 DEF InRows, Pending, OneRow
      <3>3. \A p \in Posts : p \in ended' <=> p \in ended \/ Out(p)
        BY <2>4
      <3> HIDE DEF Out
      <3>4. OnePlace'
        BY <2>1, <3>1, <3>2, <3>3 DEF OnePlace
      <3> QED
        BY <2>2, <2>4, <3>4 DEF OneRow
    <2> QED
      BY <1>1, <2>3, <2>4 DEF DeleteThread
  <1>2. ASSUME NEW u \in Users, LoseAccess(u) \/ GainAccess(u)
        PROVE  OnePlace' /\ NotYet' /\ OneRow'
    <2>1. UNCHANGED <<made, sent, lost, ended, post, rows>>
      BY <1>2 DEF LoseAccess, GainAccess, callVars, pastVars
    <2>2. \A s \in Sweeps : sweep'[s].pc = sweep[s].pc /\ sweep'[s].row = sweep[s].row
      BY <1>2 DEF LoseAccess, GainAccess, callVars, TypeOK
    <2>3. \A p \in Posts : Hand(p)' = Hand(p)
      BY <2>2 DEF Hand
    <2> QED
      BY <2>1, <2>3, SamePlaces DEF NotYet, OneRow
  <1>3. CASE Tick
    <2>1. UNCHANGED <<made, sent, lost, ended, post, rows, sweep>>
      BY <1>3 DEF Tick, dbVars, callVars, pastVars
    <2>2. \A p \in Posts : Hand(p)' = Hand(p)
      BY <2>1 DEF Hand
    <2> QED
      BY <2>1, <2>2, SamePlaces DEF NotYet, OneRow
  <1>4. CASE Crash
    <2>1. UNCHANGED <<rows, made, sent, ended>>
      BY <1>4 DEF Crash, dbVars
    <2>2. \A p \in Posts : Hand(p)' = {}
      BY <1>4 DEF Crash, Hand
    <2>3. \A p \in Posts : p \in lost' <=> p \in lost \/ Hand(p) # {}
      BY <1>4 DEF Crash
    <2>4. \A p \in Posts : InRows(p)' <=> InRows(p)
      BY <2>1 DEF InRows
    <2>5. OnePlace'
      BY <2>1, <2>2, <2>3, <2>4 DEF OnePlace
    <2>6. \A p \in Posts : post'[p].pc \in {post[p].pc, "dead"}
      BY <1>4 DEF Crash, TypeOK
    <2>7. NotYet'
      BY <2>1, <2>6 DEF NotYet
    <2> QED
      BY <2>1, <2>5, <2>7 DEF OneRow
  <1> QED
    BY <1>1, <1>2, <1>3, <1>4

LEMMA NextPlaces == PlaceInv /\ [Next]_vars => PlaceInv'
  <1> SUFFICES ASSUME PlaceInv, [Next]_vars PROVE PlaceInv'
    OBVIOUS
  <1>1. TypeOK'
    BY NextTypeOK DEF PlaceInv
  <1>2. CASE UNCHANGED vars
    <2>1. \A p \in Posts : Hand(p)' = Hand(p)
      BY <1>2 DEF vars, callVars, Hand
    <2> QED
      BY <1>1, <1>2, <2>1, SamePlaces
      DEF PlaceInv, NotYet, OneRow, vars, dbVars, callVars, pastVars
  <1>3. CASE Next
    BY <1>1, <1>3, PostPlaces, CancelPlaces, SweepPlaces, HostPlaces DEF Next, PlaceInv
  <1> QED
    BY <1>2, <1>3

LEMMA InitPlaces == Init => PlaceInv
  BY InitTypeOK DEF Init, PlaceInv, OnePlace, NotYet, OneRow, Hand, InRows

\* A retry that was scheduled is in exactly one place, whatever interleaves:
\* it is sent at most once, never after a cancel has deleted its row, and never
\* forgotten but for a failed restore or a restart.
THEOREM AlwaysOnePlace == Spec => []OnePlace
  <1>1. PlaceInv => OnePlace
    BY DEF PlaceInv
  <1> QED
    BY <1>1, InitPlaces, NextPlaces, PTL DEF Spec

-----------------------------------------------------------------------------
(* Fit when sent.  What a sweep has not seen hold since its claim does not *)
(* hold now: threads only go, and who regains access is noted.             *)

FitSeen(s, r) ==
    /\ sweep[s].pc \in {"claimed", "there", "reachable"} =>
          /\ "thread" \notin sweep[s].fit => Thread(r) \notin threads
          /\ "access" \notin sweep[s].fit => r.user \notin access
    /\ sweep[s].pc \in {"there", "reachable"} => "thread" \in sweep[s].fit
    /\ sweep[s].pc = "reachable" => "access" \in sweep[s].fit
FitInv == \A s \in Sweeps : \A r \in sweep[s].row : FitSeen(s, r)

\* Another sweep's facts, or those of a sweep the step does not move.
LEMMA FitKept ==
  ASSUME FitInv, NEW s \in Sweeps, sweep'[s] = sweep[s],
         threads' \subseteq threads, access' \subseteq access
  PROVE  \A r \in sweep'[s].row : FitSeen(s, r)'
  BY DEF FitInv, FitSeen

LEMMA SweepFit == ASSUME TypeOK, FitInv, NEW s \in Sweeps, SweepNext(s) PROVE FitInv'
  <1>1. threads' = threads /\ access' = access
    BY DEF SweepNext, SweepList, SweepClaim, SweepEnd, SweepThread, SweepAccess, SweepStore,
           SweepThrow, SweepRestore, SweepRestoreFails, SweepTell, SweepHand, dbVars
  <1>2. \A q \in Sweeps \ {s} : sweep'[q] = sweep[q]
    BY DEF TypeOK, SweepNext, SweepList, SweepClaim, SweepEnd, SweepThread, SweepAccess,
           SweepStore, SweepThrow, SweepRestore, SweepRestoreFails, SweepTell, SweepHand
  <1>3. /\ sweep[s] \in [pc : SweepPcs, due : SUBSET Row, row : SUBSET Row,
                         fit : SUBSET {"thread", "access"}]
        /\ \A x : sweep' = [sweep EXCEPT ![s] = x] => sweep'[s] = x
    BY DEF TypeOK
  <1>4. ASSUME NEW r \in sweep'[s].row PROVE FitSeen(s, r)'
    <2>1. CASE SweepClaim(s)
      <3> DEFINE z(c) == IF \E q \in rows : q.id = c.id
                         THEN [pc |-> "claimed", due |-> sweep[s].due \ {c}, row |-> {c},
                               fit |-> Fit(c)]
                         ELSE [sweep[s] EXCEPT !.due = sweep[s].due \ {c}]
      <3>0. PICK c \in sweep[s].due : sweep' = [sweep EXCEPT ![s] = z(c)]
        BY <2>1 DEF SweepClaim
      <3>1. sweep'[s] = z(c)
        <4> HIDE DEF z
        <4> QED
          BY <1>3, <3>0
      <3>2. CASE sweep'[s] = [pc |-> "claimed", due |-> sweep[s].due \ {c}, row |-> {c},
                              fit |-> Fit(c)]
        BY <1>1, <1>4, <3>2 DEF FitSeen, Fit, Thread
      <3>3. CASE sweep'[s] = [sweep[s] EXCEPT !.due = sweep[s].due \ {c}]
        <4>1. sweep'[s].pc = "list"
          BY <1>3, <2>1, <3>3 DEF SweepClaim
        <4> QED
          BY <4>1 DEF FitSeen
      <3> QED
        BY <3>1, <3>2, <3>3
    <2>2. CASE SweepThread(s) \/ SweepAccess(s)
      <3>1. CASE sweep'[s].pc = "list"
        BY <3>1 DEF FitSeen
      <3>2. CASE sweep'[s].pc # "list"
        <4>1. /\ \/ sweep[s].pc = "claimed" /\ sweep'[s].pc = "there" /\ Thread(r) \in threads
                 \/ sweep[s].pc = "there" /\ sweep'[s].pc = "reachable" /\ r.user \in access
              /\ sweep'[s].fit = sweep[s].fit /\ r \in sweep[s].row
          <5>1. PICK q \in Row : sweep[s].row = {q}
            BY <2>2 DEF TypeOK, SweepThread, SweepAccess
          <5>2. Rest(s).pc = "list"
            BY <1>3 DEF Rest
          <5>3. \/ /\ sweep' = [sweep EXCEPT ![s].pc = "there"]
                   /\ sweep[s].pc = "claimed" /\ Thread(q) \in threads
                \/ /\ sweep' = [sweep EXCEPT ![s].pc = "reachable"]
                   /\ sweep[s].pc = "there" /\ q.user \in access
            BY <1>3, <2>2, <3>2, <5>1, <5>2 DEF SweepThread, SweepAccess
          <5>4. sweep'[s].row = sweep[s].row /\ sweep'[s].fit = sweep[s].fit
            BY <1>3, <5>3
          <5>5. r = q
            BY <1>4, <5>1, <5>4
          <5>6. sweep'[s].pc = IF sweep[s].pc = "claimed" THEN "there" ELSE "reachable"
            BY <1>3, <5>3
          <5> QED
            BY <1>4, <5>3, <5>4, <5>5, <5>6
        <4>2. FitSeen(s, r)
          BY <4>1 DEF FitInv
        <4> QED
          BY <1>1, <4>1, <4>2 DEF FitSeen, Thread
      <3> QED
        BY <3>1, <3>2
    <2>3. CASE \/ SweepList(s) \/ SweepEnd(s) \/ SweepStore(s) \/ SweepThrow(s) \/ SweepTell(s)
               \/ SweepRestore(s) \/ SweepRestoreFails(s) \/ SweepHand(s)
      <3>1. Rest(s).pc = "list"
        BY <1>3 DEF Rest
      <3>2. sweep'[s].pc \in {"idle", "list", "stored", "failed", "told"}
        BY <1>3, <2>3, <3>1 DEF SweepList, SweepEnd, SweepStore, SweepThrow, SweepTell,
             SweepRestore, SweepRestoreFails, SweepHand
      <3> QED
        BY <3>2 DEF FitSeen
    <2> QED
      BY <2>1, <2>2, <2>3 DEF SweepNext
  <1> QED
    BY <1>1, <1>2, <1>4, FitKept DEF FitInv

LEMMA NextFit == TypeOK /\ FitInv /\ [Next]_vars => FitInv'
  <1> SUFFICES ASSUME TypeOK, FitInv, [Next]_vars PROVE FitInv'
    OBVIOUS
  <1>1. CASE /\ sweep' = sweep /\ threads' \subseteq threads /\ access' \subseteq access
    BY <1>1, FitKept DEF FitInv
  <1>2. CASE UNCHANGED vars
    BY <1>1, <1>2 DEF vars, dbVars, callVars
  <1>3. ASSUME NEW p \in Posts, PostNext(p) PROVE FitInv'
    BY <1>1, <1>3
    DEF PostNext, PostNotice, PostPending, PostLast, PostInsert, PostAnnounce, dbVars
  <1>4. ASSUME NEW c \in Cancels, CancelNext(c) PROVE FitInv'
    BY <1>1, <1>4 DEF CancelNext, CancelRead, CancelPermit, CancelDelete, CancelAnnounce, dbVars
  <1>5. ASSUME NEW t \in Threads, DeleteThread(t) PROVE FitInv'
    BY <1>1, <1>5 DEF DeleteThread
  <1>6. ASSUME NEW u \in Users, LoseAccess(u) PROVE FitInv'
    BY <1>1, <1>6 DEF LoseAccess, callVars
  <1>7. ASSUME NEW u \in Users, GainAccess(u) PROVE FitInv'
    <2>1. ASSUME NEW s \in Sweeps, NEW r \in sweep'[s].row PROVE FitSeen(s, r)'
      <3>1. /\ sweep'[s].pc = sweep[s].pc /\ sweep'[s].row = sweep[s].row
            /\ sweep'[s].fit = IF \E q \in sweep[s].row : q.user = u
                               THEN sweep[s].fit \cup {"access"} ELSE sweep[s].fit
        BY <1>7 DEF GainAccess, TypeOK
      <3>2. threads' = threads /\ access' = access \cup {u}
        BY <1>7 DEF GainAccess
      <3>3. FitSeen(s, r) /\ r \in sweep[s].row
        BY <2>1, <3>1 DEF FitInv
      <3> QED
        BY <3>1, <3>2, <3>3 DEF FitSeen, Thread
    <2> QED
      BY <2>1 DEF FitInv
  <1>8. CASE Tick
    BY <1>1, <1>8 DEF Tick, dbVars, callVars
  <1>9. CASE Crash
    <2>1. \A s \in Sweeps : sweep'[s].row = {}
      BY <1>9 DEF Crash, None
    <2> QED
      BY <2>1 DEF FitInv
  <1> QED
    BY <1>2, <1>3, <1>4, <1>5, <1>6, <1>7, <1>8, <1>9, SweepFit DEF Next

LEMMA InitFit == Init => FitInv
  BY DEF Init, FitInv, None

\* Only SweepStore stores a message.
LEMMA StoredFit ==
  ASSUME TypeOK, FitInv, [Next]_vars, NEW p \in Posts, sent'[p] # sent[p]
  PROVE  \E s \in Hand(p) : sweep[s].fit = {"thread", "access"}
  <1>1. \E s \in Sweeps : SweepStore(s)
    <2>1. CASE UNCHANGED vars
      BY <2>1 DEF vars, pastVars
    <2>2. ASSUME NEW q \in Posts, PostNext(q) PROVE FALSE
      BY <2>2 DEF PostNext, PostNotice, PostPending, PostLast, PostInsert, PostAnnounce, pastVars
    <2>3. ASSUME NEW c \in Cancels, CancelNext(c) PROVE FALSE
      BY <2>3 DEF CancelNext, CancelRead, CancelPermit, CancelDelete, CancelAnnounce, pastVars
    <2>4. ASSUME NEW s \in Sweeps, SweepNext(s) PROVE SweepStore(s)
      BY <2>4 DEF SweepNext, SweepList, SweepClaim, SweepEnd, SweepThread, SweepAccess,
                  SweepThrow, SweepRestore, SweepRestoreFails, SweepTell, SweepHand, pastVars
    <2>5. CASE \/ \E t \in Threads : DeleteThread(t)
               \/ \E u \in Users : LoseAccess(u) \/ GainAccess(u)
               \/ Tick \/ Crash
      BY <2>5 DEF DeleteThread, LoseAccess, GainAccess, Tick, Crash, pastVars
    <2> QED
      BY <2>1, <2>2, <2>3, <2>4, <2>5 DEF Next
  <1>2. PICK s \in Sweeps : SweepStore(s)
    BY <1>1
  <1>3. PICK r \in Row : sweep[s].row = {r} /\ sweep[s].pc = "reachable"
    BY <1>2 DEF TypeOK, SweepStore
  <1>4. sent' = [sent EXCEPT ![r.id] = @ + 1]
    BY <1>2, <1>3 DEF SweepStore
  <1>5. p = r.id
    BY <1>4 DEF TypeOK
  <1>6. s \in Hand(p)
    BY <1>3, <1>5 DEF Hand
  <1>7. FitSeen(s, r) /\ sweep[s].fit \subseteq {"thread", "access"}
    BY <1>3 DEF FitInv, TypeOK
  <1>8. sweep[s].fit = {"thread", "access"}
    BY <1>3, <1>7 DEF FitSeen
  <1> QED
    BY <1>6, <1>8

\* A message is stored only if, since its retry was claimed, its thread has
\* been there and its user has been able to reach the room.
THEOREM SentWhenFit == Spec => FitWhenSent
  <1> DEFINE Stored == \A p \in Posts : sent'[p] # sent[p] =>
                          \E s \in Hand(p) : sweep[s].fit = {"thread", "access"}
  <1>1. TypeOK /\ FitInv /\ [Next]_vars => [Stored]_vars
    BY StoredFit
  <1> QED
    BY <1>1, InitTypeOK, NextTypeOK, InitFit, NextFit, PTL DEF Spec, FitWhenSent

(***************************************************************************)
(* RestartWhenIdle: the deferred restarts stay well typed, and a change    *)
(* whose restart is over runs in no container from before it (Reached).    *)
(*                                                                         *)
(* Reached looks at two calls (one that joined the other's wait) and at    *)
(* containers, and is not inductive: it needs to know what a call may ride *)
(* on (Rides), that a container a look did not list was spawned after it   *)
(* (Unlisted), and what a finished restart has reached (Restored).         *)
(***************************************************************************)

\* What a call queued on is a call that deferred; the map's entry is one whose
\* poller still waits or looks.
Rides ==
  /\ deferred # NoEntry => Poller(deferred) /\ pc[deferred] \in {"waiting", "asking", "looking"}
  /\ \A c \in Calls :
       /\ queued[c] # NoEntry => pc[c] # "idle" /\ ~Poller(c) /\ Poller(queued[c])
       /\ fate[c] = "open" <=> pc[c] # "done"
       /\ fate[c] = "folded" => queued[c] # NoEntry
       /\ Poller(c) => fate[c] # "folded" /\ pc[c] # "idle"

\* A container running now that a look did not list was spawned since, with
\* every change made before the list; a look that ended in a skip listed none.
Unlisted ==
  \A c \in Calls :
    /\ load[c].made \subseteq Made
    /\ fate[c] = "skipped" => load[c].listed = {}
    /\ (pc[c] = "looking" \/ fate[c] = "skipped") =>
         \A s \in running \ load[c].listed : load[c].made \subseteq knows[s]

\* A restart that is over reached every change whose call made it or joined it.
Restored ==
  \A c, d \in Calls :
    (fate[c] = "restarted" /\ (d = c \/ queued[d] = c)) => Stale(d) = {}

\* The types, and why the poll count keeps its bound: a poller goes back to
\* waiting only below it, and starts from nought.
Types ==
  /\ RestartTypeOK
  /\ \A c \in Calls :
       /\ pc[c] = "waiting" => Poller(c) /\ polls[c] < MaxPolls
       /\ ~Poller(c) => polls[c] = 0

ReachedInv == Types /\ Rides /\ Unlisted /\ Restored

----------------------------------------------------------------------------
LEMMA TypesInit ==
  ASSUME RestartInit PROVE Types
<1> USE IdleAssumption DEF RestartInit
<1>1. NoLoad \in Loads
  BY DEF NoLoad, Loads
<1>2. RestartTypeOK
  BY <1>1 DEF RestartTypeOK, Places, Fates
<1>3. \A c \in Calls : pc[c] # "waiting" /\ polls[c] = 0
  OBVIOUS
<1> QED BY <1>2, <1>3 DEF Types

\* Every action keeps the types.
LEMMA TypesStep ==
  ASSUME Types, [RestartNext]_restartVars PROVE Types'
<1> USE IdleAssumption DEF Types, RestartTypeOK, Poller
<1>0. NoLoad \in Loads
  BY DEF NoLoad, Loads
<1>1. CASE \E c \in Calls : Call(c)
  BY <1>1 DEF Call, At, Places, containers
<1>2. CASE \E c \in Calls : List(c)
  <2> PICK c \in Calls : List(c)
    BY <1>2
  <2>1. [listed |-> running, todo |-> running, busy |-> {}, made |-> Made, threw |-> FALSE] \in Loads
    BY DEF Made, Loads
  <2> QED BY <2>1 DEF List, At, Places, containers
<1>3. CASE \E c \in Calls, s \in Sessions : Look(c, s)
  <2> PICK c \in Calls, s \in Sessions : Look(c, s)
    BY <1>3
  <2> DEFINE b == IF s \in inTurn THEN load[c].busy \cup {s} ELSE load[c].busy
             l == [load[c] EXCEPT !.todo = @ \ {s}, !.busy = b]
  <2>1. load[c] \in Loads /\ b \subseteq Sessions
    BY DEF Loads
  <2>2. l \in Loads
    <3> HIDE DEF b
    <3> QED BY <2>1 DEF Loads
  <2>3. load' = [load EXCEPT ![c] = l]
    BY DEF Look
  <2> HIDE DEF l
  <2>4. load' \in [Calls -> Loads]
    BY <2>2, <2>3
  <2> QED BY <2>4 DEF Look, containers
<1>4. CASE \E c \in Calls : LoadThrows(c)
  <2> PICK c \in Calls : LoadThrows(c)
    BY <1>4
  <2>0. load[c] \in Loads
    OBVIOUS
  <2>1. [load[c] EXCEPT !.threw = TRUE] \in Loads
    BY <2>0 DEF Loads
  <2>2. load' \in [Calls -> Loads]
    BY <2>1 DEF LoadThrows
  <2> QED BY <2>2 DEF LoadThrows, At, Places, containers
<1>5. CASE \E c \in Calls : Fold(c)
  <2> PICK c \in Calls : Fold(c)
    BY <1>5
  <2>1. reasons' \in [Calls -> SUBSET Calls] /\ \A d \in Calls : reasons[d] \subseteq reasons'[d]
    BY DEF Fold
  <2> QED BY <1>0, <2>1 DEF Fold, Looked, Ends, At, Places, Fates, containers
<1>6. CASE \E c \in Calls : RestartNow(c)
  BY <1>6 DEF RestartNow, At, Places, containers
<1>7. CASE \E c \in Calls : Defer(c)
  BY <1>0, <1>7 DEF Defer, At, Places, containers
<1>8. CASE \E c \in Calls : Poll(c)
  BY <1>8 DEF Poll, At, Places, containers
<1>9. CASE \E c \in Calls : PollAgain(c)
  BY <1>0, <1>9 DEF PollAgain, WaitOn, At, Places, containers
<1>10. CASE \E c \in Calls : StopWaiting(c)
  BY <1>10 DEF StopWaiting, Ends, At, Places, Fates, containers
<1>11. CASE \E c \in Calls : Restarted(c)
  BY <1>0, <1>11 DEF Restarted, Ends, At, Places, Fates
<1>12. CASE \E c \in Calls : RestartFails(c)
  BY <1>0, <1>12 DEF RestartFails, Ends, At, Places, Fates, containers
<1>13. CASE \E s \in Sessions : Spawn(s)
  BY <1>13 DEF Spawn, Made
<1>14. CASE \E s \in Sessions : TurnStart(s) \/ TurnEnd(s) \/ Exit(s)
  BY <1>14 DEF TurnStart, TurnEnd, Exit
<1>15. CASE UNCHANGED restartVars
  BY <1>15 DEF restartVars
<1> QED BY <1>1, <1>2, <1>3, <1>4, <1>5, <1>6, <1>7, <1>8, <1>9, <1>10, <1>11,
           <1>12, <1>13, <1>14, <1>15 DEF RestartNext, Step

\* The deferred restarts, their polls and the looks in progress stay well typed.
THEOREM IdleTypeCorrect == RestartSpec => []RestartTypeOK
<1>1. Types => RestartTypeOK
  BY DEF Types
<1>2. QED BY TypesInit, TypesStep, <1>1, PTL DEF RestartSpec

----------------------------------------------------------------------------
LEMMA ReachedInvInit ==
  ASSUME RestartInit PROVE ReachedInv
<1>1. Types
  BY TypesInit
<1>2. Rides
  BY IdleAssumption DEF RestartInit, Rides, Poller
<1>3. Unlisted
  BY DEF RestartInit, Unlisted, NoLoad
<1>4. Restored
  BY DEF RestartInit, Restored
<1> QED BY <1>1, <1>2, <1>3, <1>4 DEF ReachedInv

LEMMA RidesStep ==
  ASSUME Types, Rides, [RestartNext]_restartVars PROVE Rides'
<1> USE IdleAssumption DEF Types, RestartTypeOK, Rides, Poller
<1>1. CASE \E c \in Calls : Call(c)
  BY <1>1 DEF Call, At
<1>2. CASE \E c \in Calls : List(c)
  BY <1>2 DEF List, At
<1>3. CASE \E c \in Calls, s \in Sessions : Look(c, s)
  BY <1>3 DEF Look
<1>4. CASE \E c \in Calls : LoadThrows(c)
  BY <1>4 DEF LoadThrows, At
<1>5. CASE \E c \in Calls : Fold(c)
  BY <1>5 DEF Fold, Looked, Ends, At
<1>6. CASE \E c \in Calls : RestartNow(c)
  BY <1>6 DEF RestartNow, Looked, At
<1>7. CASE \E c \in Calls : Defer(c)
  BY <1>7 DEF Defer, Looked, At
<1>8. CASE \E c \in Calls : Poll(c)
  BY <1>8 DEF Poll, At
<1>9. CASE \E c \in Calls : PollAgain(c)
  BY <1>9 DEF PollAgain, Looked, At
<1>10. CASE \E c \in Calls : StopWaiting(c)
  BY <1>10 DEF StopWaiting, Looked, Ends, At
<1>11. CASE \E c \in Calls : Restarted(c)
  BY <1>11 DEF Restarted, Ends, At
<1>12. CASE \E c \in Calls : RestartFails(c)
  BY <1>12 DEF RestartFails, Ends, At
<1>13. CASE \E s \in Sessions : Spawn(s) \/ TurnStart(s) \/ TurnEnd(s) \/ Exit(s)
  BY <1>13 DEF Spawn, TurnStart, TurnEnd, Exit
<1>14. CASE UNCHANGED restartVars
  BY <1>14 DEF restartVars
<1> QED BY <1>1, <1>2, <1>3, <1>4, <1>5, <1>6, <1>7, <1>8, <1>9, <1>10, <1>11,
           <1>12, <1>13, <1>14 DEF RestartNext, Step

LEMMA UnlistedStep ==
  ASSUME Types, Rides, Unlisted, [RestartNext]_restartVars PROVE Unlisted'
<1> USE DEF Types, RestartTypeOK, Unlisted
\* A call once made stays made.
<1>0. Made \subseteq Made'
  <2>1. ASSUME NEW c \in Calls, NEW p \in Places \ {"idle"}, At(c, p)
        PROVE  Made \subseteq Made'
    BY <2>1 DEF At, Made, Places
  <2>2. ASSUME UNCHANGED pc PROVE Made \subseteq Made'
    BY <2>2 DEF Made
  <2>3. CASE \E c \in Calls : Call(c) \/ List(c) \/ LoadThrows(c) \/ RestartNow(c) \/ Poll(c)
    BY <2>1, <2>3 DEF Call, List, LoadThrows, RestartNow, Poll, Places
  <2>4. CASE \E c \in Calls : Fold(c) \/ Defer(c) \/ PollAgain(c)
    BY <2>1, <2>4 DEF Fold, Defer, PollAgain, Ends, Places
  <2>5. CASE \E c \in Calls : StopWaiting(c) \/ Restarted(c) \/ RestartFails(c)
    BY <2>1, <2>5 DEF StopWaiting, Restarted, RestartFails, Ends, Places
  <2>6. CASE \E c \in Calls, s \in Sessions : Look(c, s)
    BY <2>2, <2>6 DEF Look
  <2>7. CASE \E s \in Sessions : Spawn(s) \/ TurnStart(s) \/ TurnEnd(s) \/ Exit(s)
    BY <2>2, <2>7 DEF Spawn, TurnStart, TurnEnd, Exit
  <2>8. CASE UNCHANGED restartVars
    BY <2>2, <2>8 DEF restartVars
  <2> QED BY <2>3, <2>4, <2>5, <2>6, <2>7, <2>8 DEF RestartNext, Step
<1>1. CASE \E c \in Calls : Call(c)
  BY <1>0, <1>1 DEF Call, At, containers
<1>2. CASE \E c \in Calls : List(c)
  BY <1>0, <1>2 DEF List, At, containers, Rides
<1>3. CASE \E c \in Calls, s \in Sessions : Look(c, s)
  <2> PICK c \in Calls, s \in Sessions : Look(c, s)
    BY <1>3
  <2>1. load[c] \in Loads
    OBVIOUS
  <2>2. \A d \in Calls : load'[d].listed = load[d].listed /\ load'[d].made = load[d].made
    BY <2>1 DEF Look, Loads
  <2> QED BY <1>0, <2>2 DEF Look, containers
<1>4. CASE \E c \in Calls : LoadThrows(c)
  <2> PICK c \in Calls : LoadThrows(c)
    BY <1>4
  <2>1. load[c] \in Loads
    OBVIOUS
  <2>2. \A d \in Calls : load'[d].listed = load[d].listed /\ load'[d].made = load[d].made
    BY <2>1 DEF LoadThrows, Loads
  <2> QED BY <1>0, <2>2 DEF LoadThrows, At, containers
<1>5. CASE \E c \in Calls : Fold(c)
  BY <1>0, <1>5 DEF Fold, Ends, At, NoLoad, containers
<1>6. CASE \E c \in Calls : RestartNow(c)
  BY <1>0, <1>6 DEF RestartNow, At, containers
<1>7. CASE \E c \in Calls : Defer(c)
  BY <1>0, <1>7 DEF Defer, Looked, At, NoLoad, containers, Rides
<1>8. CASE \E c \in Calls : Poll(c)
  BY <1>0, <1>8 DEF Poll, At, containers
<1>9. CASE \E c \in Calls : PollAgain(c)
  BY <1>0, <1>9 DEF PollAgain, Looked, At, NoLoad, containers, Rides
<1>10. CASE \E c \in Calls : StopWaiting(c)
  BY <1>0, <1>10 DEF StopWaiting, Looked, NobodyThere, Ends, At, containers
<1>11. CASE \E c \in Calls : Restarted(c)
  BY <1>0, <1>11 DEF Restarted, Ends, At, NoLoad
<1>12. CASE \E c \in Calls : RestartFails(c)
  BY <1>0, <1>12 DEF RestartFails, Ends, At, NoLoad, containers
<1>13. CASE \E s \in Sessions : Spawn(s)
  BY <1>0, <1>13 DEF Spawn
<1>14. CASE \E s \in Sessions : TurnStart(s) \/ TurnEnd(s) \/ Exit(s)
  BY <1>0, <1>14 DEF TurnStart, TurnEnd, Exit
<1>15. CASE UNCHANGED restartVars
  BY <1>0, <1>15 DEF restartVars
<1> QED BY <1>1, <1>2, <1>3, <1>4, <1>5, <1>6, <1>7, <1>8, <1>9, <1>10, <1>11,
           <1>12, <1>13, <1>14, <1>15 DEF RestartNext, Step

LEMMA RestoredStep ==
  ASSUME Types, Rides, Restored, [RestartNext]_restartVars PROVE Restored'
<1> USE IdleAssumption DEF Types, RestartTypeOK, Restored, Stale
\* No restart is over twice: a step that ends none, and starts no container,
\* makes nobody stale.
<1>1. CASE \E c \in Calls : Call(c)
  BY <1>1 DEF Call, At, containers, Rides
<1>2. CASE \E c \in Calls : Restarted(c)
  BY <1>2 DEF Restarted
<1>3. CASE \E s \in Sessions : Spawn(s)
  \* The new container knows every change made, and a call that has queued has
  \* made its own.
  <2> PICK s \in Sessions : Spawn(s)
    BY <1>3
  <2>1. \A d \in Calls : (fate[d] = "restarted" \/ queued[d] # NoEntry) => d \in Made
    BY DEF Made, Rides
  <2> QED BY <2>1 DEF Spawn
<1>4. CASE \E s \in Sessions : TurnStart(s) \/ TurnEnd(s) \/ Exit(s)
  BY <1>4 DEF TurnStart, TurnEnd, Exit
<1>5. CASE \E c \in Calls : \/ List(c) \/ LoadThrows(c) \/ RestartNow(c) \/ Defer(c)
                            \/ Poll(c) \/ PollAgain(c)
  BY <1>5 DEF List, LoadThrows, RestartNow, Defer, Poll, PollAgain, containers
<1>6. CASE \E c \in Calls, s \in Sessions : Look(c, s)
  BY <1>6 DEF Look, containers
<1>7. CASE \E c \in Calls : Fold(c) \/ StopWaiting(c) \/ RestartFails(c)
  BY <1>7 DEF Fold, StopWaiting, RestartFails, Ends, containers
<1>8. CASE UNCHANGED restartVars
  BY <1>8 DEF restartVars
<1> QED BY <1>1, <1>2, <1>3, <1>4, <1>5, <1>6, <1>7, <1>8 DEF RestartNext, Step

\* Whatever a call's restart was (its own, or the one it joined), once both are
\* over no container runs from before the call's change; but for a restart that
\* failed, or one skipped on a list older than the change.
THEOREM ChangeReachesContainers == RestartSpec => []Reached
<1>1. RestartInit => ReachedInv
  BY ReachedInvInit
<1>2. ReachedInv /\ [RestartNext]_restartVars => ReachedInv'
  BY TypesStep, RidesStep, UnlistedStep, RestoredStep DEF ReachedInv
<1>3. ReachedInv => Reached
  <2> SUFFICES ASSUME ReachedInv, NEW c \in Calls,
                      pc[c] = "done", pc[Carrier(c)] = "done",
                      fate[Carrier(c)] # "failed", ~TooLate(c)
               PROVE  Stale(c) = {}
    BY DEF Reached
  <2> USE DEF ReachedInv, Types, RestartTypeOK, Rides
  <2> DEFINE k == Carrier(c)
  <2>1. k \in Calls /\ (k = c \/ queued[c] = k)
    BY DEF Carrier
  <2>2. fate[k] \in {"restarted", "skipped"}
    BY <2>1 DEF Carrier, Fates
  <2>3. CASE fate[k] = "restarted"
    BY <2>1, <2>3 DEF Restored
  <2>4. CASE fate[k] = "skipped"
    <3>1. load[k].listed = {} /\ c \in load[k].made
      BY <2>1, <2>4 DEF Unlisted, TooLate
    <3>2. \A s \in running : load[k].made \subseteq knows[s]
      BY <2>1, <2>4, <3>1 DEF Unlisted
    <3> QED BY <3>1, <3>2 DEF Stale
  <2> QED BY <2>2, <2>3, <2>4
<1> QED BY <1>1, <1>2, <1>3, PTL DEF RestartSpec
=============================================================================

-------------------------- MODULE WorkloadsProofs --------------------------
(***************************************************************************)
(* Theorems about Workloads, for any names, rows and calls. Whatever       *)
(* overlaps, docker runs what was approved for the row. On a name where    *)
(* nothing overlapped, the row, stack.yml and docker agree (Order), so     *)
(* what is stopped is down and what is deleted is gone. Unless two ups     *)
(* overlapped, a write has the room its check saw (Roomed); there, the     *)
(* sum over the live rows is shown to be a cardinality.                    *)
(***************************************************************************)
EXTENDS Workloads, FiniteSetTheorems, TLAPS

\* A redeploy that compares: it brings a file of the agent and has read an
\* approval that was given for its row.
Compares(k) == k.op = "redeploy" /\ k.id \in Ids /\ k.want \in Stacks /\ k.limit \in agreed[k.id]
\* What a call knows where it is.
CallKnows(k) ==
  /\ k.id # None => rows[k.id] \in Rows
  /\ k.pc = "checking" => Compares(k)
  /\ k.pc \in {"weighing", "writing"} => Compares(k) \/ (k.op = "up" /\ k.want \in Shapes)
  /\ k.pc = "writing" /\ k.op = "redeploy" => k.want.size <= k.limit.size
  /\ k.pc # "idle" => k.name \in Names
  /\ k.pc = "recording" => k.outcome \in States
Known ==
  /\ \A c \in Slots : CallKnows(call[c])
  /\ \A i \in sweep.todo : rows[i] \in Rows
  /\ sweep.pc \in {"stopping", "recording"} => rows[sweep.at] \in Rows /\ sweep.outcome \in States

\* A row's approval was given for it, and its size is within one.
RowAgreed(i) == rows[i].approved \in agreed[i] /\ \E b \in agreed[i] : rows[i].size <= b.size
RowsAgreed == \A i \in Ids : rows[i] \in Rows => RowAgreed(i)
FilesAgreed == \A i \in Ids : files[i] # None => Agreed(files[i], i)

IInv == TypeOK /\ Known /\ RowsAgreed /\ FilesAgreed /\ RunsApproved
----------------------------------------------------------------------------
(* What the parts of a step do. *)

LEMMA FoundInIds == ASSUME NEW n PROVE Found(n) \in Ids \cup {None} /\
                                      (Found(n) # None => rows[Found(n)] # None)
<1> DEFINE S == {i \in Live : rows[i].name = n}
<1>1. CASE S = {}
  BY <1>1 DEF Found
<1>2. CASE S # {}
  <2>1. PICK i \in S : TRUE
    BY <1>2
  <2>2. (CHOOSE j \in S : TRUE) \in S
    BY <2>1
  <2> QED
    BY <1>2, <2>2 DEF Found, Live
<1> QED
  BY <1>1, <1>2

LEMMA CallSet ==
  ASSUME TypeOK, NEW c \in Slots, NEW k \in Calls, call' = [call EXCEPT ![c] = k]
  PROVE  /\ call' \in [Slots -> Calls]
         /\ call'[c] = k
         /\ \A d \in Slots \ {c} : call'[d] = call[d]
BY DEF TypeOK

LEMMA RowSet ==
  ASSUME TypeOK, NEW i \in Ids, NEW s \in States, rows[i] \in Rows, Sets(i, s)
  PROVE  /\ rows' \in [Ids -> Rows \cup {None}]
         /\ \A j \in Ids : /\ rows[j] \in Rows => rows'[j] \in Rows
                           /\ rows'[j] \in Rows => /\ rows[j] \in Rows
                                                   /\ rows'[j].approved = rows[j].approved
                                                   /\ rows'[j].size = rows[j].size
BY DEF TypeOK, Sets, Rows

LEMMA RowsKept ==
  ASSUME IInv, \A j \in Ids : rows'[j] \in Rows => /\ rows[j] \in Rows
                                                   /\ rows'[j].approved = rows[j].approved
                                                   /\ rows'[j].size = rows[j].size,
         UNCHANGED agreed
  PROVE  RowsAgreed'
BY DEF IInv, RowsAgreed, RowAgreed

LEMMA EngineKept ==
  ASSUME IInv, UNCHANGED <<files, docker, agreed>>
  PROVE  FilesAgreed' /\ RunsApproved'
BY DEF IInv, FilesAgreed, RunsApproved, Agreed

\* A call that was not touched still knows what it knew.
LEMMA KnowsKept ==
  ASSUME TypeOK, Known, NEW d \in Slots, call'[d] = call[d],
         \A i \in Ids : rows[i] \in Rows => rows'[i] \in Rows,
         \A i \in Ids : agreed[i] \subseteq agreed'[i]
  PROVE  CallKnows(call[d])'
<1> DEFINE k == call[d]
<1>1. CallKnows(k) /\ k \in Calls
  BY DEF Known, TypeOK
<1>2. k.id \in Ids \cup {None}
  BY <1>1 DEF Calls
<1>3. k.id # None => rows'[k.id] \in Rows
  BY <1>1, <1>2 DEF CallKnows
<1>4. Compares(k) => Compares(k)'
  BY DEF Compares
<1> QED
  BY <1>1, <1>3, <1>4 DEF CallKnows, Compares
\* A step of one call, that ends it or puts it at k.
LEMMA CallStep ==
  ASSUME TypeOK, Known, NEW c \in Slots, NEW k \in Calls, call' = [call EXCEPT ![c] = k],
         UNCHANGED sweep,
         \A i \in Ids : rows[i] \in Rows => rows'[i] \in Rows,
         \A i \in Ids : agreed[i] \subseteq agreed'[i],
         k.pc \notin {"idle", "weighing", "writing"} => k.id \in Ids,
         CallKnows(k)'
  PROVE  /\ Known'
         /\ call' \in [Slots -> Calls]
         /\ \A d \in Slots : call'[d].pc \notin {"idle", "weighing", "writing"} => call'[d].id \in Ids
<1>1. /\ call' \in [Slots -> Calls] /\ call'[c] = k
      /\ \A d \in Slots \ {c} : call'[d] = call[d]
  BY CallSet
<1>3. ASSUME NEW d \in Slots PROVE CallKnows(call[d])'
  <2>1. CASE d = c
    BY <1>1, <2>1 DEF CallKnows, Compares
  <2>2. CASE d # c
    BY <1>1, <2>2, KnowsKept
  <2> QED
    BY <2>1, <2>2
<1>4. \A i \in sweep'.todo : rows'[i] \in Rows
  BY DEF Known, TypeOK, Sweeps
<1>5. sweep'.pc \in {"stopping", "recording"} => rows'[sweep'.at] \in Rows /\ sweep'.outcome \in States
  BY DEF Known, TypeOK, Sweeps
<1>6. Known'
  BY <1>3, <1>4, <1>5 DEF Known
<1> QED
  BY <1>1, <1>6 DEF TypeOK

\* A step that only moves a call on.
LEMMA CallOnly ==
  ASSUME IInv, NEW c \in Slots, NEW k \in Calls, call' = [call EXCEPT ![c] = k],
         UNCHANGED <<table, engine, sweep, agreed>>,
         claimed' \in BOOLEAN, begun' \in 0..MaxCalls, upsets' \in 0..MaxUpsets,
         mixed' \in SUBSET Names, upsMet' \in BOOLEAN,
         k.pc \notin {"idle", "weighing", "writing"} => k.id \in Ids,
         CallKnows(k)
  PROVE  IInv'
<1> USE DEF table, engine
<1>1. CallKnows(k)'
  BY DEF CallKnows, Compares
<1>2. /\ Known'
      /\ call' \in [Slots -> Calls]
      /\ \A d \in Slots : call'[d].pc \notin {"idle", "weighing", "writing"} => call'[d].id \in Ids
  BY <1>1, CallStep DEF IInv
<1>3. TypeOK'
  BY <1>2 DEF IInv, TypeOK
<1>4. RowsAgreed'
  BY RowsKept
<1> QED
  BY <1>2, <1>3, <1>4, EngineKept DEF IInv

LEMMA UpsetTyped == ASSUME TypeOK, Upset \/ Fine PROVE upsets' \in 0..MaxUpsets
BY WorkloadsAssumption DEF TypeOK, Upset, Fine

----------------------------------------------------------------------------
(* One lemma per action: the calls. *)

LEMMA OpeningKnows ==
  ASSUME IInv, NEW n \in Names, NEW op \in Ops, NEW k \in Opening(op, n, Found(n))
  PROVE  /\ k \in Calls
         /\ k.pc \notin {"idle", "weighing", "writing"} => k.id \in Ids
         /\ CallKnows(k)
<1> DEFINE i == Found(n)
           o == [Idle EXCEPT !.op = op, !.name = n, !.id = i]
<1>1. i \in Ids \cup {None} /\ (i # None => rows[i] \in Rows)
  BY FoundInIds DEF IInv, TypeOK
<1>2. i # None => i \in Ids /\ RowAgreed(i)
  BY <1>1 DEF IInv, RowsAgreed
<1> HIDE DEF i
<1>3. CASE op = "up"
  <2>1. PICK s \in Shapes : k = [o EXCEPT !.pc = "weighing", !.beside = i, !.want = s]
    BY <1>3 DEF Opening, i
  <2> QED
    BY <1>1, <1>3, <2>1 DEF Idle, Calls, Places, Ops, CallKnows
<1>4. CASE op # "up" /\ i = None
  <2>1. k = Idle
    BY <1>4 DEF Opening, i
  <2> QED
    BY <2>1 DEF Idle, Calls, Places, CallKnows
<1>5. CASE op = "redeploy" /\ i # None
  <2>1. PICK s \in Stacks : k = [o EXCEPT !.pc = "checking", !.want = s, !.limit = rows[i].approved]
    BY <1>5 DEF Opening, i
  <2>2. rows[i].approved \in agreed[i] /\ rows[i].approved \in Shapes
    BY <1>1, <1>2, <1>5 DEF RowAgreed, Rows
  <2> QED
    BY <1>1, <1>2, <1>5, <2>1, <2>2 DEF Idle, Calls, Places, Ops, CallKnows, Compares
<1>6. CASE op = "start" /\ i # None
  <2>1. k = Idle \/ k = [o EXCEPT !.pc = "claiming"]
    BY <1>6 DEF Opening, i
  <2>2. CASE k = Idle
    BY <2>2 DEF Idle, Calls, Places, CallKnows
  <2>3. CASE k = [o EXCEPT !.pc = "claiming"]
    BY <1>1, <1>6, <2>3 DEF Idle, Calls, Places, Ops, CallKnows
  <2> QED
    BY <2>1, <2>2, <2>3
<1>7. CASE op \in {"stop", "down", "delete"} /\ i # None
  <2>1. k = [o EXCEPT !.pc = "halting"]
    BY <1>7 DEF Opening, i
  <2> QED
    BY <1>1, <1>7, <2>1 DEF Idle, Calls, Places, Ops, CallKnows
<1> QED
  BY <1>3, <1>4, <1>5, <1>6, <1>7 DEF Ops
\* The calls' steps that touch neither rows nor docker.
LEMMA BeginKeeps ==
  ASSUME IInv, NEW n \in Names, NEW op \in Ops, Begin(op, n)
  PROVE  IInv'
<1> DEFINE c == CHOOSE d \in Free : TRUE
<1>1. c \in Slots
  BY DEF Begin, Free
<1>2. PICK k \in Opening(op, n, Found(n)) : call' = [call EXCEPT ![c] = k]
  BY DEF Begin
<1>3. /\ k \in Calls
      /\ k.pc \notin {"idle", "weighing", "writing"} => k.id \in Ids
      /\ CallKnows(k)
  BY OpeningKnows
<1>4. begun' \in 0..MaxCalls
  BY WorkloadsAssumption DEF IInv, TypeOK, Begin
<1>5. /\ mixed' \in SUBSET Names /\ upsMet' \in BOOLEAN
      /\ claimed' \in BOOLEAN /\ upsets' \in 0..MaxUpsets
  BY DEF IInv, TypeOK, Begin
<1> HIDE DEF c
<1> QED
  BY <1>1, <1>2, <1>3, <1>4, <1>5, CallOnly DEF Begin, table, engine

LEMMA CheckKeeps ==
  ASSUME IInv, NEW c \in Slots, Check(c)
  PROVE  IInv'
<1> DEFINE k == [call[c] EXCEPT !.pc = "weighing", !.beside = Found(call[c].name)]
<1>1. call[c] \in Calls /\ CallKnows(call[c]) /\ call[c].pc = "checking"
  BY DEF IInv, TypeOK, Known, Check
<1>2. k \in Calls
  BY <1>1, FoundInIds DEF Calls, Places
<1>3. k.pc = "weighing" /\ CallKnows(k)
  BY <1>1 DEF CallKnows, Compares, Calls
<1>4. call' = [call EXCEPT ![c] = k]
  BY DEF Check, IInv, TypeOK
<1> QED
  BY <1>2, <1>3, <1>4, CallOnly DEF Check, IInv, TypeOK, marks

\* A call at the same row, further on.
LEMMA MovedOn ==
  ASSUME IInv, NEW c \in Slots, NEW place \in Places \ {"checking", "weighing", "writing", "recording"},
         call[c].pc # "idle", call[c].id \in Ids
  PROVE  LET k == [call[c] EXCEPT !.pc = place]
         IN  k \in Calls /\ k.id \in Ids /\ CallKnows(k)
BY DEF IInv, TypeOK, Known, Calls, CallKnows

LEMMA IdleKnows == Idle \in Calls /\ Idle.pc = "idle" /\ CallKnows(Idle)
BY DEF Idle, Calls, Places, CallKnows

LEMMA WeighKeeps ==
  ASSUME IInv, NEW c \in Slots, Weigh(c)
  PROVE  IInv'
<1> DEFINE k == [call[c] EXCEPT !.pc = "writing"]
<1>1. call[c] \in Calls /\ CallKnows(call[c]) /\ call[c].pc = "weighing"
  BY DEF IInv, TypeOK, Known, Weigh
<1>2. CASE Ends(c)
  BY <1>2, IdleKnows, CallOnly DEF Ends, Weigh, IInv, TypeOK, marks
<1>3. CASE /\ At(c, "writing")
           /\ call[c].op = "redeploy" => call[c].want.size <= call[c].limit.size
  <2>1. k \in Calls /\ k.pc = "writing" /\ CallKnows(k)
    BY <1>1, <1>3 DEF CallKnows, Compares, Calls, Places
  <2>2. call' = [call EXCEPT ![c] = k]
    BY <1>3 DEF At
  <2> QED
    BY <2>1, <2>2, CallOnly DEF Weigh, IInv, TypeOK, marks
<1> QED
  BY <1>2, <1>3 DEF Weigh

LEMMA ClaimsKeep ==
  ASSUME IInv, NEW c \in Slots, Claim(c) \/ ClaimInsert(c) \/ Refused(c)
  PROVE  IInv'
<1>1. /\ claimed' \in BOOLEAN /\ upsets' \in 0..MaxUpsets
      /\ UNCHANGED <<table, engine, sweep, begun, marks>>
  BY UpsetTyped DEF Claim, ClaimInsert, Refused, IInv, TypeOK, Upset, Fine
<1>2. call[c].pc \in {"claiming", "inserting", "marking"} /\ call[c].id \in Ids
  BY DEF Claim, ClaimInsert, Refused, IInv, TypeOK
<1>3. CASE Ends(c)
  BY <1>1, <1>3, IdleKnows, CallOnly DEF Ends, IInv, TypeOK, marks
<1>4. ASSUME NEW place \in {"marking", "inserting"}, At(c, place)
      PROVE  IInv'
  <2> DEFINE k == [call[c] EXCEPT !.pc = place]
  <2>1. k \in Calls /\ k.id \in Ids /\ CallKnows(k)
    BY <1>2, MovedOn DEF Places
  <2>2. call' = [call EXCEPT ![c] = k]
    BY <1>4 DEF At
  <2> HIDE DEF k
  <2> QED
    BY <1>1, <2>1, <2>2, CallOnly DEF IInv, TypeOK, marks
<1> QED
  BY <1>3, <1>4 DEF Claim, ClaimInsert, Refused
\* A step of one call that may write rows, files and docker.
LEMMA CallWrites ==
  ASSUME IInv, NEW c \in Slots, NEW k \in Calls, call' = [call EXCEPT ![c] = k],
         UNCHANGED <<expired, claimed, sweep, begun, mixed, upsMet>>,
         upsets' \in 0..MaxUpsets,
         rows' \in [Ids -> Rows \cup {None}],
         \A i \in Ids : rows[i] \in Rows => rows'[i] \in Rows,
         agreed' \in [Ids -> SUBSET Shapes],
         \A i \in Ids : agreed[i] \subseteq agreed'[i],
         files' \in [Ids -> {None} \cup [ref : Refs, digest : Digests, size : Sizes]],
         docker' \in [Names -> {None} \cup [up : BOOLEAN, id : Ids, ref : Refs, digest : Digests, size : Sizes]],
         k.pc \notin {"idle", "weighing", "writing"} => k.id \in Ids,
         CallKnows(k)'
  PROVE  TypeOK' /\ Known'
<1>1. /\ Known'
      /\ call' \in [Slots -> Calls]
      /\ \A d \in Slots : call'[d].pc \notin {"idle", "weighing", "writing"} => call'[d].id \in Ids
  BY CallStep DEF IInv
<1> QED
  BY <1>1 DEF IInv, TypeOK

LEMMA EngineAgreed ==
  ASSUME IInv, UNCHANGED <<files, docker>>, \A i \in Ids : agreed[i] \subseteq agreed'[i]
  PROVE  FilesAgreed' /\ RunsApproved'
BY DEF IInv, TypeOK, FilesAgreed, RunsApproved, Agreed

LEMMA WriteKeeps ==
  ASSUME IInv, NEW c \in Slots, Write(c)
  PROVE  IInv'
<1> DEFINE k == call[c]
<1>1. k \in Calls /\ CallKnows(k) /\ k.pc = "writing" /\ k.id \in Ids \cup {None} /\ k.name \in Names
  BY DEF IInv, TypeOK, Known, Write, Calls, CallKnows
<1>2. \/ k.op = "up" /\ k.want \in Shapes
      \/ /\ k.op = "redeploy" /\ k.id \in Ids /\ k.want \in Stacks
         /\ k.limit \in agreed[k.id] /\ k.want.size <= k.limit.size
  BY <1>1 DEF CallKnows, Compares
<1>3. UNCHANGED <<expired, files, docker, claimed, sweep, begun, upsets, mixed, upsMet>>
  BY DEF Write, engine
<1>4. k.want.ref \in Refs /\ k.want.size \in Sizes /\ k.want.size \in Nat
  BY <1>2, WorkloadsAssumption DEF Refs, Sizes
<1>5. ASSUME k.id # None
      PROVE  IInv'
  <2>0. PICK m \in Calls : m = [k EXCEPT !.pc = "claiming"]
    BY <1>1 DEF Calls, Places
  <2> DEFINE i == k.id
             given == IF k.op = "up" THEN k.want ELSE rows[i].approved
             r == [rows[i] EXCEPT !.ref = k.want.ref, !.size = k.want.size, !.approved = given]
  <2>1. i \in Ids /\ rows[i] \in Rows
    BY <1>1, <1>5 DEF CallKnows
  <2>2. r \in Rows /\ given \in Shapes
    BY <1>2, <1>4, <2>1 DEF Rows
  <2>3. /\ rows' = [rows EXCEPT ![i] = r]
        /\ call' = [call EXCEPT ![c] = m]
        /\ agreed' = IF k.op = "up" THEN [agreed EXCEPT ![i] = @ \cup {k.want}] ELSE agreed
    BY <1>5, <2>0 DEF Write, At
  <2>4. m \in Calls /\ m.id = i /\ m.pc = "claiming" /\ m.name \in Names
    BY <1>1, <2>0 DEF Calls
  <2>r. r.approved = given /\ r.size = k.want.size
    BY <2>1 DEF Rows
  <2> HIDE DEF r, given
  <2>5. rows' \in [Ids -> Rows \cup {None}] /\ \A j \in Ids : rows[j] \in Rows => rows'[j] \in Rows
    BY <2>1, <2>2, <2>3 DEF IInv, TypeOK
  <2>6. /\ agreed' \in [Ids -> SUBSET Shapes]
        /\ \A j \in Ids : agreed[j] \subseteq agreed'[j]
        /\ k.op = "up" => k.want \in agreed'[i]
    BY <1>2, <2>1, <2>3 DEF IInv, TypeOK
  <2>7. CallKnows(m)'
    BY <2>1, <2>2, <2>3, <2>4 DEF CallKnows, IInv, TypeOK
  <2>8. TypeOK' /\ Known'
    BY <1>3, <2>3, <2>4, <2>5, <2>6, <2>7, <2>1, CallWrites DEF IInv, TypeOK
  <2>9. RowsAgreed'
    <3>1. ASSUME NEW j \in Ids, rows'[j] \in Rows PROVE RowAgreed(j)'
      <4>1. CASE j = i
        <5>1. rows'[j] = r
          BY <2>1, <2>3, <4>1 DEF IInv, TypeOK
        <5>2. given \in agreed'[i]
          BY <1>2, <2>1, <2>6 DEF given, IInv, RowsAgreed, RowAgreed
        <5>3. \E b \in agreed'[i] : k.want.size <= b.size
          BY <1>2, <1>4, <2>6
        <5> QED
          BY <4>1, <5>1, <5>2, <5>3, <2>r DEF RowAgreed
      <4>2. CASE j # i
        <5>1. rows'[j] = rows[j]
          BY <2>3, <4>2 DEF IInv, TypeOK
        <5> QED
          BY <3>1, <5>1, <2>6 DEF IInv, RowsAgreed, RowAgreed
      <4> QED
        BY <4>1, <4>2
    <3> QED
      BY <3>1 DEF RowsAgreed
  <2> QED
    BY <1>3, <2>6, <2>8, <2>9, EngineAgreed DEF IInv
<1>6. ASSUME k.id = None, Found(k.name) # None
      PROVE  IInv'
  <2>1. Ends(c) /\ UNCHANGED <<rows, agreed>>
    BY <1>6 DEF Write
  <2> QED
    BY <1>3, <2>1, IdleKnows, CallOnly DEF Ends, IInv, TypeOK, table, engine
<1>7. ASSUME k.id = None, Found(k.name) = None
      PROVE  IInv'
  <2> DEFINE i == CHOOSE j \in Ids : rows[j] = None
             r == [name |-> k.name, state |-> "deploying", ref |-> k.want.ref,
                   size |-> k.want.size, approved |-> k.want]
  <2>1. k.op = "up" /\ k.want \in Shapes
    BY <1>2, <1>7, WorkloadsAssumption
  <2>2. (\E j \in Ids : rows[j] = None) /\ rows' = [rows EXCEPT ![i] = r]
        /\ agreed' = [agreed EXCEPT ![i] = @ \cup {k.want}]
        /\ call' = [call EXCEPT ![c].pc = "claiming", ![c].id = i]
    BY <1>7 DEF Write
  <2>3. i \in Ids /\ rows[i] = None
    BY <2>2
  <2>m. PICK m \in Calls : m = [k EXCEPT !.pc = "claiming", !.id = i]
    BY <1>1, <2>3 DEF Calls, Places
  <2>c. call' = [call EXCEPT ![c] = m]
    BY <2>2, <2>m DEF IInv, TypeOK
  <2> HIDE DEF i
  <2>4. r \in Rows /\ r.approved = k.want /\ r.size = k.want.size
    BY <1>1, <1>4, <2>1 DEF Rows, States
  <2>5. m \in Calls /\ m.id = i /\ m.pc = "claiming" /\ m.name \in Names
    BY <1>1, <2>3, <2>m DEF Calls
  <2> HIDE DEF r
  <2>6. rows' \in [Ids -> Rows \cup {None}] /\ \A j \in Ids : rows[j] \in Rows => rows'[j] \in Rows
    BY <2>2, <2>3, <2>4 DEF IInv, TypeOK
  <2>7. /\ agreed' \in [Ids -> SUBSET Shapes]
        /\ \A j \in Ids : agreed[j] \subseteq agreed'[j]
        /\ k.want \in agreed'[i]
    BY <2>1, <2>2, <2>3 DEF IInv, TypeOK
  <2>8. CallKnows(m)'
    BY <2>2, <2>3, <2>4, <2>5 DEF CallKnows, IInv, TypeOK
  <2>9. TypeOK' /\ Known'
    BY <1>3, <2>c, <2>3, <2>5, <2>6, <2>7, <2>8, CallWrites DEF IInv, TypeOK
  <2>10. RowsAgreed'
    <3>1. ASSUME NEW j \in Ids, rows'[j] \in Rows PROVE RowAgreed(j)'
      <4>1. CASE j = i
        <5>1. rows'[j] = r
          BY <2>2, <2>3, <4>1 DEF IInv, TypeOK
        <5>2. \E b \in agreed'[i] : k.want.size <= b.size
          BY <1>4, <2>7
        <5> QED
          BY <2>4, <2>7, <4>1, <5>1, <5>2 DEF RowAgreed
      <4>2. CASE j # i
        <5>1. rows'[j] = rows[j]
          BY <2>2, <4>2 DEF IInv, TypeOK
        <5> QED
          BY <3>1, <5>1, <2>7 DEF IInv, RowsAgreed, RowAgreed
      <4> QED
        BY <4>1, <4>2
    <3> QED
      BY <3>1 DEF RowsAgreed
  <2> QED
    BY <1>3, <2>7, <2>9, <2>10, EngineAgreed DEF IInv
<1> QED
  BY <1>5, <1>6, <1>7

\* The steps of deploy, stop and delete that write one state.
LEMMA StateKeeps ==
  ASSUME IInv, NEW c \in Slots, NEW k \in Calls, call' = [call EXCEPT ![c] = k],
         UNCHANGED <<expired, claimed, sweep, begun, marks, docker>>,
         upsets' \in 0..MaxUpsets,
         NEW i \in Ids, NEW s \in States, rows[i] \in Rows, Sets(i, s) \/ UNCHANGED rows,
         files' \in [Ids -> {None} \cup [ref : Refs, digest : Digests, size : Sizes]],
         FilesAgreed',
         k.pc \notin {"idle", "weighing", "writing"} => k.id \in Ids,
         CallKnows(k)
  PROVE  IInv'
<1>1. /\ rows' \in [Ids -> Rows \cup {None}]
      /\ \A j \in Ids : /\ rows[j] \in Rows => rows'[j] \in Rows
                        /\ rows'[j] \in Rows => /\ rows[j] \in Rows
                                                /\ rows'[j].approved = rows[j].approved
                                                /\ rows'[j].size = rows[j].size
  BY RowSet DEF IInv, TypeOK
<1>2. UNCHANGED agreed
  BY DEF marks
<1>3. k.id \in Ids \cup {None}
  BY DEF Calls
<1>4. CallKnows(k)'
  BY <1>1, <1>2, <1>3 DEF CallKnows, Compares
<1>5. TypeOK' /\ Known'
  BY <1>1, <1>2, <1>4, CallWrites DEF IInv, TypeOK, marks
<1>6. RowsAgreed'
  BY <1>1, <1>2, RowsKept
<1>7. RunsApproved'
  BY <1>2 DEF IInv, RunsApproved, Agreed
<1> QED
  BY <1>5, <1>6, <1>7 DEF IInv

LEMMA MarkKeeps ==
  ASSUME IInv, NEW c \in Slots, Mark(c)
  PROVE  IInv'
<1> DEFINE k == [call[c] EXCEPT !.pc = "rendering"]
           i == call[c].id
<1>1. i \in Ids /\ rows[i] \in Rows /\ call[c].pc = "marking"
  <2>1. call[c].pc = "marking" /\ call[c] \in Calls /\ CallKnows(call[c]) /\ i \in Ids
    BY DEF Mark, IInv, TypeOK, Known
  <2>2. i # None
    BY <2>1, WorkloadsAssumption
  <2> QED
    BY <2>1, <2>2 DEF CallKnows
<1>2. /\ UNCHANGED <<expired, claimed, sweep, begun, upsets, marks, docker, files>>
      /\ (Ends(c) /\ UNCHANGED rows) \/ (At(c, "rendering") /\ Sets(i, "deploying"))
  BY DEF Mark, engine
<1>3. FilesAgreed'
  BY <1>2 DEF IInv, FilesAgreed, Agreed, marks
<1>4. CASE Ends(c) /\ UNCHANGED rows
  <2>1. call' = [call EXCEPT ![c] = Idle]
    BY <1>4 DEF Ends
  <2>2. "deploying" \in States
    BY DEF States
  <2> QED
    BY <1>1, <1>2, <1>3, <1>4, <2>1, <2>2, IdleKnows, StateKeeps DEF IInv, TypeOK
<1>5. CASE At(c, "rendering") /\ Sets(i, "deploying")
  <2>1. k \in Calls /\ k.id \in Ids /\ CallKnows(k)
    BY <1>1, MovedOn DEF Places
  <2>2. call' = [call EXCEPT ![c] = k]
    BY <1>5 DEF At
  <2>3. "deploying" \in States
    BY DEF States
  <2> HIDE DEF k, i
  <2> QED
    BY <1>1, <1>2, <1>3, <1>5, <2>1, <2>2, <2>3, StateKeeps DEF IInv, TypeOK
<1> QED
  BY <1>2, <1>4, <1>5
\* A call beyond its first query is at a row that exists.
LEMMA AtRow ==
  ASSUME IInv, NEW c \in Slots, call[c].pc \notin {"idle", "checking", "weighing", "writing"}
  PROVE  /\ call[c].id \in Ids /\ rows[call[c].id] \in Rows /\ call[c].name \in Names
         /\ call[c] \in Calls
<1>1. call[c] \in Calls /\ CallKnows(call[c]) /\ call[c].id \in Ids
  BY DEF IInv, TypeOK, Known
<1>2. call[c].id # None
  BY <1>1, WorkloadsAssumption
<1> QED
  BY <1>1, <1>2 DEF CallKnows

LEMMA Concluded ==
  ASSUME IInv, NEW c \in Slots, call[c].pc \notin {"idle", "checking", "weighing", "writing"},
         NEW s \in States, Concludes(c, s)
  PROVE  \E k \in Calls : /\ call' = [call EXCEPT ![c] = k]
                          /\ k.pc = "recording" /\ k.id \in Ids /\ CallKnows(k)
<1> DEFINE k == [call[c] EXCEPT !.pc = "recording", !.outcome = s]
<1>1. /\ call[c].id \in Ids /\ rows[call[c].id] \in Rows /\ call[c].name \in Names
      /\ call[c] \in Calls
  BY AtRow
<1>2. k \in Calls /\ k.pc = "recording" /\ k.id = call[c].id /\ k.name = call[c].name /\ k.outcome = s
  BY <1>1 DEF Calls, Places
<1>3. call' = [call EXCEPT ![c] = k]
  BY DEF Concludes, IInv, TypeOK
<1> HIDE DEF k
<1>4. CallKnows(k)
  BY <1>1, <1>2 DEF CallKnows
<1> QED
  BY <1>1, <1>2, <1>3, <1>4

LEMMA AtStep ==
  ASSUME IInv, NEW c \in Slots, call[c].pc \notin {"idle", "checking", "weighing", "writing"},
         NEW place \in {"launching", "erasing"}, At(c, place)
  PROVE  \E k \in Calls : /\ call' = [call EXCEPT ![c] = k]
                          /\ k.pc = place /\ k.id \in Ids /\ CallKnows(k)
<1> DEFINE k == [call[c] EXCEPT !.pc = place]
<1>1. call[c].id \in Ids /\ call[c] \in Calls
  BY AtRow
<1>2. k \in Calls /\ k.id \in Ids /\ CallKnows(k) /\ k.pc = place
  BY <1>1, MovedOn DEF Places, Calls
<1>3. call' = [call EXCEPT ![c] = k]
  BY DEF At
<1> HIDE DEF k
<1> QED
  BY <1>2, <1>3

LEMMA EndStep ==
  ASSUME NEW c \in Slots, Ends(c)
  PROVE  \E k \in Calls : call' = [call EXCEPT ![c] = k] /\ k.pc = "idle" /\ CallKnows(k)
BY IdleKnows DEF Ends

\* serviceImages gives nothing but what an approval of the row gives.
LEMMA ImageAgreed ==
  ASSUME IInv, NEW i \in Ids, rows[i] \in Rows, Image(rows[i]) # None
  PROVE  /\ Image(rows[i]) \in [ref : Refs, digest : Digests, size : Sizes]
         /\ Agreed(Image(rows[i]), i)
<1> DEFINE r == rows[i]
<1>1. r.approved \in agreed[i] /\ r.approved \in Shapes
  BY DEF IInv, RowsAgreed, RowAgreed, Rows
<1>2. PICK b \in agreed[i] : r.size <= b.size
  BY DEF IInv, RowsAgreed, RowAgreed
<1>3. r.approved.ref = r.ref /\ Image(r) = [ref |-> r.ref, digest |-> r.approved.digest, size |-> r.size]
  BY DEF Image
<1>4. r.ref \in Refs /\ r.size \in Sizes /\ r.approved.digest \in Digests
  BY <1>1 DEF Rows, Digests
<1> QED
  BY <1>1, <1>2, <1>3, <1>4 DEF Agreed

LEMMA RenderKeeps ==
  ASSUME IInv, NEW c \in Slots, Render(c)
  PROVE  IInv'
<1> DEFINE i == call[c].id
<1>1. call[c].pc = "rendering" /\ i \in Ids /\ rows[i] \in Rows
  BY AtRow DEF Render
<1>2. UNCHANGED <<rows, expired, claimed, sweep, begun, marks, docker>> /\ upsets' \in 0..MaxUpsets
  BY UpsetTyped DEF Render, IInv, table, Upset, Fine
<1>3. "failed" \in States
  BY DEF States
<1>4. \E k \in Calls : /\ call' = [call EXCEPT ![c] = k]
                       /\ k.pc \in {"launching", "recording"} /\ k.id \in Ids /\ CallKnows(k)
  BY <1>1, <1>3, AtStep, Concluded DEF Render
<1>5. \/ UNCHANGED files
      \/ Image(rows[i]) # None /\ files' = [files EXCEPT ![i] = Image(rows[i])]
  BY DEF Render
<1>6. UNCHANGED agreed
  BY <1>2 DEF marks
<1>7. /\ files' \in [Ids -> {None} \cup [ref : Refs, digest : Digests, size : Sizes]]
      /\ FilesAgreed'
  <2>1. CASE UNCHANGED files
    BY <1>6, <2>1 DEF IInv, TypeOK, FilesAgreed, Agreed
  <2>2. CASE Image(rows[i]) # None /\ files' = [files EXCEPT ![i] = Image(rows[i])]
    <3> DEFINE image == Image(rows[i])
    <3>1. image \in [ref : Refs, digest : Digests, size : Sizes] /\ Agreed(image, i)
      BY <1>1, <2>2, ImageAgreed
    <3> HIDE DEF image
    <3>2. files' = [files EXCEPT ![i] = image]
      BY <2>2 DEF image
    <3>3. files' \in [Ids -> {None} \cup [ref : Refs, digest : Digests, size : Sizes]]
      BY <3>1, <3>2 DEF IInv, TypeOK
    <3>4. ASSUME NEW j \in Ids, files'[j] # None PROVE Agreed(files[j], j)'
      <4>1. CASE j = i
        BY <1>1, <1>6, <3>1, <3>2, <4>1 DEF IInv, TypeOK, Agreed
      <4>2. CASE j # i
        BY <1>6, <3>2, <3>4, <4>2 DEF IInv, TypeOK, FilesAgreed, Agreed
      <4> QED
        BY <4>1, <4>2
    <3> QED
      BY <3>3, <3>4 DEF FilesAgreed
  <2> QED
    BY <1>5, <2>1, <2>2
<1> HIDE DEF i
<1> QED
  BY <1>1, <1>2, <1>3, <1>4, <1>7, StateKeeps

LEMMA RecordKeeps ==
  ASSUME IInv, NEW c \in Slots, Record(c)
  PROVE  IInv'
<1> DEFINE i == call[c].id
           s == call[c].outcome
<1>1. call[c].pc = "recording" /\ i \in Ids /\ rows[i] \in Rows
  BY AtRow DEF Record
<1>2. s \in States
  BY <1>1 DEF IInv, Known, CallKnows
<1>3. /\ UNCHANGED <<files, expired, claimed, sweep, begun, upsets, marks, docker>>
      /\ Sets(i, s) \/ UNCHANGED rows
      /\ Ends(c)
  BY DEF Record, engine
<1>4. /\ files' \in [Ids -> {None} \cup [ref : Refs, digest : Digests, size : Sizes]]
      /\ FilesAgreed' /\ upsets' \in 0..MaxUpsets
  BY <1>3 DEF IInv, TypeOK, FilesAgreed, Agreed, marks
<1>5. PICK k \in Calls : call' = [call EXCEPT ![c] = k] /\ k.pc = "idle" /\ CallKnows(k)
  BY <1>3, EndStep
<1> HIDE DEF i, s
<1> QED
  BY <1>1, <1>2, <1>3, <1>4, <1>5, StateKeeps

LEMMA EraseKeeps ==
  ASSUME IInv, NEW c \in Slots, Erase(c)
  PROVE  IInv'
<1> DEFINE i == call[c].id
<1>1. call[c].pc = "erasing" /\ i \in Ids /\ rows[i] \in Rows
  BY AtRow DEF Erase
<1>2. /\ UNCHANGED <<expired, claimed, sweep, begun, marks, docker>>
      /\ upsets' \in 0..MaxUpsets
      /\ Sets(i, "deleted") \/ UNCHANGED rows
      /\ Ends(c) /\ files' = [files EXCEPT ![i] = None]
  BY UpsetTyped DEF Erase, IInv, Upset, Fine
<1>3. /\ files' \in [Ids -> {None} \cup [ref : Refs, digest : Digests, size : Sizes]]
      /\ FilesAgreed'
  BY <1>2 DEF IInv, TypeOK, FilesAgreed, Agreed, marks
<1>4. PICK k \in Calls : call' = [call EXCEPT ![c] = k] /\ k.pc = "idle" /\ CallKnows(k)
  BY <1>2, EndStep
<1>5. "deleted" \in States
  BY DEF States
<1> HIDE DEF i
<1> QED
  BY <1>1, <1>2, <1>3, <1>4, <1>5, StateKeeps
\* What compose makes of containers: nothing new, fewer of them, or stopped ones.
LEMMA HaltedAgreed ==
  ASSUME IInv, NEW n, NEW op, docker' \in {docker, Halted(n, op)}, UNCHANGED agreed
  PROVE  /\ docker' \in [Names -> {None} \cup [up : BOOLEAN, id : Ids, ref : Refs,
                                               digest : Digests, size : Sizes]]
         /\ RunsApproved'
<1> DEFINE D == [up : BOOLEAN, id : Ids, ref : Refs, digest : Digests, size : Sizes]
<1>1. CASE docker' = docker
  BY <1>1 DEF IInv, TypeOK, RunsApproved, Agreed
<1>2. CASE docker' = [docker EXCEPT ![n] = None]
  BY <1>2 DEF IInv, TypeOK, RunsApproved, Agreed
<1>3. CASE docker[n] # None /\ docker' = [docker EXCEPT ![n].up = FALSE]
  <2>1. docker' \in [Names -> {None} \cup D]
    <3> DEFINE r == [docker[n] EXCEPT !.up = FALSE]
    <3>1. docker \in [Names -> {None} \cup D] /\ docker' = [docker EXCEPT ![n] = r]
      BY <1>3 DEF IInv, TypeOK
    <3>2. n \in Names => r \in D
      BY <1>3, <3>1
    <3> HIDE DEF D, r
    <3> QED BY <3>1, <3>2
  <2>2. ASSUME NEW m \in Names, docker'[m] # None PROVE Agreed(docker[m], docker[m].id)'
    <3>1. docker[m] # None /\ docker[m] \in D
      BY <1>3, <2>2 DEF IInv, TypeOK
    <3>2. /\ docker'[m].ref = docker[m].ref /\ docker'[m].digest = docker[m].digest
          /\ docker'[m].size = docker[m].size /\ docker'[m].id = docker[m].id
      BY <1>3, <3>1 DEF IInv, TypeOK
    <3>3. Agreed(docker[m], docker[m].id)
      BY <3>1 DEF IInv, RunsApproved
    <3> QED
      BY <3>2, <3>3 DEF Agreed
  <2> QED
    BY <2>1, <2>2 DEF RunsApproved
<1> QED
  BY <1>1, <1>2, <1>3 DEF Halted

\* The steps of one call at docker.
LEMMA EngineKeeps ==
  ASSUME IInv, NEW c \in Slots, NEW k \in Calls, call' = [call EXCEPT ![c] = k],
         UNCHANGED <<table, files, claimed, sweep, begun, marks>>,
         upsets' \in 0..MaxUpsets,
         docker' \in [Names -> {None} \cup [up : BOOLEAN, id : Ids, ref : Refs,
                                            digest : Digests, size : Sizes]],
         RunsApproved',
         k.pc \notin {"idle", "weighing", "writing"} => k.id \in Ids,
         CallKnows(k)
  PROVE  IInv'
<1>1. UNCHANGED <<rows, expired, agreed, mixed, upsMet>>
  BY DEF table, marks
<1>2. CallKnows(k)'
  BY <1>1 DEF CallKnows, Compares
<1>3. TypeOK' /\ Known'
  BY <1>1, <1>2, CallWrites DEF IInv, TypeOK
<1>4. RowsAgreed' /\ FilesAgreed'
  BY <1>1 DEF IInv, RowsAgreed, RowAgreed, FilesAgreed, Agreed
<1> QED
  BY <1>3, <1>4 DEF IInv

LEMMA LaunchKeeps ==
  ASSUME IInv, NEW c \in Slots, Launch(c)
  PROVE  IInv'
<1> DEFINE i == call[c].id
           n == call[c].name
           f == files[i]
           d == [up |-> TRUE, id |-> i, ref |-> f.ref, digest |-> f.digest, size |-> f.size]
           D == [up : BOOLEAN, id : Ids, ref : Refs, digest : Digests, size : Sizes]
<1>1. call[c].pc = "launching" /\ i \in Ids /\ n \in Names
  BY AtRow DEF Launch
<1>2. UNCHANGED <<table, files, claimed, sweep, begun, marks>> /\ upsets' \in 0..MaxUpsets
  BY UpsetTyped DEF Launch, IInv, Upset, Fine
<1>3. "failed" \in States /\ "running" \in States
  BY DEF States
<1>4. \E k \in Calls : /\ call' = [call EXCEPT ![c] = k]
                       /\ k.pc = "recording" /\ k.id \in Ids /\ CallKnows(k)
  BY <1>1, <1>3, Concluded DEF Launch
<1>5. docker' \in [Names -> {None} \cup D] /\ RunsApproved'
  <2>1. CASE UNCHANGED docker
    BY <1>2, <2>1 DEF IInv, TypeOK, RunsApproved, Agreed, marks
  <2>2. CASE f # None /\ docker' = [docker EXCEPT ![n] = d]
    <3>1. f \in [ref : Refs, digest : Digests, size : Sizes] /\ Agreed(f, i)
      BY <1>1, <2>2 DEF IInv, TypeOK, FilesAgreed
    <3>2. d \in D /\ d.id = i /\ Agreed(d, i)
      BY <1>1, <3>1 DEF Agreed
    <3> HIDE DEF d
    <3>3. docker' \in [Names -> {None} \cup D]
      BY <2>2, <3>2 DEF IInv, TypeOK
    <3>4. ASSUME NEW m \in Names, docker'[m] # None PROVE Agreed(docker[m], docker[m].id)'
      <4>1. CASE m = n
        BY <1>1, <1>2, <2>2, <3>2, <4>1 DEF IInv, TypeOK, Agreed, marks
      <4>2. CASE m # n
        BY <1>2, <2>2, <3>4, <4>2 DEF IInv, TypeOK, RunsApproved, Agreed, marks
      <4> QED
        BY <4>1, <4>2
    <3> QED
      BY <3>3, <3>4 DEF RunsApproved
  <2> QED
    BY <2>1, <2>2 DEF Launch
<1> QED
  BY <1>2, <1>4, <1>5, EngineKeeps

LEMMA HaltKeeps ==
  ASSUME IInv, NEW c \in Slots, Halt(c)
  PROVE  IInv'
<1> DEFINE n == call[c].name
           op == call[c].op
<1>1. call[c].pc = "halting"
  BY DEF Halt
<1>2. UNCHANGED <<table, files, claimed, sweep, begun, marks>> /\ upsets' \in 0..MaxUpsets
  BY UpsetTyped DEF Halt, IInv, Upset, Fine
<1>3. "stopped" \in States
  BY DEF States
<1>4. PICK k \in Calls : /\ call' = [call EXCEPT ![c] = k]
                         /\ k.pc \notin {"idle", "weighing", "writing"} => k.id \in Ids
                         /\ CallKnows(k)
  <2>1. CASE Ends(c)
    BY <2>1, EndStep
  <2>2. CASE At(c, "erasing")
    BY <1>1, <2>2, AtStep
  <2>3. CASE Concludes(c, "stopped")
    BY <1>1, <1>3, <2>3, Concluded
  <2> QED
    BY <2>1, <2>2, <2>3 DEF Halt
<1>5. docker' \in {docker, Halted(n, op)}
  BY DEF Halt
<1>6. UNCHANGED agreed
  BY <1>2 DEF marks
<1>7. /\ docker' \in [Names -> {None} \cup [up : BOOLEAN, id : Ids, ref : Refs,
                                            digest : Digests, size : Sizes]]
      /\ RunsApproved'
  <2> HIDE DEF n, op
  <2> QED
    BY <1>5, <1>6, HaltedAgreed
<1> QED
  BY <1>2, <1>4, <1>7, EngineKeeps

----------------------------------------------------------------------------
(* The sweep and what happens around it. *)

\* A step that leaves the calls alone.
LEMMA SweepStep ==
  ASSUME IInv, NEW t \in Sweeps, sweep' = t,
         UNCHANGED <<expired, files, claimed, call, begun, agreed, upsMet>>,
         upsets' \in 0..MaxUpsets, mixed' \in SUBSET Names,
         rows' \in [Ids -> Rows \cup {None}],
         \A j \in Ids : /\ rows[j] \in Rows => rows'[j] \in Rows
                        /\ rows'[j] \in Rows => /\ rows[j] \in Rows
                                                /\ rows'[j].approved = rows[j].approved
                                                /\ rows'[j].size = rows[j].size,
         docker' \in [Names -> {None} \cup [up : BOOLEAN, id : Ids, ref : Refs,
                                            digest : Digests, size : Sizes]],
         RunsApproved',
         \A i \in t.todo : rows[i] \in Rows,
         t.pc \in {"stopping", "recording"} => t.at \in Ids /\ rows[t.at] \in Rows /\ t.outcome \in States
  PROVE  IInv'
<1>1. \A c \in Slots : CallKnows(call[c])'
  BY KnowsKept DEF IInv
<1>2. Known'
  BY <1>1 DEF Known, Sweeps
<1>3. TypeOK'
  BY DEF IInv, TypeOK
<1>4. RowsAgreed'
  BY RowsKept
<1>5. FilesAgreed'
  BY DEF IInv, FilesAgreed, Agreed
<1> QED
  BY <1>2, <1>3, <1>4, <1>5 DEF IInv

LEMMA SweepNow ==
  ASSUME IInv
  PROVE  /\ sweep \in Sweeps
         /\ \A i \in sweep.todo : i \in Ids /\ rows[i] \in Rows
         /\ sweep.pc \in {"stopping", "recording"} =>
              sweep.at \in Ids /\ rows[sweep.at] \in Rows /\ sweep.outcome \in States
         /\ Resting \in Sweeps /\ Resting.pc = "idle" /\ Resting.todo = {}
BY DEF IInv, TypeOK, Known, Sweeps, Resting

\* The loop without a row is still a loop over rows.
LEMMA WithoutSound ==
  ASSUME IInv, NEW i
  PROVE  /\ Without(i) \in Sweeps
         /\ Without(i).pc \in {"idle", "next"}
         /\ \A j \in Without(i).todo : rows[j] \in Rows
<1>1. CASE sweep.todo \subseteq {i}
  BY <1>1, SweepNow DEF Without
<1>2. CASE ~(sweep.todo \subseteq {i})
  BY <1>2, SweepNow DEF Without, Resting, Sweeps
<1> QED
  BY <1>1, <1>2
\* The sweep's steps that write nothing.
LEMMA LookKeeps ==
  ASSUME IInv, NEW t \in Sweeps, sweep' = t,
         UNCHANGED <<table, engine, claimed, call, begun, agreed, upsMet>>,
         upsets' \in 0..MaxUpsets, mixed' \in SUBSET Names,
         \A i \in t.todo : rows[i] \in Rows,
         t.pc \in {"stopping", "recording"} => t.at \in Ids /\ rows[t.at] \in Rows /\ t.outcome \in States
  PROVE  IInv'
<1>1. UNCHANGED <<rows, expired, files, docker>>
  BY DEF table, engine
<1>2. /\ rows' \in [Ids -> Rows \cup {None}]
      /\ docker' \in [Names -> {None} \cup [up : BOOLEAN, id : Ids, ref : Refs,
                                            digest : Digests, size : Sizes]]
  BY <1>1 DEF IInv, TypeOK
<1>3. RunsApproved'
  BY <1>1 DEF IInv, RunsApproved, Agreed
<1> QED
  BY <1>1, <1>2, <1>3, SweepStep

LEMMA SweepListKeeps ==
  ASSUME IInv, SweepList
  PROVE  IInv'
<1> DEFINE t == [Resting EXCEPT !.pc = "next", !.todo = Running, !.late = Running \cap expired]
<1>1. \A i \in Running : i \in Ids /\ rows[i] \in Rows
  BY DEF Running, IInv, TypeOK
<1>2. t \in Sweeps /\ t.pc = "next" /\ t.todo = Running
  BY DEF Resting, Sweeps, Running, IInv, TypeOK
<1>3. mixed' \in SUBSET Names
  BY <1>1 DEF SweepList, Running, IInv, TypeOK, Rows
<1>4. sweep' = t
  BY DEF SweepList
<1> HIDE DEF t
<1> QED
  BY <1>1, <1>2, <1>3, <1>4, LookKeeps DEF SweepList, IInv, TypeOK

LEMMA SweepTakeKeeps ==
  ASSUME IInv, NEW i \in Ids, SweepTake(i) \/ SweepSkips(i)
  PROVE  IInv'
<1>1. /\ UNCHANGED <<table, engine, claimed, call, begun, marks>>
      /\ upsets' \in 0..MaxUpsets /\ mixed' \in SUBSET Names
      /\ i \in sweep.todo
  BY UpsetTyped DEF SweepTake, SweepSkips, IInv, TypeOK, marks, Upset, Fine
<1>2. UNCHANGED <<agreed, upsMet>>
  BY <1>1 DEF marks
<1>3. CASE sweep' = Without(i)
  <2> DEFINE t == Without(i)
  <2>1. t \in Sweeps /\ t.pc \notin {"stopping", "recording"} /\ \A j \in t.todo : rows[j] \in Rows
    BY WithoutSound
  <2> HIDE DEF t
  <2>2. sweep' = t
    BY <1>3 DEF t
  <2> QED
    BY <1>1, <1>2, <2>1, <2>2, LookKeeps
<1>4. ASSUME NEW j \in Ids, NEW place \in {"stopping", "recording"}, NEW s \in States,
             rows[j] \in Rows, sweep' = Holding(i, j, place, s)
      PROVE  IInv'
  <2> DEFINE t == Holding(i, j, place, s)
  <2>1. t \in Sweeps /\ t.todo \subseteq sweep.todo /\ t.at = j /\ t.outcome = s
    BY SweepNow DEF Holding, Sweeps
  <2> HIDE DEF t
  <2>2. sweep' = t
    BY <1>4 DEF t
  <2>3. \A k \in t.todo : rows[k] \in Rows
    BY <2>1, SweepNow
  <2> QED
    BY <1>1, <1>2, <1>4, <2>1, <2>2, <2>3, LookKeeps
<1>5. "stopped" \in States /\ "failed" \in States
  BY DEF States
<1>6. rows[i] \in Rows
  BY <1>1, SweepNow
<1>7. LET j == Found(rows[i].name) IN j # None => j \in Ids /\ rows[j] \in Rows
  BY FoundInIds DEF IInv, TypeOK
<1> QED
  BY <1>3, <1>4, <1>5, <1>6, <1>7 DEF SweepTake, SweepSkips

LEMMA SweepStopKeeps ==
  ASSUME IInv, SweepStop
  PROVE  IInv'
<1> DEFINE n == rows[sweep.at].name
<1>1. UNCHANGED <<rows, expired, files, claimed, call, begun, agreed, mixed, upsMet>>
  BY DEF SweepStop, table, marks
<1>2. upsets' \in 0..MaxUpsets
  BY UpsetTyped DEF SweepStop, IInv, Upset, Fine
<1>3. docker' \in {docker, Halted(n, "stop")}
  BY DEF SweepStop
<1>4. /\ docker' \in [Names -> {None} \cup [up : BOOLEAN, id : Ids, ref : Refs,
                                            digest : Digests, size : Sizes]]
      /\ RunsApproved'
  <2> HIDE DEF n
  <2> QED
    BY <1>1, <1>3, HaltedAgreed
<1>5. PICK t \in Sweeps :
        /\ sweep' = t
        /\ \A i \in t.todo : rows[i] \in Rows
        /\ t.pc \in {"stopping", "recording"} => t.at \in Ids /\ rows[t.at] \in Rows /\ t.outcome \in States
  <2>1. CASE sweep' = Without(None)
    <3>1. /\ Without(None) \in Sweeps /\ Without(None).pc \notin {"stopping", "recording"}
          /\ \A j \in Without(None).todo : rows[j] \in Rows
      BY WithoutSound
    <3> QED
      BY <2>1, <3>1
  <2>2. CASE sweep.pc = "stopping" /\ sweep' = [sweep EXCEPT !.pc = "recording"]
    <3> DEFINE t == [sweep EXCEPT !.pc = "recording"]
    <3>1. t \in Sweeps /\ t.todo = sweep.todo /\ t.at = sweep.at /\ t.outcome = sweep.outcome
      BY SweepNow DEF Sweeps
    <3> HIDE DEF t
    <3>2. sweep' = t
      BY <2>2 DEF t
    <3> QED
      BY <2>2, <3>1, <3>2, SweepNow
  <2> QED
    BY <2>1, <2>2 DEF SweepStop
<1>6. /\ rows' \in [Ids -> Rows \cup {None}] /\ mixed' \in SUBSET Names
  BY <1>1 DEF IInv, TypeOK
<1> QED
  BY <1>1, <1>2, <1>4, <1>5, <1>6, SweepStep

LEMMA SweepRecordKeeps ==
  ASSUME IInv, SweepRecord
  PROVE  IInv'
<1> DEFINE j == sweep.at
           s == sweep.outcome
           t == Without(None)
<1>1. /\ UNCHANGED <<expired, files, docker, claimed, call, begun, upsets, agreed, mixed, upsMet>>
      /\ Sets(j, s) \/ UNCHANGED rows
      /\ sweep' = t
  BY DEF SweepRecord, engine, marks
<1>2. j \in Ids /\ rows[j] \in Rows /\ s \in States
  BY SweepNow DEF SweepRecord
<1>3. t \in Sweeps /\ t.pc \notin {"stopping", "recording"} /\ \A i \in t.todo : rows[i] \in Rows
  BY WithoutSound
<1>4. /\ upsets' \in 0..MaxUpsets /\ mixed' \in SUBSET Names /\ RunsApproved'
      /\ docker' \in [Names -> {None} \cup [up : BOOLEAN, id : Ids, ref : Refs,
                                            digest : Digests, size : Sizes]]
  BY <1>1 DEF IInv, TypeOK, RunsApproved, Agreed
<1> HIDE DEF j, s, t
<1>5. /\ rows' \in [Ids -> Rows \cup {None}]
      /\ \A i \in Ids : /\ rows[i] \in Rows => rows'[i] \in Rows
                        /\ rows'[i] \in Rows => /\ rows[i] \in Rows
                                                /\ rows'[i].approved = rows[i].approved
                                                /\ rows'[i].size = rows[i].size
  BY <1>1, <1>2, RowSet DEF IInv, TypeOK
<1> QED
  BY <1>1, <1>3, <1>4, <1>5, SweepStep

LEMMA VanishKeeps ==
  ASSUME IInv, NEW n \in Names, Vanish(n)
  PROVE  IInv'
<1>1. UNCHANGED <<rows, expired, files, claimed, call, sweep, begun, agreed, mixed, upsMet>>
  BY DEF Vanish, table, marks
<1>2. upsets' \in 0..MaxUpsets
  BY UpsetTyped DEF Vanish, IInv
<1>3. docker' \in {docker, Halted(n, "down")}
  BY DEF Vanish, Halted
<1>4. /\ docker' \in [Names -> {None} \cup [up : BOOLEAN, id : Ids, ref : Refs,
                                            digest : Digests, size : Sizes]]
      /\ RunsApproved'
  BY <1>1, <1>3, HaltedAgreed
<1>5. /\ rows' \in [Ids -> Rows \cup {None}] /\ mixed' \in SUBSET Names /\ sweep \in Sweeps
  BY <1>1 DEF IInv, TypeOK
<1> QED
  BY <1>1, <1>2, <1>4, <1>5, SweepNow, SweepStep

LEMMA ExpireKeeps ==
  ASSUME IInv, NEW i \in Ids, Expire(i)
  PROVE  IInv'
<1>1. UNCHANGED <<rows, files, docker, claimed, call, sweep, begun, upsets, agreed, mixed, upsMet>>
  BY DEF Expire, engine, marks
<1>2. TypeOK'
  BY <1>1 DEF IInv, TypeOK, Expire, Live
<1>3. Known' /\ RowsAgreed' /\ FilesAgreed' /\ RunsApproved'
  BY <1>1 DEF IInv, Known, CallKnows, Compares, RowsAgreed, RowAgreed, FilesAgreed, RunsApproved, Agreed
<1> QED
  BY <1>2, <1>3 DEF IInv

LEMMA CrashKeeps ==
  ASSUME IInv, Crash
  PROVE  IInv'
<1>1. /\ UNCHANGED <<rows, expired, files, docker, claimed, begun, agreed, mixed, upsMet>>
      /\ call' = [c \in Slots |-> Idle] /\ sweep' = Resting
  BY DEF Crash, table, engine, marks
<1>2. upsets' \in 0..MaxUpsets
  BY UpsetTyped DEF Crash, IInv
<1>3. TypeOK'
  BY <1>1, <1>2, IdleKnows, SweepNow DEF IInv, TypeOK
<1>4. Known'
  BY <1>1 DEF Known, CallKnows, Compares, Idle, Resting
<1>5. RowsAgreed' /\ FilesAgreed' /\ RunsApproved'
  BY <1>1 DEF IInv, RowsAgreed, RowAgreed, FilesAgreed, RunsApproved, Agreed
<1> QED
  BY <1>3, <1>4, <1>5 DEF IInv

----------------------------------------------------------------------------
(* The invariant, and what follows from it. *)

LEMMA InitHolds == Init => IInv
<1> SUFFICES ASSUME Init PROVE IInv
  OBVIOUS
<1>1. Idle \in Calls /\ Idle.pc = "idle" /\ Resting \in Sweeps /\ Resting.pc = "idle" /\ Resting.todo = {}
  BY DEF Idle, Calls, Places, Resting, Sweeps
<1>2. TypeOK
  <2>1. rows \in [Ids -> Rows \cup {None}] /\ expired \in SUBSET Ids
    BY DEF Init
  <2>2. files \in [Ids -> {None} \cup [ref : Refs, digest : Digests, size : Sizes]]
    BY DEF Init
  <2>3. docker \in [Names -> {None} \cup [up : BOOLEAN, id : Ids, ref : Refs, digest : Digests, size : Sizes]]
    BY DEF Init
  <2>4. claimed \in BOOLEAN /\ upsMet \in BOOLEAN /\ mixed \in SUBSET Names
    BY DEF Init
  <2>5. /\ call \in [Slots -> Calls]
        /\ \A c \in Slots : call[c].pc \notin {"idle", "weighing", "writing"} => call[c].id \in Ids
    BY <1>1 DEF Init
  <2>6. sweep \in Sweeps /\ (sweep.pc \in {"stopping", "recording"} => sweep.at \in Ids)
    BY <1>1 DEF Init
  <2>7. begun \in 0..MaxCalls /\ upsets \in 0..MaxUpsets
    BY WorkloadsAssumption DEF Init
  <2>8. agreed \in [Ids -> SUBSET Shapes]
    BY DEF Init
  <2> QED
    BY <2>1, <2>2, <2>3, <2>4, <2>5, <2>6, <2>7, <2>8 DEF TypeOK
<1>3. Known
  BY DEF Init, Known, CallKnows, Idle, Resting
<1>4. RowsAgreed /\ FilesAgreed /\ RunsApproved
  BY WorkloadsAssumption DEF Init, RowsAgreed, FilesAgreed, RunsApproved
<1> QED
  BY <1>2, <1>3, <1>4 DEF IInv

LEMMA StepKeeps == IInv /\ [Next]_vars => IInv'
<1> SUFFICES ASSUME IInv, [Next]_vars PROVE IInv'
  OBVIOUS
<1>1. ASSUME NEW n \in Names, NEW op \in Asked[n], Begin(op, n) PROVE IInv'
  <2>1. op \in Ops
    BY WorkloadsAssumption
  <2> QED
    BY <1>1, <2>1, BeginKeeps
<1>2. ASSUME NEW c \in Slots,
             \/ Check(c) \/ Weigh(c) \/ Write(c)
             \/ Claim(c) \/ ClaimInsert(c) \/ Refused(c) \/ Mark(c)
             \/ Render(c) \/ Launch(c) \/ Record(c) \/ Halt(c) \/ Erase(c)
      PROVE  IInv'
  BY <1>2, CheckKeeps, WeighKeeps, WriteKeeps, ClaimsKeep, MarkKeeps, RenderKeeps, LaunchKeeps,
     RecordKeeps, HaltKeeps, EraseKeeps
<1>3. CASE SweepNext
  BY <1>3, SweepListKeeps, SweepTakeKeeps, SweepStopKeeps, SweepRecordKeeps DEF SweepNext
<1>4. ASSUME NEW n \in Names, Vanish(n) PROVE IInv'
  BY <1>4, VanishKeeps
<1>5. ASSUME NEW i \in Ids, Expire(i) PROVE IInv'
  BY <1>5, ExpireKeeps
<1>6. CASE Crash
  BY <1>6, CrashKeeps
<1>7. CASE UNCHANGED vars
  <2>1. UNCHANGED <<rows, expired, files, docker, claimed, call, sweep, begun, upsets, agreed, mixed, upsMet>>
    BY <1>7 DEF vars, table, engine, marks
  <2>2. TypeOK'
    BY <2>1 DEF IInv, TypeOK
  <2>3. Known' /\ RowsAgreed' /\ FilesAgreed' /\ RunsApproved'
    BY <2>1 DEF IInv, Known, CallKnows, Compares, RowsAgreed, RowAgreed, FilesAgreed, RunsApproved, Agreed
  <2> QED
    BY <2>2, <2>3 DEF IInv
<1> QED
  BY <1>1, <1>2, <1>3, <1>4, <1>5, <1>6, <1>7 DEF Next, CallNext

LEMMA Invariant == Spec => []IInv
BY InitHolds, StepKeeps, PTL DEF Spec

----------------------------------------------------------------------------
(* A fold over a finite set of rows is a cardinality: set induction without an *)
(* operator parameter, on the least set that would be a counterexample.       *)

\* One pair for each unit that a member of S adds.
Units(f, S) == UNION {{x} \X (1..f[x]) : x \in S}

LEMMA UnitsOfOne ==
  ASSUME NEW x, NEW n \in Nat
  PROVE  /\ IsFiniteSet({x} \X (1..n))
         /\ Cardinality({x} \X (1..n)) = n
<1>1. IsFiniteSet({x}) /\ Cardinality({x}) = 1
  BY FS_Singleton
<1>2. IsFiniteSet(1..n) /\ Cardinality(1..n) = n
  BY FS_Interval
<1>3. IsFiniteSet({x} \X (1..n)) /\ Cardinality({x} \X (1..n)) = 1 * n
  <2> DEFINE one == {x}
             all == 1..n
  <2> HIDE DEF one, all
  <2>1. IsFiniteSet(one) /\ Cardinality(one) = 1 /\ IsFiniteSet(all) /\ Cardinality(all) = n
    BY <1>1, <1>2 DEF one, all
  <2>2. IsFiniteSet(one \X all) /\ Cardinality(one \X all) = Cardinality(one) * Cardinality(all)
    BY <2>1, FS_Product
  <2> QED
    BY <2>1, <2>2 DEF one, all
<1>4. 1 * n = n
  OBVIOUS
<1> QED
  BY <1>3, <1>4

LEMMA UnitsFinite ==
  ASSUME NEW S, IsFiniteSet(S), NEW f \in [S -> Nat]
  PROVE  IsFiniteSet(Units(f, S))
<1> DEFINE Of == [x \in S |-> {x} \X (1..f[x])]
           All == {Of[x] : x \in S}
<1>1. IsFiniteSet(All)
  <2>1. Of \in Surjection(S, All)
    BY DEF Surjection
  <2> HIDE DEF Of, All
  <2> QED
    BY <2>1, FS_Surjection, Zenon
<1>2. ASSUME NEW T \in All PROVE IsFiniteSet(T)
  <2>1. PICK x \in S : T = {x} \X (1..f[x])
    OBVIOUS
  <2>2. f[x] \in Nat
    OBVIOUS
  <2> QED
    BY <2>1, <2>2, UnitsOfOne
<1>3. Units(f, S) = UNION All
  BY DEF Units
<1> HIDE DEF All
<1> QED
  BY <1>1, <1>2, <1>3, FS_UNION

LEMMA UnitsWithout ==
  ASSUME NEW S, IsFiniteSet(S), NEW f \in [S -> Nat], NEW x \in S
  PROVE  /\ Cardinality(Units(f, S \ {x})) \in Nat
         /\ Cardinality(Units(f, S)) = f[x] + Cardinality(Units(f, S \ {x}))
<1> DEFINE R == S \ {x}
           one == {x} \X (1..f[x])
           rest == Units(f, R)
<1>1. Units(f, S) = one \cup rest
  BY DEF Units
<1>2. one \cap rest = {}
  BY DEF Units
<1>3. IsFiniteSet(one) /\ Cardinality(one) = f[x]
  BY UnitsOfOne
<1>4. IsFiniteSet(rest) /\ Cardinality(rest) \in Nat
  <2> DEFINE g == [y \in R |-> f[y]]
  <2>1. IsFiniteSet(R)
    BY FS_RemoveElement
  <2>2. rest = Units(g, R)
    BY DEF Units
  <2>3. g \in [R -> Nat]
    OBVIOUS
  <2> HIDE DEF g, R, rest
  <2>4. IsFiniteSet(rest)
    BY <2>1, <2>2, <2>3, UnitsFinite
  <2> QED
    BY <2>4, FS_CardinalityType
<1> HIDE DEF one, rest, R
<1>5. Cardinality(one \cap rest) = 0
  BY <1>2, FS_EmptySet
<1>6. Cardinality(one \cup rest) = Cardinality(one) + Cardinality(rest) - Cardinality(one \cap rest)
  BY <1>3, <1>4, FS_Union
<1> QED
  BY <1>1, <1>3, <1>4, <1>5, <1>6 DEF rest, R

\* A sum over a finite set counts the units of its members, whatever the order
\* in which the fold takes them.
LEMMA SumIsCount ==
  ASSUME NEW S, IsFiniteSet(S), NEW r, \A x \in S : r[x].approved.size \in Nat
  PROVE  MapThenSumSet(LAMBDA x : r[x].approved.size, S) = Cardinality(Units([x \in S |-> r[x].approved.size], S))
<1> DEFINE f == [x \in S |-> r[x].approved.size]
           Any(s) == CHOOSE x \in s : TRUE
           Body(g) == [s \in SUBSET S |-> IF s = {} THEN 0 ELSE r[Any(s)].approved.size + g[s \ {Any(s)}]]
           iter == CHOOSE g : g = Body(g)
           card == [s \in SUBSET S |-> Cardinality(Units(f, s))]
<1>1. MapThenSumSet(LAMBDA x : r[x].approved.size, S) = iter[S]
  BY DEF MapThenSumSet, MapThenFoldSet
<1>2. ASSUME NEW s \in SUBSET S, NEW x \in s
      PROVE  Cardinality(Units(f, s)) = f[x] + Cardinality(Units(f, s \ {x}))
  <2> DEFINE h == [y \in s |-> f[y]]
  <2>1. IsFiniteSet(s) /\ h \in [s -> Nat]
    BY FS_Subset
  <2>2. Units(h, s) = Units(f, s) /\ Units(h, s \ {x}) = Units(f, s \ {x}) /\ h[x] = f[x]
    BY DEF Units
  <2> HIDE DEF h
  <2> QED
    BY <2>1, <2>2, UnitsWithout
<1>3. Cardinality(Units(f, {})) = 0
  <2>1. Units(f, {}) = {}
    BY DEF Units
  <2> QED
    BY <2>1, FS_EmptySet
<1>4. iter = Body(iter)
  <2>1. ASSUME NEW s \in SUBSET S
        PROVE  card[s] = IF s = {} THEN 0 ELSE f[Any(s)] + card[s \ {Any(s)}]
    <3>1. CASE s = {}
      BY <1>3, <3>1
    <3>2. CASE s # {}
      <4>1. Any(s) \in s
        BY <3>2
      <4> HIDE DEF Any
      <4> QED
        BY <1>2, <3>2, <4>1
    <3> QED
      BY <3>1, <3>2
  <2>2. card = Body(card)
    BY <2>1
  <2> HIDE DEF card, Body
  <2> QED
    BY <2>2
<1> HIDE DEF iter
<1>5. iter[{}] = 0
  <2>1. iter[{}] = Body(iter)[{}]
    BY <1>4
  <2>2. Body(iter)[{}] = 0
    OBVIOUS
  <2> QED
    BY <2>1, <2>2
<1>6. ASSUME NEW s \in SUBSET S, s # {} PROVE \E x \in s : iter[s] = f[x] + iter[s \ {x}]
  <2>1. PICK x \in s : x = Any(s)
    BY <1>6
  <2>2. iter[s] = Body(iter)[s]
    BY <1>4
  <2>3. Body(iter)[s] = f[x] + iter[s \ {x}]
    BY <1>6, <2>1
  <2> QED
    BY <2>2, <2>3
<1>7. ASSUME NEW s \in SUBSET S PROVE iter[s] = Cardinality(Units(f, s))
  <2> DEFINE Bad == {t \in SUBSET S : iter[t] # Cardinality(Units(f, t))}
             Order == StrictSubsetOrdering(S)
  <2>1. ASSUME Bad # {} PROVE FALSE
    <3>1. IsWellFoundedOn(Order, SUBSET S)
      BY FS_StrictSubsetOrderingWellFounded, FS_FiniteSubsetsOfFinite
    <3>2. PICK t \in Bad : \A u \in Bad : <<u, t>> \notin Order
      <4>1. Bad \subseteq SUBSET S
        OBVIOUS
      <4> HIDE DEF Bad, Order
      <4> QED
        BY <2>1, <3>1, <4>1, WFMin
    <3>3. t # {}
      <4>1. iter[t] # Cardinality(Units(f, t))
        BY <3>2
      <4> QED
        BY <1>3, <1>5, <4>1
    <3>4. PICK x \in t : iter[t] = f[x] + iter[t \ {x}]
      BY <1>6, <3>3
    <3>5. t \ {x} \notin Bad
      <4>1. t \in SUBSET S /\ t \ {x} \in SUBSET S /\ t \ {x} # t
        OBVIOUS
      <4>2. <<t \ {x}, t>> \in Order
        BY <4>1 DEF StrictSubsetOrdering
      <4> HIDE DEF Bad, Order
      <4> QED
        BY <3>2, <4>2
    <3> QED
      BY <1>2, <3>4, <3>5
  <2> QED
    BY <2>1
<1> QED
  BY <1>1, <1>7
----------------------------------------------------------------------------
(* Names on which nothing overlapped: what docker has and what the row says. *)

Down(n) == docker[n] = None \/ ~docker[n].up
At0(n) == {i \in Live : rows[i].name = n}
\* The rows the sweep is on.
Handled == (sweep.todo \cup {sweep.at}) \ {None}

\* What a call, alone on its name, may count on.
CallTrue(n, k) ==
  /\ k.id # None => k.id \in Live
  /\ k.pc \in {"rendering", "launching"} => rows[k.id].state # "stopped"
  /\ k.pc = "recording" /\ k.outcome = "stopped" => Down(n)
  /\ k.pc = "erasing" => docker[n] = None
\* A row says stopped only of containers that are down; containers have a live
\* row with a file.
RowsTrue(n) ==
  /\ \A i \in At0(n) : /\ rows[i].state = "stopped" => Down(n)
                       /\ docker[n] # None => files[i] # None
  /\ docker[n] # None => At0(n) # {}
SweepTrue(n) ==
  /\ \A i \in Handled : rows[i].name = n => i \in Live
  /\ sweep.pc = "recording" /\ sweep.outcome = "stopped" /\ rows[sweep.at].name = n => Down(n)
Order(n) ==
  /\ \A c, d \in Slots : call[c].name = n /\ call[d].name = n => c = d
  /\ \A c \in Slots : call[c].name = n => /\ CallTrue(n, call[c])
                                          /\ \A i \in Handled : rows[i].name # n
  /\ SweepTrue(n)
  /\ RowsTrue(n)

OneLive == \A i, j \in Live : rows[i].name = rows[j].name => i = j
Placed ==
  /\ \A c \in Slots : /\ call[c].pc = "idle" => call[c] = Idle
                      /\ call[c].pc = "recording" => call[c].outcome # "deleted"
                      /\ call[c].id # None => rows[call[c].id].name = call[c].name
  /\ sweep.pc \in {"idle", "next"} => sweep.at = None
  /\ sweep.pc \in {"stopping", "recording"} => sweep.outcome # "deleted"
Orderly == OneLive /\ Placed /\ \A n \in Names \ mixed : Order(n)

\* findWorkload finds a live row of the name, if there is one.
LEMMA FoundLive ==
  ASSUME NEW n
  PROVE  /\ Found(n) # None => Found(n) \in At0(n)
         /\ Found(n) = None => At0(n) = {}
<1> DEFINE S == {i \in Live : rows[i].name = n}
<1>1. S = At0(n) /\ None \notin S
  BY WorkloadsAssumption DEF At0, Live
<1>2. CASE S = {}
  BY <1>1, <1>2 DEF Found
<1>3. CASE S # {}
  <2>1. (CHOOSE i \in S : TRUE) \in S
    BY <1>3
  <2>2. Found(n) = CHOOSE i \in S : TRUE
    BY <1>3 DEF Found
  <2> HIDE DEF S
  <2> QED
    BY <1>1, <2>1, <2>2
<1> QED
  BY <1>2, <1>3

LEMMA OneRow ==
  ASSUME OneLive, NEW n, NEW i \in Live, rows[i].name = n
  PROVE  At0(n) = {i}
BY DEF OneLive, At0

LEMMA HandledRows ==
  ASSUME IInv, Placed
  PROVE  /\ \A i \in Handled : i \in Ids /\ rows[i] \in Rows
         /\ sweep.todo \subseteq Handled
         /\ sweep.pc \in {"stopping", "recording"} => sweep.at \in Handled
<1>1. sweep.pc \in {"idle", "next", "stopping", "recording"} /\ sweep.at \in Ids \cup {None}
  BY SweepNow DEF Sweeps
<1>2. \A i \in sweep.todo : i \in Ids /\ i # None
  BY SweepNow, WorkloadsAssumption
<1>3. sweep.pc \in {"stopping", "recording"} => sweep.at \in Ids /\ sweep.at # None
  BY SweepNow, WorkloadsAssumption
<1> QED
  BY <1>1, <1>2, <1>3, SweepNow DEF Handled, Placed

\* Rows keep their names, and a step on one name writes only rows of it.
RowsOf(n) ==
  \A i \in Ids : \/ rows'[i] = rows[i]
                 \/ /\ rows'[i] \in Rows /\ rows'[i].name = n
                    /\ rows[i] \in Rows => rows[i].name = n

LEMMA NamesStay ==
  ASSUME NEW n, RowsOf(n), NEW i \in Ids, rows[i] \in Rows
  PROVE  rows'[i] \in Rows /\ rows'[i].name = rows[i].name
BY DEF RowsOf

\* A step on another name leaves this one in order.
LEMMA OthersInOrder ==
  ASSUME IInv, Placed, NEW n, NEW m \in Names, m # n, Order(m), RowsOf(n),
         \A i \in Ids : rows[i] \in Rows /\ rows[i].name = m => files'[i] = files[i],
         docker'[m] = docker[m],
         \A c \in Slots : call'[c].name = m => call'[c] = call[c],
         \A i \in Handled' : i \in Ids /\ (rows'[i].name = m => i \in Handled),
         sweep'.pc = "recording" /\ sweep'.outcome = "stopped" /\ rows'[sweep'.at].name = m =>
           sweep' = sweep
  PROVE  Order(m)'
<1>1. \A i \in Ids : i \in Live' /\ rows'[i].name = m <=> i \in Live /\ rows[i].name = m
  BY WorkloadsAssumption DEF RowsOf, Live, IInv, TypeOK, Rows
<1>2. \A i \in Ids : i \in Live' /\ rows'[i].name = m => rows'[i] = rows[i] /\ files'[i] = files[i]
  BY <1>1 DEF RowsOf, Live, IInv, TypeOK
<1>3. At0(m)' = At0(m)
  BY <1>1 DEF At0, Live
<1>4. RowsTrue(m)'
  BY <1>2, <1>3 DEF Order, RowsTrue, Down, At0, Live
<1>5. \A i \in Handled : i \in Ids /\ rows[i] \in Rows
  BY HandledRows
<1>6. \A i \in Handled' : rows'[i].name = m => i \in Handled /\ rows[i].name = m
  BY <1>5, NamesStay
<1>7. SweepTrue(m)'
  <2>1. \A i \in Handled' : rows'[i].name = m => i \in Live'
    BY <1>1, <1>5, <1>6 DEF Order, SweepTrue
  <2>2. ASSUME sweep'.pc = "recording", sweep'.outcome = "stopped", rows'[sweep'.at].name = m
        PROVE  Down(m)'
    <3>1. sweep' = sweep
      BY <2>2
    <3>2. sweep.at \in Ids /\ rows[sweep.at] \in Rows
      BY <2>2, <3>1, SweepNow
    <3>3. rows[sweep.at].name = m
      BY <2>2, <3>1, <3>2, NamesStay
    <3> QED
      BY <2>2, <3>1, <3>3 DEF Order, SweepTrue, Down
  <2> QED
    BY <2>1, <2>2 DEF SweepTrue
<1>8. ASSUME NEW c \in Slots, call'[c].name = m
      PROVE  CallTrue(m, call[c])' /\ \A i \in Handled' : rows'[i].name # m
  <2>1. call'[c] = call[c] /\ CallTrue(m, call[c]) /\ \A i \in Handled : rows[i].name # m
    BY <1>8 DEF Order
  <2>2. call[c].id # None => rows[call[c].id].name = m /\ call[c].id \in Ids
    BY <1>8, <2>1 DEF Placed, IInv, TypeOK, Calls
  <2>3. call[c].id # None => call[c].id \in Live' /\ rows'[call[c].id] = rows[call[c].id]
    BY <1>1, <1>2, <2>1, <2>2 DEF CallTrue
  <2>4. call[c].pc \in {"rendering", "launching"} => call[c].id # None
    BY WorkloadsAssumption DEF IInv, TypeOK
  <2>5. CallTrue(m, call[c])'
    BY <2>1, <2>3, <2>4 DEF CallTrue, Down
  <2> QED
    BY <1>6, <2>1, <2>5
<1> QED
  BY <1>4, <1>7, <1>8 DEF Order

\* A step of a call alone on its name keeps every name in order.
LEMMA CallInOrder ==
  ASSUME IInv, Orderly, NEW c \in Slots, call[c].pc # "idle", NEW n, n = call[c].name, NEW k \in Calls,
         call' = [call EXCEPT ![c] = k],
         k.pc = "recording" => k.outcome # "deleted",
         k = Idle \/ (k.pc # "idle" /\ k.name = n
                      /\ (k.id # None => rows'[k.id].name = k.name)),
         UNCHANGED <<sweep, mixed>>,
         RowsOf(n),
         \A i \in Ids : files'[i] = files[i] \/ i = call[c].id,
         \A m \in Names \ {n} : docker'[m] = docker[m],
         OneLive',
         n \notin mixed => /\ RowsTrue(n)'
                           /\ k # Idle => CallTrue(n, k)'
  PROVE  Orderly'
<1>1. n \in Names /\ call[c] \in Calls
  BY DEF IInv, TypeOK, Known, CallKnows
<1>2. call'[c] = k /\ \A d \in Slots \ {c} : call'[d] = call[d]
  BY CallSet DEF IInv
<1>3. Idle.name = None /\ Idle.id = None /\ None \notin Names
  BY WorkloadsAssumption DEF Idle
<1>4. Handled' = Handled /\ \A i \in Handled : i \in Ids /\ rows[i] \in Rows
  BY HandledRows DEF Handled, Orderly
<1>5. Placed'
  <2>1. ASSUME NEW d \in Slots
        PROVE  /\ call'[d].pc = "idle" => call'[d] = Idle
               /\ call'[d].pc = "recording" => call'[d].outcome # "deleted"
               /\ call'[d].id # None => rows'[call'[d].id].name = call'[d].name
    <3>1. CASE d = c
      BY <1>2, <1>3, <3>1
    <3>2. CASE d # c
      <4>1. call[d].id # None => call[d].id \in Ids /\ rows[call[d].id] \in Rows
        BY DEF IInv, TypeOK, Known, CallKnows, Calls
      <4> QED
        BY <1>2, <3>2, <4>1, NamesStay DEF Orderly, Placed
    <3> QED
      BY <3>1, <3>2
  <2> QED
    BY <2>1 DEF Orderly, Placed
<1>6. ASSUME NEW m \in Names \ mixed, m # n
      PROVE  Order(m)'
  <2>1. Order(m) /\ Placed
    BY <1>6 DEF Orderly
  <2>2. \A i \in Ids : rows[i] \in Rows /\ rows[i].name = m => files'[i] = files[i]
    BY <1>1, <1>6, <2>1, WorkloadsAssumption DEF Placed
  <2>3. \A d \in Slots : call'[d].name = m => call'[d] = call[d]
    BY <1>2, <1>3, <1>6
  <2>4. \A i \in Handled' : i \in Ids /\ i \in Handled
    BY <1>4
  <2> QED
    BY <1>6, <2>1, <2>2, <2>3, <2>4, OthersInOrder
<1>7. ASSUME n \notin mixed
      PROVE  Order(n)'
  <2>1. Order(n)
    BY <1>1, <1>7 DEF Orderly
  <2>2. \A d \in Slots : call'[d].name = n => d = c
    BY <1>2, <2>1 DEF Order
  <2>3. \A i \in Handled' : rows'[i].name # n
    BY <1>4, <2>1, NamesStay DEF Order
  <2>4. SweepTrue(n)'
    <3>1. sweep'.pc = "recording" => sweep'.at \in Handled'
      BY <1>4, HandledRows DEF Orderly
    <3> QED
      BY <2>3, <3>1 DEF SweepTrue
  <2>5. \A d \in Slots : call'[d].name = n => CallTrue(n, call[d])' /\ \A i \in Handled' : rows'[i].name # n
    <3>1. call'[c].name = n => CallTrue(n, call[c])'
      <4>1. k.name = n => CallTrue(n, k)'
        BY <1>1, <1>3, <1>7
      <4>2. CallTrue(n, call[c])' <=> CallTrue(n, k)'
        BY <1>2 DEF CallTrue
      <4> QED
        BY <1>2, <4>1, <4>2
    <3> QED
      BY <2>2, <2>3, <3>1
  <2>6. \A d, e \in Slots : call'[d].name = n /\ call'[e].name = n => d = e
    BY <2>2
  <2>7. RowsTrue(n)'
    BY <1>7
  <2> QED
    BY <2>4, <2>5, <2>6, <2>7 DEF Order
<1> QED
  BY <1>5, <1>6, <1>7 DEF Orderly

\* What the steps of a call know when it is alone on its name.
LEMMA CallNow ==
  ASSUME IInv, Orderly, NEW c \in Slots, call[c].pc # "idle", NEW n, n = call[c].name
  PROVE  /\ call[c] \in Calls /\ n \in Names
         /\ call[c].id # None => /\ call[c].id \in Ids /\ rows[call[c].id] \in Rows
                                 /\ rows[call[c].id].name = n
         /\ call[c].pc \notin {"weighing", "writing"} => call[c].id # None
         /\ call[c].pc = "recording" => call[c].outcome # "deleted" /\ call[c].outcome \in States
         /\ n \notin mixed =>
              /\ CallTrue(n, call[c]) /\ RowsTrue(n)
              /\ call[c].id # None => call[c].id \in Live /\ At0(n) = {call[c].id}
<1>1. /\ call[c] \in Calls /\ n \in Names
      /\ call[c].id # None => call[c].id \in Ids /\ rows[call[c].id] \in Rows
  BY DEF IInv, TypeOK, Known, CallKnows, Calls
<1>2. call[c].id # None => rows[call[c].id].name = n
  BY DEF Orderly, Placed
<1>3. call[c].pc \notin {"weighing", "writing"} => call[c].id # None
  BY WorkloadsAssumption DEF IInv, TypeOK
<1>4. ASSUME n \notin mixed
      PROVE  /\ CallTrue(n, call[c]) /\ RowsTrue(n)
             /\ call[c].id # None => call[c].id \in Live /\ At0(n) = {call[c].id}
  <2>1. CallTrue(n, call[c]) /\ RowsTrue(n)
    BY <1>1, <1>4 DEF Orderly, Order
  <2>2. call[c].id # None => call[c].id \in Live
    BY <2>1 DEF CallTrue
  <2> QED
    BY <1>2, <2>1, <2>2, OneRow DEF Orderly
<1>5. call[c].pc = "recording" => call[c].outcome # "deleted" /\ call[c].outcome \in States
  BY DEF Orderly, Placed, IInv, Known, CallKnows
<1> QED
  BY <1>1, <1>2, <1>3, <1>4, <1>5

\* A call at its next place, and a call with the state it will record.
LEMMA MovesTo ==
  ASSUME IInv, NEW c \in Slots, NEW place \in Places, At(c, place)
  PROVE  \E k \in Calls : /\ call' = [call EXCEPT ![c] = k] /\ k.pc = place
                          /\ k.op = call[c].op /\ k.name = call[c].name /\ k.id = call[c].id
                          /\ k.beside = call[c].beside /\ k.want = call[c].want
<1> DEFINE k == [call[c] EXCEPT !.pc = place]
<1>1. call[c] \in Calls
  BY DEF IInv, TypeOK
<1>2. k \in Calls
  BY <1>1 DEF Calls
<1>3. /\ k.pc = place /\ k.op = call[c].op /\ k.name = call[c].name /\ k.id = call[c].id
      /\ k.beside = call[c].beside /\ k.want = call[c].want
  BY <1>1 DEF Calls
<1>4. call' = [call EXCEPT ![c] = k]
  BY DEF At
<1> HIDE DEF k
<1> QED
  BY <1>2, <1>3, <1>4

LEMMA ConcludesTo ==
  ASSUME IInv, NEW c \in Slots, NEW s \in States, Concludes(c, s)
  PROVE  \E k \in Calls : /\ call' = [call EXCEPT ![c] = k] /\ k.pc = "recording" /\ k.outcome = s
                          /\ k.name = call[c].name /\ k.id = call[c].id
<1> DEFINE k == [call[c] EXCEPT !.pc = "recording", !.outcome = s]
<1>1. call[c] \in Calls /\ "recording" \in Places
  BY DEF IInv, TypeOK, Places
<1>2. k \in Calls
  BY <1>1 DEF Calls
<1>3. k.pc = "recording" /\ k.outcome = s /\ k.name = call[c].name /\ k.id = call[c].id
  BY <1>1 DEF Calls
<1>4. call' = [call EXCEPT ![c] = k]
  BY DEF Concludes, IInv, TypeOK
<1> HIDE DEF k
<1> QED
  BY <1>2, <1>3, <1>4

\* A step of a call that touches neither rows, files nor docker.
LEMMA MoveInOrder ==
  ASSUME IInv, Orderly, NEW c \in Slots, call[c].pc # "idle", NEW k \in Calls,
         call' = [call EXCEPT ![c] = k],
         \/ k = Idle
         \/ /\ k.pc \notin {"idle", "rendering", "launching", "recording", "erasing"}
            /\ k.name = call[c].name /\ k.id = call[c].id,
         UNCHANGED <<rows, files, docker, sweep, mixed>>
  PROVE  Orderly'
<1>n. PICK n : n = call[c].name
  OBVIOUS
<1>1. Live' = Live /\ \A m : At0(m)' = At0(m)
  BY DEF Live, At0
<1>2. RowsOf(n) /\ OneLive'
  BY <1>1 DEF RowsOf, Orderly, OneLive
<1>3. k = Idle \/ (k.pc # "idle" /\ k.name = n /\ (k.id # None => rows'[k.id].name = k.name))
  BY <1>n, CallNow
<1>4. n \notin mixed => RowsTrue(n)' /\ (k # Idle => CallTrue(n, k)')
  <2>1. n \notin mixed => RowsTrue(n) /\ CallTrue(n, call[c])
    BY <1>n, CallNow
  <2> QED
    BY <1>1, <2>1 DEF RowsTrue, CallTrue, Down
<1>5. k.pc # "recording"
  BY DEF Idle
<1> QED
  BY <1>n, <1>2, <1>3, <1>4, <1>5, CallInOrder

\* A write of one state.
LEMMA SetOne ==
  ASSUME IInv, OneLive, NEW i \in Ids, rows[i] \in Rows, NEW n, n = rows[i].name,
         NEW s \in States, s = "deleted" \/ ~Clash(i), Sets(i, s)
  PROVE  /\ rows'[i] \in Rows /\ rows'[i].state = s /\ rows'[i].name = n
         /\ rows'[i].approved = rows[i].approved
         /\ \A j \in Ids \ {i} : rows'[j] = rows[j]
         /\ Live' = IF s = "deleted" THEN Live \ {i} ELSE Live \cup {i}
         /\ RowsOf(n)
         /\ OneLive'
<1>1. /\ rows'[i] \in Rows /\ rows'[i].state = s /\ rows'[i].name = n
      /\ rows'[i].approved = rows[i].approved
      /\ \A j \in Ids \ {i} : rows'[j] = rows[j]
  BY DEF Sets, IInv, TypeOK, Rows
<1>2. Live' = IF s = "deleted" THEN Live \ {i} ELSE Live \cup {i}
  BY <1>1, WorkloadsAssumption DEF Live
<1>3. RowsOf(n)
  BY <1>1 DEF RowsOf
<1>4. ASSUME NEW j \in Live', NEW k \in Live', rows'[j].name = rows'[k].name PROVE j = k
  <2>1. CASE i \in Live \/ s = "deleted"
    <3>1. j \in Live /\ k \in Live
      BY <1>2, <2>1
    <3>2. rows'[j].name = rows[j].name /\ rows'[k].name = rows[k].name
      BY <1>1, <3>1 DEF Live
    <3> QED
      BY <1>4, <3>1, <3>2 DEF OneLive
  <2>2. CASE i \notin Live /\ s # "deleted"
    <3>1. rows[i].state = "deleted"
      BY <2>2, WorkloadsAssumption DEF Live
    <3>2. At0(n) = {}
      BY <2>2, <3>1, FoundLive DEF Clash
    <3>3. \A l \in Live' : l \in Ids /\ (l # i => l \in Live /\ rows'[l] = rows[l] /\ rows'[l].name # n)
      BY <1>1, <1>2, <2>2, <3>2 DEF Live, At0
    <3>4. j # i => j \in Live /\ rows[j].name = rows'[j].name /\ rows'[j].name # n
      BY <3>3
    <3>5. k # i => k \in Live /\ rows[k].name = rows'[k].name /\ rows'[k].name # n
      BY <3>3
    <3> QED
      BY <1>1, <1>4, <3>4, <3>5 DEF OneLive
  <2> QED
    BY <2>1, <2>2
<1> QED
  BY <1>1, <1>2, <1>3, <1>4 DEF OneLive

LEMMA IdleCall == Idle.pc = "idle" /\ Idle.name = None /\ Idle.id = None
BY DEF Idle

LEMMA MovesInOrder ==
  ASSUME IInv, Orderly, NEW c \in Slots,
         Check(c) \/ Weigh(c) \/ Claim(c) \/ ClaimInsert(c) \/ Refused(c)
  PROVE  Orderly'
<1>1. /\ UNCHANGED <<rows, files, docker, sweep, mixed>>
      /\ call[c].pc \in {"checking", "weighing", "claiming", "inserting", "marking"}
  BY DEF Check, Weigh, Claim, ClaimInsert, Refused, table, engine, marks
<1>2. call[c] \in Calls
  BY DEF IInv, TypeOK
<1>3. CASE Ends(c)
  BY <1>1, <1>3, IdleKnows, MoveInOrder DEF Ends
<1>4. ASSUME NEW place \in {"writing", "marking", "inserting"}, At(c, place)
      PROVE  Orderly'
  <2>1. place \in Places
    BY DEF Places
  <2>2. PICK k \in Calls : /\ call' = [call EXCEPT ![c] = k] /\ k.pc = place
                           /\ k.name = call[c].name /\ k.id = call[c].id
    BY <1>4, <2>1, MovesTo
  <2> QED
    BY <1>1, <2>2, MoveInOrder
<1>5. CASE Check(c)
  <2>1. PICK k \in Calls : k = [call[c] EXCEPT !.pc = "weighing", !.beside = Found(call[c].name)]
    BY <1>2, FoundInIds DEF Calls, Places
  <2>2. k.pc = "weighing" /\ k.name = call[c].name /\ k.id = call[c].id
    BY <1>2, <2>1 DEF Calls
  <2>3. call' = [call EXCEPT ![c] = k]
    BY <1>5, <2>1 DEF Check, IInv, TypeOK
  <2> QED
    BY <1>1, <2>2, <2>3, MoveInOrder
<1> QED
  BY <1>3, <1>4, <1>5 DEF Weigh, Claim, ClaimInsert, Refused

LEMMA IdNow ==
  ASSUME IInv, IInv', NEW c \in Slots, NEW k, call' = [call EXCEPT ![c] = k], k.id \in Ids
  PROVE  rows'[k.id] \in Rows
<1>1. call'[c] = k
  BY DEF IInv, TypeOK
<1>2. CallKnows(call[c])'
  BY DEF IInv, Known
<1> QED
  BY <1>1, <1>2, WorkloadsAssumption DEF CallKnows

\* A row that is brought up again keeps its name and state; a new one has a name
\* nothing lives under.
LEMMA WriteInOrder ==
  ASSUME IInv, IInv', Orderly, NEW c \in Slots, Write(c)
  PROVE  Orderly'
<1>n. PICK n : n = call[c].name
  OBVIOUS
<1>1. call[c].pc = "writing" /\ UNCHANGED <<files, docker, sweep, mixed>>
  BY DEF Write, engine
<1>2. call[c] \in Calls /\ n \in Names
  BY <1>n, <1>1, CallNow
<1>3. CASE call[c].id # None
  <2>1. PICK i \in Ids : i = call[c].id /\ rows[i] \in Rows /\ rows[i].name = n
    BY <1>n, <1>1, <1>3, CallNow
  <2>2. /\ \A j \in Ids \ {i} : rows'[j] = rows[j]
        /\ rows'[i].name = n /\ rows'[i].state = rows[i].state
    BY <1>3, <2>1 DEF Write, IInv, TypeOK, Rows
  <2>3. At(c, "claiming") /\ "claiming" \in Places
    BY <1>3 DEF Write, Places
  <2>4. PICK k \in Calls : call' = [call EXCEPT ![c] = k] /\ k.pc = "claiming" /\ k.name = n /\ k.id = i
    BY <1>n, <2>1, <2>3, MovesTo
  <2>5. \A j \in Ids : rows[j] \in Rows <=> rows'[j] \in Rows
    <3>1. rows'[i] \in Rows
      BY <1>1, <2>1, <2>4, IdNow
    <3> QED
      BY <2>1, <2>2, <3>1
  <2>6. /\ RowsOf(n)
        /\ Live' = Live
        /\ \A j \in Ids : rows[j] \in Rows => rows'[j].name = rows[j].name /\ rows'[j].state = rows[j].state
    BY <2>1, <2>2, <2>5, WorkloadsAssumption DEF RowsOf, Live, IInv, TypeOK
  <2>7. \A j \in Live : rows[j] \in Rows
    BY DEF Live, IInv, TypeOK
  <2>8. OneLive' /\ At0(n)' = At0(n)
    BY <2>6, <2>7 DEF Orderly, OneLive, At0, Live
  <2>9. n \notin mixed => RowsTrue(n)' /\ CallTrue(n, k)'
    <3>1. n \notin mixed => RowsTrue(n) /\ CallTrue(n, call[c])
      BY <1>n, <1>1, CallNow
    <3>2. \A j \in At0(n) : rows'[j].state = rows[j].state
      BY <2>6, <2>7 DEF At0, Live
    <3>3. n \notin mixed => RowsTrue(n)'
      BY <1>1, <2>8, <3>1, <3>2 DEF RowsTrue, Down
    <3> QED
      BY <2>1, <2>4, <2>6, <3>1, <3>3 DEF CallTrue
  <2> QED
    BY <1>n, <1>1, <2>2, <2>4, <2>6, <2>8, <2>9, CallInOrder
<1>4. CASE call[c].id = None /\ Found(n) # None
  <2>1. Ends(c) /\ UNCHANGED rows
    BY <1>n, <1>4 DEF Write
  <2> QED
    BY <1>1, <2>1, IdleKnows, MoveInOrder DEF Ends
<1>5. CASE call[c].id = None /\ Found(n) = None
  <2>1. PICK i \in Ids :
          /\ rows[i] = None
          /\ rows' = [rows EXCEPT ![i] = [name |-> n, state |-> "deploying", ref |-> call[c].want.ref,
                                          size |-> call[c].want.size, approved |-> call[c].want]]
          /\ call' = [call EXCEPT ![c].pc = "claiming", ![c].id = i]
    BY <1>n, <1>5 DEF Write
  <2>2. PICK k \in Calls : k = [call[c] EXCEPT !.pc = "claiming", !.id = i]
    BY <1>2 DEF Calls, Places
  <2>3. call' = [call EXCEPT ![c] = k] /\ k.pc = "claiming" /\ k.name = n /\ k.id = i
    BY <1>n, <1>2, <2>1, <2>2 DEF Calls, IInv, TypeOK
  <2>4. /\ \A j \in Ids \ {i} : rows'[j] = rows[j]
        /\ rows'[i].name = n /\ rows'[i].state = "deploying" /\ rows'[i] # None /\ rows'[i] \in Rows
    <3>1. /\ \A j \in Ids \ {i} : rows'[j] = rows[j]
          /\ rows'[i].name = n /\ rows'[i].state = "deploying"
      BY <2>1 DEF IInv, TypeOK
    <3>2. rows'[i] \in Rows
      BY <1>1, <2>3, IdNow
    <3> QED
      BY <3>1, <3>2, WorkloadsAssumption
  <2>5. Live' = Live \cup {i} /\ RowsOf(n)
    BY <2>1, <2>4, WorkloadsAssumption DEF Live, RowsOf
  <2>6. At0(n) = {}
    BY <1>5, FoundLive
  <2>7. At0(n)' = {i} /\ \A j \in Live : rows'[j] = rows[j] /\ rows[j].name # n
    BY <2>1, <2>4, <2>5, <2>6 DEF At0, Live
  <2>8. OneLive'
    BY <2>4, <2>5, <2>7 DEF Orderly, OneLive
  <2>9. n \notin mixed => RowsTrue(n)' /\ CallTrue(n, k)'
    <3>1. n \notin mixed => docker[n] = None
      BY <1>n, <1>1, <2>6, CallNow DEF RowsTrue
    <3> QED
      BY <1>1, <2>3, <2>4, <2>5, <2>7, <3>1 DEF RowsTrue, CallTrue
  <2> QED
    BY <1>n, <1>1, <2>3, <2>4, <2>5, <2>8, <2>9, CallInOrder
<1> QED
  BY <1>3, <1>4, <1>5

\* A call writes a live state, and goes on to k.
LEMMA StateInOrder ==
  ASSUME IInv, Orderly, NEW c \in Slots, call[c].pc \notin {"idle", "weighing", "writing"},
         NEW n, n = call[c].name, NEW i, i = call[c].id,
         NEW s \in States, s # "deleted", ~Clash(i), Sets(i, s),
         NEW k \in Calls, call' = [call EXCEPT ![c] = k],
         k = Idle \/ (k.pc \notin {"idle", "recording", "erasing"} /\ k.name = n /\ k.id = i),
         UNCHANGED <<files, docker, sweep, mixed>>,
         s = "stopped" => k = Idle /\ (n \notin mixed => Down(n))
  PROVE  Orderly'
<1>1. i \in Ids /\ rows[i] \in Rows /\ rows[i].name = n
  BY CallNow
<1>2. /\ rows'[i].state = s /\ rows'[i].name = n
      /\ Live' = Live \cup {i}
      /\ \A j \in Ids \ {i} : rows'[j] = rows[j]
      /\ RowsOf(n) /\ OneLive'
  BY <1>1, SetOne DEF Orderly
<1>3. ASSUME n \notin mixed
      PROVE  RowsTrue(n)' /\ (k # Idle => CallTrue(n, k)')
  <2>1. RowsTrue(n) /\ At0(n) = {i} /\ i \in Live
    BY <1>1, <1>3, CallNow, WorkloadsAssumption
  <2>2. At0(n)' = {i}
    BY <1>2, <2>1 DEF At0, Live
  <2>3. RowsTrue(n)'
    BY <1>2, <1>3, <2>1, <2>2 DEF RowsTrue, Down
  <2>4. k # Idle => CallTrue(n, k)'
    BY <1>2 DEF CallTrue
  <2> QED
    BY <2>3, <2>4
<1>4. k = Idle \/ (k.pc # "idle" /\ k.name = n /\ (k.id # None => rows'[k.id].name = k.name))
  BY <1>2
<1>p. k.pc # "recording"
  BY DEF Idle
<1>5. \A j \in Ids : files'[j] = files[j] \/ j = call[c].id
  OBVIOUS
<1> QED
  BY <1>p, <1>2, <1>3, <1>4, <1>5, CallInOrder

\* A step that writes no stack.yml but row i's, and no project's containers but n's.
OnlyOf(n, i) ==
  /\ \A j \in Ids \ {i} : files'[j] = files[j]
  /\ \A m \in Names \ {n} : docker'[m] = docker[m]
\* What it leaves of docker fits the row, and what the call will do next.
Fits(n, i, k) ==
  /\ rows[i].state = "stopped" => Down(n)' /\ k.pc \notin {"rendering", "launching"}
  /\ docker'[n] # None => files'[i] # None
  /\ k.pc = "recording" /\ k.outcome = "stopped" => Down(n)'
  /\ k.pc = "erasing" => docker'[n] = None

\* A call's docker command, or its write of stack.yml.
LEMMA EngineInOrder ==
  ASSUME IInv, Orderly, NEW c \in Slots, call[c].pc \notin {"idle", "weighing", "writing"},
         NEW n, n = call[c].name, NEW i, i = call[c].id,
         NEW k \in Calls, call' = [call EXCEPT ![c] = k],
         k = Idle \/ (k.pc # "idle" /\ k.name = n /\ k.id = i),
         k.pc = "recording" => k.outcome # "deleted",
         UNCHANGED <<rows, sweep, mixed>>,
         OnlyOf(n, i),
         n \notin mixed => Fits(n, i, k)
  PROVE  Orderly'
<1>1. i \in Ids /\ rows[i] \in Rows /\ rows[i].name = n
  BY CallNow
<1>2. Live' = Live /\ At0(n)' = At0(n)
  BY DEF Live, At0
<1>3. RowsOf(n) /\ OneLive'
  BY <1>2 DEF RowsOf, OneLive, Orderly
<1>4. ASSUME n \notin mixed
      PROVE  RowsTrue(n)' /\ (k # Idle => CallTrue(n, k)')
  <2>1. RowsTrue(n) /\ At0(n) = {i} /\ i \in Live
    BY <1>1, <1>4, CallNow, WorkloadsAssumption
  <2>2. RowsTrue(n)'
    BY <1>2, <1>4, <2>1 DEF RowsTrue, Fits
  <2>3. k # Idle => CallTrue(n, k)'
    BY <1>2, <1>4, <2>1 DEF CallTrue, Fits
  <2> QED
    BY <2>2, <2>3
<1>5. k = Idle \/ (k.pc # "idle" /\ k.name = n /\ (k.id # None => rows'[k.id].name = k.name))
  BY <1>1
<1>6. /\ \A j \in Ids : files'[j] = files[j] \/ j = call[c].id
      /\ \A m \in Names \ {n} : docker'[m] = docker[m]
  BY DEF OnlyOf
<1> QED
  BY <1>3, <1>4, <1>5, <1>6, CallInOrder

LEMMA MarkInOrder ==
  ASSUME IInv, Orderly, NEW c \in Slots, Mark(c)
  PROVE  Orderly'
<1>n. PICK n, i : n = call[c].name /\ i = call[c].id
  OBVIOUS
<1>1. call[c].pc = "marking" /\ UNCHANGED <<files, docker, sweep, mixed>>
  BY DEF Mark, engine, marks
<1>2. CASE Clash(i)
  <2>1. Ends(c) /\ UNCHANGED rows
    BY <1>n, <1>2 DEF Mark
  <2> QED
    BY <1>1, <2>1, IdleKnows, MoveInOrder DEF Ends
<1>3. CASE ~Clash(i)
  <2>1. At(c, "rendering") /\ Sets(i, "deploying") /\ "rendering" \in Places /\ "deploying" \in States
    BY <1>n, <1>3 DEF Mark, Places, States
  <2>2. PICK k \in Calls : call' = [call EXCEPT ![c] = k] /\ k.pc = "rendering" /\ k.name = n /\ k.id = i
    BY <1>n, <2>1, MovesTo
  <2> QED
    BY <1>n, <1>1, <1>3, <2>1, <2>2, StateInOrder
<1> QED
  BY <1>2, <1>3

LEMMA RecordInOrder ==
  ASSUME IInv, Orderly, NEW c \in Slots, Record(c)
  PROVE  Orderly'
<1>n. PICK n, i, s : n = call[c].name /\ i = call[c].id /\ s = call[c].outcome
  OBVIOUS
<1>1. call[c].pc = "recording" /\ Ends(c) /\ UNCHANGED <<files, docker, sweep, mixed>>
  BY DEF Record, engine, marks
<1>2. CASE Clash(i)
  <2>1. UNCHANGED rows
    BY <1>n, <1>2 DEF Record
  <2> QED
    BY <1>1, <2>1, IdleKnows, MoveInOrder DEF Ends
<1>3. CASE ~Clash(i)
  <2>1. Sets(i, s)
    BY <1>n, <1>3 DEF Record
  <2>2. s \in States /\ s # "deleted"
    BY <1>n, <1>1, CallNow
  <2>3. s = "stopped" => (n \notin mixed => Down(n))
    BY <1>n, <1>1, CallNow DEF CallTrue
  <2> QED
    BY <1>n, <1>1, <1>3, <2>1, <2>2, <2>3, IdleKnows, StateInOrder DEF Ends
<1> QED
  BY <1>2, <1>3

LEMMA RenderInOrder ==
  ASSUME IInv, Orderly, NEW c \in Slots, Render(c)
  PROVE  Orderly'
<1>n. PICK n, i : n = call[c].name /\ i = call[c].id
  OBVIOUS
<1>1. call[c].pc = "rendering" /\ UNCHANGED <<rows, docker, sweep, mixed>>
  BY DEF Render, table, marks
<1>2. call[c] \in Calls /\ i # None /\ i \in Ids
  BY <1>n, <1>1, CallNow
<1>3. n \notin mixed => RowsTrue(n) /\ At0(n) = {i} /\ rows[i].state # "stopped"
  BY <1>n, <1>1, CallNow DEF CallTrue
<1>4. CASE Image(rows[i]) # None /\ files' = [files EXCEPT ![i] = Image(rows[i])] /\ At(c, "launching")
  <2>1. "launching" \in Places
    BY DEF Places
  <2>2. PICK k \in Calls : call' = [call EXCEPT ![c] = k] /\ k.pc = "launching" /\ k.name = n /\ k.id = i
    BY <1>n, <1>4, <2>1, MovesTo
  <2>3. files'[i] # None /\ \A j \in Ids \ {i} : files'[j] = files[j]
    BY <1>2, <1>4 DEF IInv, TypeOK
  <2>4. OnlyOf(n, i) /\ (n \notin mixed => Fits(n, i, k))
    BY <1>1, <1>3, <2>2, <2>3 DEF OnlyOf, Fits
  <2> QED
    BY <1>n, <1>1, <2>2, <2>4, EngineInOrder
<1>5. CASE Concludes(c, "failed") /\ UNCHANGED files
  <2>1. "failed" \in States
    BY DEF States
  <2>2. PICK k \in Calls : /\ call' = [call EXCEPT ![c] = k] /\ k.name = n /\ k.id = i
                           /\ k.pc = "recording" /\ k.outcome = "failed"
    BY <1>n, <1>5, <2>1, ConcludesTo
  <2>3. n \notin mixed => (docker'[n] # None => files'[i] # None)
    BY <1>1, <1>3, <1>5 DEF RowsTrue
  <2>4. OnlyOf(n, i) /\ (n \notin mixed => Fits(n, i, k))
    BY <1>1, <1>3, <1>5, <2>2, <2>3 DEF OnlyOf, Fits
  <2> QED
    BY <1>n, <1>1, <2>2, <2>4, EngineInOrder
<1> QED
  BY <1>n, <1>4, <1>5 DEF Render

LEMMA LaunchInOrder ==
  ASSUME IInv, Orderly, NEW c \in Slots, Launch(c)
  PROVE  Orderly'
<1>n. PICK n, i : n = call[c].name /\ i = call[c].id
  OBVIOUS
<1>1. call[c].pc = "launching" /\ UNCHANGED <<rows, files, sweep, mixed>>
  BY DEF Launch, table, marks
<1>2. call[c] \in Calls /\ i # None /\ i \in Ids /\ n \in Names
  BY <1>n, <1>1, CallNow
<1>3. n \notin mixed => RowsTrue(n) /\ At0(n) = {i} /\ rows[i].state # "stopped"
  BY <1>n, <1>1, CallNow DEF CallTrue
<1>4. PICK s \in {"running", "failed"} : Concludes(c, s)
  BY <1>n DEF Launch
<1>s. s \in States /\ s \notin {"deleted", "stopped"}
  BY DEF States
<1>6. PICK k \in Calls : /\ call' = [call EXCEPT ![c] = k] /\ k.name = n /\ k.id = i
                         /\ k.pc = "recording" /\ k.outcome = s
  BY <1>n, <1>4, <1>s, ConcludesTo
<1>7. CASE files[i] # None /\ docker' = [docker EXCEPT ![n] =
             [up |-> TRUE, id |-> i, ref |-> files[i].ref, digest |-> files[i].digest, size |-> files[i].size]]
  <2>1. \A m \in Names \ {n} : docker'[m] = docker[m]
    BY <1>7 DEF IInv, TypeOK
  <2>2. k.pc = "recording" /\ k.outcome \notin {"deleted", "stopped"} /\ files'[i] # None
    BY <1>1, <1>s, <1>6, <1>7
  <2>3. OnlyOf(n, i) /\ (n \notin mixed => Fits(n, i, k))
    BY <1>1, <1>3, <2>1, <2>2 DEF OnlyOf, Fits
  <2> QED
    BY <1>n, <1>1, <1>6, <2>2, <2>3, EngineInOrder
<1>8. CASE UNCHANGED docker
  <2>1. n \notin mixed => (docker'[n] # None => files'[i] # None)
    BY <1>1, <1>3, <1>8 DEF RowsTrue
  <2>2. OnlyOf(n, i) /\ (n \notin mixed => Fits(n, i, k))
    BY <1>1, <1>3, <1>s, <1>6, <1>8, <2>1 DEF OnlyOf, Fits
  <2> QED
    BY <1>n, <1>1, <1>s, <1>6, <2>2, EngineInOrder
<1> QED
  BY <1>n, <1>7, <1>8 DEF Launch

\* What a command that stops or removes leaves.
LEMMA HaltedDown ==
  ASSUME IInv, NEW n \in Names, NEW op, docker' = Halted(n, op)
  PROVE  /\ Down(n)'
         /\ op # "stop" => docker'[n] = None
         /\ docker[n] = None => docker'[n] = None
         /\ \A m \in Names \ {n} : docker'[m] = docker[m]
<1>1. CASE op = "stop" /\ docker[n] # None
  <2>1. docker' = [docker EXCEPT ![n].up = FALSE]
    BY <1>1 DEF Halted
  <2>2. ~docker'[n].up /\ \A m \in Names \ {n} : docker'[m] = docker[m]
    BY <1>1, <2>1 DEF IInv, TypeOK
  <2> QED
    BY <1>1, <2>2 DEF Down
<1>2. CASE ~(op = "stop" /\ docker[n] # None)
  <2>1. docker' = [docker EXCEPT ![n] = None]
    BY <1>2 DEF Halted
  <2>2. docker'[n] = None /\ \A m \in Names \ {n} : docker'[m] = docker[m]
    BY <2>1 DEF IInv, TypeOK
  <2> QED
    BY <2>2 DEF Down
<1> QED
  BY <1>1, <1>2

LEMMA HaltInOrder ==
  ASSUME IInv, Orderly, NEW c \in Slots, Halt(c)
  PROVE  Orderly'
<1>n. PICK n, i, op : n = call[c].name /\ i = call[c].id /\ op = call[c].op
  OBVIOUS
<1>1. call[c].pc = "halting" /\ UNCHANGED <<rows, files, sweep, mixed>>
  BY DEF Halt, table, marks
<1>2. call[c] \in Calls /\ i # None /\ i \in Ids /\ n \in Names
  BY <1>n, <1>1, CallNow
<1>3. n \notin mixed => RowsTrue(n) /\ At0(n) = {i}
  BY <1>n, <1>1, CallNow
<1>4. docker' \in {docker, Halted(n, op)}
  BY <1>n DEF Halt
<1>5. /\ \A m \in Names \ {n} : docker'[m] = docker[m]
      /\ docker[n] = None => docker'[n] = None
      /\ docker' # docker => Down(n)'
  BY <1>2, <1>4, HaltedDown
<1>6. n \notin mixed => /\ rows[i].state = "stopped" => Down(n)'
                        /\ docker'[n] # None => files'[i] # None
                        /\ docker[n] # None => files[i] # None
  <2>1. ASSUME n \notin mixed, rows[i].state = "stopped" PROVE Down(n)'
    BY <1>3, <1>5, <2>1 DEF RowsTrue, Down
  <2> QED
    BY <1>1, <1>3, <1>5, <2>1 DEF RowsTrue
<1>o. OnlyOf(n, i)
  BY <1>1, <1>5 DEF OnlyOf
<1>7. CASE Ends(c)
  <2>1. call' = [call EXCEPT ![c] = Idle] /\ Idle \in Calls /\ Idle.pc = "idle"
    BY <1>7, IdleKnows DEF Ends
  <2>2. n \notin mixed => Fits(n, i, Idle)
    BY <1>6, <2>1 DEF Fits
  <2> QED
    BY <1>n, <1>1, <1>o, <2>1, <2>2, EngineInOrder
<1>8. CASE op = "delete" /\ At(c, "erasing") /\ (docker' = Halted(n, op) \/ (files[i] = None /\ UNCHANGED docker))
  <2>1. "erasing" \in Places
    BY DEF Places
  <2>2. PICK k \in Calls : call' = [call EXCEPT ![c] = k] /\ k.pc = "erasing" /\ k.name = n /\ k.id = i
    BY <1>n, <1>8, <2>1, MovesTo
  <2>3. n \notin mixed => docker'[n] = None
    BY <1>2, <1>6, <1>8, HaltedDown
  <2>4. n \notin mixed => Fits(n, i, k)
    BY <1>6, <2>2, <2>3 DEF Fits
  <2> QED
    BY <1>n, <1>1, <1>o, <2>2, <2>4, EngineInOrder
<1>9. CASE Concludes(c, "stopped") /\ docker' = Halted(n, op)
  <2>1. "stopped" \in States
    BY DEF States
  <2>2. PICK k \in Calls : /\ call' = [call EXCEPT ![c] = k] /\ k.name = n /\ k.id = i
                           /\ k.pc = "recording" /\ k.outcome = "stopped"
    BY <1>n, <1>9, <2>1, ConcludesTo
  <2>3. Down(n)'
    BY <1>2, <1>9, HaltedDown
  <2>4. n \notin mixed => Fits(n, i, k)
    BY <1>6, <2>2, <2>3 DEF Fits
  <2> QED
    BY <1>n, <1>1, <1>o, <2>2, <2>4, EngineInOrder
<1>10. \/ Ends(c)
       \/ op = "delete" /\ At(c, "erasing") /\ (docker' = Halted(n, op) \/ (files[i] = None /\ UNCHANGED docker))
       \/ Concludes(c, "stopped") /\ docker' = Halted(n, op)
  BY <1>n DEF Halt
<1> QED
  BY <1>7, <1>8, <1>9, <1>10

\* A delete has asked docker first, so a deleted row leaves no containers.
LEMMA EraseInOrder ==
  ASSUME IInv, Orderly, NEW c \in Slots, Erase(c)
  PROVE  Orderly'
<1>n. PICK n, i : n = call[c].name /\ i = call[c].id
  OBVIOUS
<1>1. /\ call[c].pc = "erasing" /\ UNCHANGED <<docker, sweep, mixed>>
      /\ call' = [call EXCEPT ![c] = Idle]
  BY DEF Erase, Ends, marks
<1>2. call[c] \in Calls /\ i # None /\ i \in Ids /\ n \in Names /\ rows[i] \in Rows /\ rows[i].name = n
  BY <1>n, <1>1, CallNow
<1>3. n \notin mixed => RowsTrue(n) /\ At0(n) = {i} /\ docker[n] = None
  BY <1>n, <1>1, CallNow DEF CallTrue
<1>4. \A j \in Ids \ {i} : files'[j] = files[j]
  BY <1>n DEF Erase, IInv, TypeOK
<1>5. Idle \in Calls /\ Idle.pc = "idle"
  BY IdleKnows
<1>6. CASE UNCHANGED rows
  <2>1. n \notin mixed => (rows[i].state = "stopped" => Down(n)') /\ docker'[n] = None
    BY <1>1, <1>3 DEF Down
  <2>2. OnlyOf(n, i) /\ (n \notin mixed => Fits(n, i, Idle))
    BY <1>1, <1>4, <1>5, <2>1 DEF OnlyOf, Fits
  <2> QED
    BY <1>n, <1>1, <1>5, <1>6, <2>2, EngineInOrder
<1>7. CASE Sets(i, "deleted")
  <2>1. /\ Live' = Live \ {i} /\ RowsOf(n) /\ OneLive'
        /\ \A j \in Ids \ {i} : rows'[j] = rows[j]
    BY <1>2, <1>7, SetOne DEF Orderly, States
  <2>2. ASSUME n \notin mixed PROVE RowsTrue(n)'
    <3>1. At0(n)' = {}
      BY <1>3, <2>1, <2>2 DEF At0, Live
    <3> QED
      BY <1>1, <1>3, <2>2, <3>1 DEF RowsTrue
  <2>3. \A j \in Ids : files'[j] = files[j] \/ j = call[c].id
    BY <1>n, <1>4
  <2> QED
    BY <1>n, <1>1, <1>5, <2>1, <2>2, <2>3, CallInOrder
<1> QED
  BY <1>n, <1>6, <1>7 DEF Erase

\* Where a call is after its first query.
LEMMA OpeningPlaces ==
  ASSUME IInv, NEW n, NEW op \in Ops, NEW k \in Opening(op, n, Found(n))
  PROVE  \/ k = Idle
         \/ /\ k.name = n /\ k.id = Found(n) /\ k.op = op
            /\ k.pc \in {"weighing", "checking", "claiming", "halting"}
            /\ op = "up" => k.beside = k.id
            /\ k.pc = "weighing" => op = "up"
<1> DEFINE i == Found(n)
           o == [Idle EXCEPT !.op = op, !.name = n, !.id = i]
<1> HIDE DEF i
<1>1. CASE op = "up"
  <2>1. PICK s \in Shapes : k = [o EXCEPT !.pc = "weighing", !.beside = i, !.want = s]
    BY <1>1 DEF Opening, i
  <2> QED
    BY <1>1, <2>1 DEF Idle, i
<1>2. CASE op # "up" /\ i = None
  BY <1>2 DEF Opening, i
<1>3. CASE op = "redeploy" /\ i # None
  <2>1. PICK s \in Stacks : k = [o EXCEPT !.pc = "checking", !.want = s, !.limit = rows[i].approved]
    BY <1>3 DEF Opening, i
  <2> QED
    BY <1>3, <2>1 DEF Idle, i
<1>4. CASE op = "start" /\ i # None
  <2>1. k = Idle \/ k = [o EXCEPT !.pc = "claiming"]
    BY <1>4 DEF Opening, i
  <2> QED
    BY <1>4, <2>1 DEF Idle, i
<1>5. CASE op \in {"stop", "down", "delete"} /\ i # None
  <2>1. k = [o EXCEPT !.pc = "halting"]
    BY <1>5 DEF Opening, i
  <2> QED
    BY <1>5, <2>1 DEF Idle, i
<1> QED
  BY <1>1, <1>2, <1>3, <1>4, <1>5 DEF Ops

\* A new call is alone on its name, or the name is mixed from now on.
LEMMA BeginInOrder ==
  ASSUME IInv, Orderly, NEW n \in Names, NEW op \in Ops, Begin(op, n)
  PROVE  Orderly'
<1>1. PICK c \in Slots : c = CHOOSE d \in Free : TRUE
  BY DEF Begin, Free
<1>2. PICK k \in Opening(op, n, Found(n)) : call' = [call EXCEPT ![c] = k]
  BY <1>1 DEF Begin
<1>3. /\ k \in Calls /\ call' \in [Slots -> Calls]
      /\ call'[c] = k /\ \A d \in Slots \ {c} : call'[d] = call[d]
  BY <1>2, OpeningKnows, CallSet DEF IInv
<1>4. \/ k = Idle
      \/ k.name = n /\ k.id = Found(n) /\ k.pc \in {"weighing", "checking", "claiming", "halting"}
  BY OpeningPlaces
<1>5. UNCHANGED <<rows, files, docker, sweep>> /\ mixed' = IF InHand(n) THEN mixed \cup {n} ELSE mixed
  BY DEF Begin, table, engine
<1>6. /\ Live' = Live /\ Handled' = Handled /\ RowsOf(n)
      /\ \A m : At0(m)' = At0(m)
  BY <1>5 DEF Live, Handled, RowsOf, At0
<1>7. OneLive /\ Placed /\ OneLive'
  BY <1>5, <1>6 DEF Orderly, OneLive
<1>8. k.id # None => k.id \in Live /\ rows[k.id].name = k.name
  BY <1>4, FoundLive, IdleCall DEF At0
<1>9. Placed'
  <2>1. ASSUME NEW d \in Slots
        PROVE  /\ call'[d].pc = "idle" => call'[d] = Idle
               /\ call'[d].pc = "recording" => call'[d].outcome # "deleted"
               /\ call'[d].id # None => rows'[call'[d].id].name = call'[d].name
    BY <1>3, <1>4, <1>5, <1>7, <1>8, IdleCall DEF Placed
  <2> QED
    BY <1>5, <1>7, <2>1 DEF Placed
<1>10. None \notin Names /\ mixed \subseteq mixed'
  BY <1>5, WorkloadsAssumption
<1>11. \A i \in Handled : i \in Ids /\ rows[i] \in Rows
  BY <1>7, HandledRows
<1>12. ASSUME NEW m \in Names \ mixed', m # n
       PROVE  Order(m)'
  <2>1. Order(m)
    BY <1>10, <1>12 DEF Orderly
  <2>2. \A d \in Slots : call'[d].name = m => call'[d] = call[d]
    BY <1>3, <1>4, <1>10, <1>12, IdleCall
  <2> QED
    BY <1>5, <1>6, <1>7, <1>11, <1>12, <2>1, <2>2, OthersInOrder
<1>13. ASSUME n \notin mixed'
       PROVE  Order(n)'
  <2>1. Order(n) /\ ~InHand(n)
    BY <1>5, <1>10, <1>13 DEF Orderly
  <2>2. \A d \in Slots : call'[d].name = n => d = c
    BY <1>3, <2>1 DEF InHand
  <2>3. \A i \in Handled' : rows'[i].name # n
    BY <1>5, <1>6, <2>1 DEF InHand, Handled
  <2>4. RowsTrue(n)' /\ SweepTrue(n)'
    BY <1>5, <1>6, <2>1 DEF Order, RowsTrue, SweepTrue, Down
  <2>5. call'[c].name = n => CallTrue(n, call[c])'
    BY <1>3, <1>4, <1>6, <1>8, IdleCall DEF CallTrue
  <2> QED
    BY <2>2, <2>3, <2>4, <2>5 DEF Order
<1> QED
  BY <1>7, <1>9, <1>12, <1>13 DEF Orderly

----------------------------------------------------------------------------
(* The sweep's steps, and the rest. *)

LEMMA SweepListInOrder ==
  ASSUME IInv, Orderly, SweepList
  PROVE  Orderly'
<1>1. /\ UNCHANGED <<rows, files, docker, call>>
      /\ sweep'.pc = "next" /\ sweep'.todo = Running /\ sweep'.at = None
      /\ mixed' = mixed \cup {rows[i].name : i \in {j \in Running : InHand(rows[j].name)}}
  BY DEF SweepList, table, engine, Resting
<1>2. Handled' = Running /\ Running \subseteq Live /\ Live' = Live
  BY <1>1, WorkloadsAssumption DEF Handled, Running, Live
<1>3. OneLive' /\ Placed' /\ \A m : At0(m)' = At0(m)
  BY <1>1, <1>2 DEF Orderly, OneLive, Placed, At0, Live
<1>4. ASSUME NEW m \in Names \ mixed'
      PROVE  Order(m)'
  <2>1. Order(m)
    BY <1>1, <1>4 DEF Orderly
  <2>2. \A i \in Running : rows[i].name = m => ~InHand(m)
    BY <1>1, <1>4
  <2>3. \A c \in Slots : call'[c].name = m => \A i \in Handled' : rows'[i].name # m
    BY <1>1, <1>2, <2>2 DEF InHand
  <2>4. SweepTrue(m)'
    BY <1>1, <1>2 DEF SweepTrue
  <2>5. RowsTrue(m)' /\ \A c \in Slots : call'[c].name = m => CallTrue(m, call[c])'
    BY <1>1, <1>2, <1>3, <2>1 DEF Order, RowsTrue, CallTrue, Down
  <2> QED
    BY <1>1, <2>1, <2>3, <2>4, <2>5 DEF Order
<1> QED
  BY <1>3, <1>4 DEF Orderly

\* A step of the sweep on the name of a row it is on.
LEMMA SweepInOrder ==
  ASSUME IInv, Orderly, NEW i \in Handled, NEW n, n = rows[i].name,
         UNCHANGED <<call, files, mixed>>,
         RowsOf(n), OneLive',
         \A m \in Names \ {n} : docker'[m] = docker[m],
         \A j \in Handled' : j \in Handled \/ (j \in Live /\ rows[j].name = n),
         sweep'.pc \in {"idle", "next"} => sweep'.at = None,
         sweep'.pc \in {"stopping", "recording"} => sweep'.outcome # "deleted",
         sweep'.pc = "recording" /\ sweep'.outcome = "stopped" => sweep'.at = i,
         n \notin mixed => RowsTrue(n)' /\ SweepTrue(n)'
  PROVE  Orderly'
<1>1. OneLive /\ Placed
  BY DEF Orderly
<1>2. /\ \A j \in Handled : j \in Ids /\ rows[j] \in Rows
      /\ n \in Names
  BY <1>1, HandledRows DEF Rows
<1>3. \A j \in Handled' : j \in Ids /\ rows[j] \in Rows /\ (j \notin Handled => rows[j].name = n)
  BY <1>2 DEF Live, IInv, TypeOK
<1>4. Placed'
  <2>1. ASSUME NEW d \in Slots, call[d].id # None
        PROVE  rows'[call[d].id].name = call[d].name
    <3>1. call[d].id \in Ids /\ rows[call[d].id] \in Rows
      BY <2>1 DEF IInv, TypeOK, Known, CallKnows, Calls
    <3> QED
      BY <1>1, <2>1, <3>1, NamesStay DEF Placed
  <2> QED
    BY <1>1, <2>1 DEF Placed
<1>5. ASSUME NEW m \in Names \ mixed, m # n
      PROVE  Order(m)'
  <2>1. Order(m)
    BY <1>5 DEF Orderly
  <2>2. \A j \in Handled' : j \in Ids /\ (rows'[j].name = m => j \in Handled)
    BY <1>3, <1>5, NamesStay
  <2>3. rows'[i].name = n
    BY <1>2, NamesStay
  <2>4. ~(sweep'.pc = "recording" /\ sweep'.outcome = "stopped" /\ rows'[sweep'.at].name = m)
    BY <1>5, <2>3
  <2> QED
    BY <1>1, <1>5, <2>1, <2>2, <2>4, OthersInOrder
<1>6. ASSUME n \notin mixed
      PROVE  Order(n)'
  <2>1. Order(n)
    BY <1>2, <1>6 DEF Orderly
  <2>2. \A c \in Slots : call'[c].name # n
    BY <2>1 DEF Order
  <2> QED
    BY <1>6, <2>2 DEF Order
<1> QED
  BY <1>4, <1>5, <1>6 DEF Orderly

LEMMA WithoutPlaces ==
  ASSUME IInv, Placed, NEW i, sweep' = Without(i)
  PROVE  /\ sweep'.pc \in {"idle", "next"} /\ sweep'.at = None
         /\ Handled' \subseteq Handled
<1>1. CASE sweep.todo \subseteq {i}
  BY <1>1 DEF Without, Resting, Handled
<1>2. CASE ~(sweep.todo \subseteq {i})
  BY <1>2 DEF Without, Resting, Handled
<1> QED
  BY <1>1, <1>2

LEMMA SweepTakeInOrder ==
  ASSUME IInv, Orderly, NEW i \in Ids, SweepTake(i) \/ SweepSkips(i)
  PROVE  Orderly'
<1>1. /\ UNCHANGED <<rows, files, docker, call, mixed>>
      /\ sweep.pc = "next" /\ i \in sweep.todo
  BY DEF SweepTake, SweepSkips, table, engine, marks
<1>n. PICK n : n = rows[i].name
  OBVIOUS
<1>2. OneLive /\ Placed /\ i \in Handled /\ rows[i] \in Rows /\ i # None
  BY <1>1, HandledRows, SweepNow, WorkloadsAssumption DEF Orderly
<1>3. Live' = Live /\ RowsOf(n) /\ At0(n)' = At0(n)
  BY <1>1 DEF Live, RowsOf, At0
<1>4. OneLive' /\ n \in Names /\ (n \notin mixed => RowsTrue(n)')
  BY <1>n, <1>1, <1>2, <1>3 DEF OneLive, RowsTrue, Orderly, Order, Down, Rows
<1>5. n \notin mixed => \A j \in Handled : rows[j].name = n => j \in Live
  BY <1>4 DEF Orderly, Order, SweepTrue
<1>6. CASE sweep' = Without(i)
  <2>1. sweep'.pc \in {"idle", "next"} /\ sweep'.at = None /\ Handled' \subseteq Handled
    BY <1>2, <1>6, WithoutPlaces
  <2>2. n \notin mixed => SweepTrue(n)'
    BY <1>1, <1>3, <1>5, <2>1 DEF SweepTrue
  <2> QED
    BY <1>n, <1>1, <1>2, <1>3, <1>4, <2>1, <2>2, SweepInOrder
<1>7. ASSUME NEW j, NEW place, NEW s, sweep' = Holding(i, j, place, s),
             \/ j \in Live /\ rows[j].name = n /\ place = "stopping" /\ s = "stopped"
             \/ j = i /\ place = "recording" /\ s = "failed"
      PROVE  Orderly'
  <2>1. sweep'.pc = place /\ sweep'.at = j /\ sweep'.outcome = s /\ sweep'.todo \subseteq sweep.todo
    BY <1>7, SweepNow DEF Holding, Sweeps
  <2>2. \A l \in Handled' : l \in Handled \/ (l \in Live /\ rows[l].name = n)
    BY <1>2, <1>7, <2>1 DEF Handled
  <2>3. n \notin mixed => SweepTrue(n)'
    BY <1>1, <1>3, <1>5, <1>7, <2>1, <2>2 DEF SweepTrue
  <2> QED
    BY <1>n, <1>1, <1>2, <1>3, <1>4, <1>7, <2>1, <2>2, <2>3, SweepInOrder
<1>8. LET j == Found(n) IN j # None => j \in Live /\ rows[j].name = n
  BY FoundLive DEF At0
<1> QED
  BY <1>n, <1>6, <1>7, <1>8 DEF SweepTake, SweepSkips

LEMMA SweepStopInOrder ==
  ASSUME IInv, Orderly, SweepStop
  PROVE  Orderly'
<1>n. PICK i, n : i = sweep.at /\ n = rows[i].name
  OBVIOUS
<1>1. /\ sweep.pc = "stopping" /\ UNCHANGED <<rows, files, call, mixed>>
  BY DEF SweepStop, table, marks
<1>2. OneLive /\ Placed /\ i \in Handled /\ i \in Ids /\ rows[i] \in Rows /\ n \in Names
  BY <1>n, <1>1, HandledRows, SweepNow DEF Orderly, Rows
<1>3. Live' = Live /\ RowsOf(n) /\ At0(n)' = At0(n)
  BY <1>1 DEF Live, RowsOf, At0
<1>4. OneLive'
  BY <1>1, <1>2, <1>3 DEF OneLive
<1>5. n \notin mixed => RowsTrue(n) /\ \A j \in Handled : rows[j].name = n => j \in Live
  BY <1>2 DEF Orderly, Order, SweepTrue
<1>6. CASE docker' = Halted(n, "stop") /\ sweep' = [sweep EXCEPT !.pc = "recording"]
  <2>1. /\ sweep'.pc = "recording" /\ sweep'.at = i /\ sweep'.outcome = sweep.outcome
        /\ sweep'.todo = sweep.todo /\ sweep.outcome # "deleted"
    BY <1>n, <1>1, <1>2, <1>6, SweepNow DEF Sweeps, Placed
  <2>2. /\ Down(n)' /\ (docker[n] = None => docker'[n] = None)
        /\ \A m \in Names \ {n} : docker'[m] = docker[m]
    BY <1>2, <1>6, HaltedDown
  <2>3. Handled' = Handled
    BY <1>n, <2>1 DEF Handled
  <2>4. n \notin mixed => RowsTrue(n)' /\ SweepTrue(n)'
    BY <1>1, <1>3, <1>5, <2>2, <2>3 DEF RowsTrue, SweepTrue
  <2> QED
    BY <1>n, <1>1, <1>2, <1>3, <1>4, <2>1, <2>2, <2>3, <2>4, SweepInOrder
<1>7. CASE sweep' = Without(None) /\ UNCHANGED docker
  <2>1. sweep'.pc \in {"idle", "next"} /\ sweep'.at = None /\ Handled' \subseteq Handled
    BY <1>2, <1>7, WithoutPlaces
  <2>2. n \notin mixed => RowsTrue(n)' /\ SweepTrue(n)'
    BY <1>1, <1>3, <1>5, <1>7, <2>1 DEF RowsTrue, SweepTrue, Down
  <2> QED
    BY <1>n, <1>1, <1>2, <1>3, <1>4, <1>7, <2>1, <2>2, SweepInOrder
<1> QED
  BY <1>n, <1>6, <1>7 DEF SweepStop

LEMMA SweepRecordInOrder ==
  ASSUME IInv, Orderly, SweepRecord
  PROVE  Orderly'
<1>n. PICK i, n, s : i = sweep.at /\ n = rows[i].name /\ s = sweep.outcome
  OBVIOUS
<1>1. /\ sweep.pc = "recording" /\ UNCHANGED <<files, docker, call, mixed>>
      /\ sweep' = Without(None)
  BY DEF SweepRecord, engine, marks
<1>2. /\ OneLive /\ Placed /\ i \in Handled /\ i \in Ids /\ rows[i] \in Rows /\ n \in Names
      /\ s \in States /\ s # "deleted"
  BY <1>n, <1>1, HandledRows, SweepNow DEF Orderly, Placed, Rows
<1>3. sweep'.pc \in {"idle", "next"} /\ sweep'.at = None /\ Handled' \subseteq Handled
  BY <1>1, <1>2, WithoutPlaces
<1>4. n \notin mixed => /\ RowsTrue(n) /\ (s = "stopped" => Down(n))
                        /\ \A j \in Handled : rows[j].name = n => j \in Live
  BY <1>n, <1>1, <1>2 DEF Orderly, Order, SweepTrue
<1>5. CASE UNCHANGED rows
  <2>1. Live' = Live /\ RowsOf(n) /\ At0(n)' = At0(n)
    BY <1>5 DEF Live, RowsOf, At0
  <2>2. OneLive'
    BY <1>2, <1>5, <2>1 DEF OneLive
  <2>3. n \notin mixed => RowsTrue(n)' /\ SweepTrue(n)'
    BY <1>1, <1>3, <1>4, <1>5, <2>1 DEF RowsTrue, SweepTrue, Down
  <2> QED
    BY <1>n, <1>1, <1>2, <1>3, <2>1, <2>2, <2>3, SweepInOrder
<1>6. CASE ~Clash(i) /\ Sets(i, s)
  <2>1. /\ rows'[i].state = s /\ rows'[i].name = n
        /\ \A j \in Ids \ {i} : rows'[j] = rows[j]
        /\ Live' = Live \cup {i} /\ RowsOf(n) /\ OneLive'
    BY <1>n, <1>2, <1>6, SetOne
  <2>2. ASSUME n \notin mixed PROVE RowsTrue(n)' /\ SweepTrue(n)'
    <3>1. At0(n) = {i} /\ i \in Live
      BY <1>n, <1>2, <1>4, <2>2, OneRow
    <3>2. At0(n)' = {i}
      BY <2>1, <3>1 DEF At0, Live
    <3>3. RowsTrue(n)'
      BY <1>1, <1>4, <2>1, <2>2, <3>1, <3>2 DEF RowsTrue, Down
    <3>4. \A j \in Handled' : rows'[j].name = n => j \in Live'
      <4>1. \A j \in Handled : j \in Ids
        BY <1>2, HandledRows
      <4> QED
        BY <1>3, <1>4, <2>1, <2>2, <4>1
    <3> QED
      BY <1>3, <3>3, <3>4 DEF SweepTrue
  <2> QED
    BY <1>n, <1>1, <1>2, <1>3, <2>1, <2>2, SweepInOrder
<1> QED
  BY <1>n, <1>5, <1>6 DEF SweepRecord

\* Containers removed by hand.
LEMMA VanishInOrder ==
  ASSUME IInv, Orderly, NEW n \in Names, Vanish(n)
  PROVE  Orderly'
<1>1. UNCHANGED <<rows, files, call, sweep, mixed>> /\ docker' = [docker EXCEPT ![n] = None]
  BY DEF Vanish, table, marks
<1>2. \A m \in Names : docker'[m] = docker[m] \/ docker'[m] = None
  BY <1>1 DEF IInv, TypeOK
<1>3. Live' = Live /\ Handled' = Handled /\ \A m : At0(m)' = At0(m)
  BY <1>1 DEF Live, Handled, At0
<1>4. OneLive' /\ Placed'
  BY <1>1, <1>3 DEF Orderly, OneLive, Placed
<1>5. ASSUME NEW m \in Names \ mixed PROVE Order(m)'
  <2>1. Order(m)
    BY <1>5 DEF Orderly
  <2>2. Down(m) => Down(m)'
    BY <1>2 DEF Down
  <2>3. RowsTrue(m)' /\ SweepTrue(m)'
    BY <1>1, <1>2, <1>3, <2>1, <2>2 DEF Order, RowsTrue, SweepTrue
  <2>4. \A c \in Slots : CallTrue(m, call[c]) => CallTrue(m, call[c])'
    BY <1>1, <1>2, <1>3, <2>2 DEF CallTrue
  <2> QED
    BY <1>1, <1>3, <2>1, <2>3, <2>4 DEF Order
<1> QED
  BY <1>1, <1>4, <1>5 DEF Orderly

LEMMA SameInOrder ==
  ASSUME Orderly, UNCHANGED <<rows, files, docker, call, sweep, mixed>>
  PROVE  Orderly'
<1>1. Live' = Live /\ Handled' = Handled /\ \A m : At0(m)' = At0(m)
  BY DEF Live, Handled, At0
<1>2. OneLive' /\ Placed'
  BY <1>1 DEF Orderly, OneLive, Placed
<1>3. ASSUME NEW m \in Names \ mixed PROVE Order(m)'
  <2>1. Order(m) /\ (Down(m)' <=> Down(m))
    BY <1>3 DEF Orderly, Down
  <2>2. RowsTrue(m)' /\ SweepTrue(m)'
    BY <1>1, <2>1 DEF Order, RowsTrue, SweepTrue
  <2>3. \A c \in Slots : CallTrue(m, call[c]) => CallTrue(m, call[c])'
    BY <1>1, <2>1 DEF CallTrue
  <2> QED
    BY <1>1, <2>1, <2>2, <2>3 DEF Order
<1> QED
  BY <1>2, <1>3 DEF Orderly

\* After a restart nothing is in hand.
LEMMA CrashInOrder ==
  ASSUME IInv, Orderly, Crash
  PROVE  Orderly'
<1>1. /\ UNCHANGED <<rows, files, docker, mixed>>
      /\ \A c \in Slots : call'[c] = Idle
      /\ sweep'.pc = "idle" /\ sweep'.todo = {} /\ sweep'.at = None
  BY DEF Crash, table, engine, marks, Resting
<1>2. Live' = Live /\ Handled' = {} /\ \A m : At0(m)' = At0(m)
  BY <1>1 DEF Live, Handled, At0
<1>3. OneLive' /\ Placed'
  BY <1>1, <1>2, IdleCall DEF Orderly, OneLive, Placed
<1>4. ASSUME NEW m \in Names \ mixed PROVE Order(m)'
  <2>1. Order(m)
    BY <1>4 DEF Orderly
  <2>2. \A c \in Slots : call'[c].name # m
    BY <1>1, IdleCall, WorkloadsAssumption
  <2>3. SweepTrue(m)'
    BY <1>1, <1>2 DEF SweepTrue
  <2>4. RowsTrue(m)'
    BY <1>1, <1>2, <2>1 DEF Order, RowsTrue, Down
  <2> QED
    BY <2>2, <2>3, <2>4 DEF Order
<1> QED
  BY <1>1, <1>3, <1>4 DEF Orderly

LEMMA InitInOrder == Init => Orderly
<1> SUFFICES ASSUME Init PROVE Orderly
  OBVIOUS
<1>1. /\ \A i \in Ids : rows[i] = None
      /\ \A n \in Names : docker[n] = None
      /\ \A c \in Slots : call[c] = Idle
      /\ sweep.pc = "idle" /\ sweep.todo = {} /\ sweep.at = None
  BY DEF Init, Resting
<1>2. Live = {} /\ Handled = {}
  BY <1>1 DEF Live, Handled
<1>3. OneLive /\ Placed
  BY <1>1, <1>2, IdleCall DEF OneLive, Placed
<1>4. ASSUME NEW n \in Names PROVE Order(n)
  <2>1. \A c \in Slots : call[c].name # n
    BY <1>1, IdleCall, WorkloadsAssumption
  <2> QED
    BY <1>1, <1>2, <2>1 DEF Order, SweepTrue, RowsTrue, Down, At0
<1> QED
  BY <1>3, <1>4 DEF Orderly

LEMMA StepInOrder == IInv /\ IInv' /\ Orderly /\ [Next]_vars => Orderly'
<1> SUFFICES ASSUME IInv, IInv', Orderly, [Next]_vars PROVE Orderly'
  OBVIOUS
<1>1. ASSUME NEW n \in Names, NEW op \in Asked[n], Begin(op, n) PROVE Orderly'
  <2>1. op \in Ops
    BY WorkloadsAssumption
  <2> QED
    BY <1>1, <2>1, BeginInOrder
<1>2. ASSUME NEW c \in Slots,
             \/ Check(c) \/ Weigh(c) \/ Write(c)
             \/ Claim(c) \/ ClaimInsert(c) \/ Refused(c) \/ Mark(c)
             \/ Render(c) \/ Launch(c) \/ Record(c) \/ Halt(c) \/ Erase(c)
      PROVE  Orderly'
  BY <1>2, MovesInOrder, WriteInOrder, MarkInOrder, RenderInOrder, LaunchInOrder,
     RecordInOrder, HaltInOrder, EraseInOrder
<1>3. CASE SweepNext
  BY <1>3, SweepListInOrder, SweepTakeInOrder, SweepStopInOrder, SweepRecordInOrder DEF SweepNext
<1>4. ASSUME NEW n \in Names, Vanish(n) PROVE Orderly'
  BY <1>4, VanishInOrder
<1>5. ASSUME NEW i \in Ids, Expire(i) PROVE Orderly'
  BY <1>5, SameInOrder DEF Expire, engine, marks
<1>6. CASE Crash
  BY <1>6, CrashInOrder
<1>7. CASE UNCHANGED vars
  BY <1>7, SameInOrder DEF vars, table, engine, marks
<1> QED
  BY <1>1, <1>2, <1>3, <1>4, <1>5, <1>6, <1>7 DEF Next, CallNext

LEMMA AlwaysInOrder == Spec => []Orderly
BY InitInOrder, StepInOrder, Invariant, PTL DEF Spec

----------------------------------------------------------------------------
(* The quota: what a write adds is what its check left room for.           *)

Weights(S) == [i \in S |-> rows[i].approved.size]
Count(S) == Cardinality(Units(Weights(S), S))

LEMMA UsedNow == IInv => \A but : Used(but) = Count(Live \ {but})
<1> SUFFICES ASSUME IInv, NEW but PROVE Used(but) = Count(Live \ {but})
  OBVIOUS
<1> DEFINE S == Live \ {but}
<1>1. S \subseteq Ids /\ IsFiniteSet(S)
  <2>1. Live \ {but} \subseteq Ids
    BY DEF Live
  <2> QED
    BY <2>1, FS_Subset, WorkloadsAssumption
<1>2. \A i \in S : rows[i].approved.size \in Nat
  BY WorkloadsAssumption DEF Live, IInv, TypeOK, Rows
<1>3. Used(but) = MapThenSumSet(LAMBDA i : rows[i].approved.size, S)
  BY DEF Used
<1> HIDE DEF S
<1>4. MapThenSumSet(LAMBDA i : rows[i].approved.size, S) = Cardinality(Units([i \in S |-> rows[i].approved.size], S))
  BY <1>1, <1>2, SumIsCount
<1>5. Used(but) = Cardinality(Units([i \in S |-> rows[i].approved.size], S))
  BY <1>3, <1>4
<1> QED
  BY <1>5 DEF Count, Weights, S

LEMMA UsedNext == (IInv => \A but : Used(but) = Count(Live \ {but}))'
BY UsedNow, PTL

LEMMA LiveNow == IInv => /\ Live \subseteq Ids /\ IsFiniteSet(Live) /\ None \notin Live
                         /\ \A i \in Live : rows[i] \in Rows /\ rows[i].approved.size \in Nat
<1> SUFFICES ASSUME IInv
             PROVE  /\ Live \subseteq Ids /\ IsFiniteSet(Live) /\ None \notin Live
                    /\ \A i \in Live : rows[i] \in Rows /\ rows[i].approved.size \in Nat
  OBVIOUS
<1>1. Live \subseteq Ids
  BY DEF Live
<1>2. IsFiniteSet(Live)
  BY <1>1, FS_Subset, WorkloadsAssumption
<1>3. \A i \in Live : rows[i] \in Rows /\ rows[i].approved.size \in Nat
  BY WorkloadsAssumption DEF Live, IInv, TypeOK, Rows
<1> QED
  BY <1>1, <1>2, <1>3, WorkloadsAssumption

LEMMA LiveNext == (IInv => /\ Live \subseteq Ids /\ IsFiniteSet(Live) /\ None \notin Live
                           /\ \A i \in Live : rows[i] \in Rows /\ rows[i].approved.size \in Nat)'
BY LiveNow, PTL

LEMMA CountFalls ==
  ASSUME NEW S, IsFiniteSet(S), NEW T, T \subseteq S, NEW f \in [S -> Nat], NEW g,
         \A x \in T : g[x] = f[x]
  PROVE  /\ Cardinality(Units(g, T)) <= Cardinality(Units(f, S))
         /\ Cardinality(Units(g, T)) \in Nat /\ Cardinality(Units(f, S)) \in Nat
<1>1. Units(g, T) \subseteq Units(f, S)
  BY DEF Units
<1>2. IsFiniteSet(Units(f, S))
  BY UnitsFinite
<1>3. IsFiniteSet(Units(g, T)) /\ Cardinality(Units(g, T)) <= Cardinality(Units(f, S))
  BY <1>1, <1>2, FS_Subset
<1> QED
  BY <1>2, <1>3, FS_CardinalityType

LEMMA UsedNat == IInv => \A but : Used(but) \in Nat
<1> SUFFICES ASSUME IInv, NEW but PROVE Used(but) \in Nat
  OBVIOUS
<1> DEFINE S == Live \ {but}
<1>1. IsFiniteSet(S)
  BY LiveNow, FS_RemoveElement
<1>2. Weights(S) \in [S -> Nat]
  BY LiveNow DEF Weights
<1>3. Used(but) = Cardinality(Units(Weights(S), S))
  BY UsedNow DEF Count
<1> HIDE DEF S
<1>4. IsFiniteSet(Units(Weights(S), S))
  BY <1>1, <1>2, UnitsFinite
<1> QED
  BY <1>3, <1>4, FS_CardinalityType

\* With no more live rows, approved for what they were, no more is used.
LEMMA UsedFalls ==
  ASSUME IInv, IInv', Live' \subseteq Live, \A i \in Live' : rows'[i].approved = rows[i].approved,
         NEW but
  PROVE  Used(but)' <= Used(but)
<1> DEFINE S == Live \ {but}
           T == Live' \ {but}
           f == Weights(S)
           g == [i \in T |-> rows'[i].approved.size]
<1>1. IsFiniteSet(S) /\ T \subseteq S
  BY LiveNow, FS_RemoveElement
<1>2. f \in [S -> Nat] /\ \A x \in T : g[x] = f[x]
  BY LiveNow DEF Weights
<1>3. Used(but) = Cardinality(Units(f, S))
  BY UsedNow DEF Count
<1>4. Used(but)' = Cardinality(Units(g, T))
  BY UsedNext DEF Count, Weights
<1> HIDE DEF S, T, f, g
<1> QED
  BY <1>1, <1>2, <1>3, <1>4, CountFalls

\* A row that is approved anew, or new, adds its approval to the others'.
LEMMA UsedGrows ==
  ASSUME IInv, IInv', NEW i \in Ids, Live' = Live \cup {i},
         \A j \in Live \ {i} : rows'[j].approved = rows[j].approved
  PROVE  Used(None)' = rows'[i].approved.size + Used(i)
<1> DEFINE S == Live'
           R == Live \ {i}
           f == [j \in S |-> rows'[j].approved.size]
           g == Weights(R)
<1>1. IsFiniteSet(S) /\ None \notin S /\ i \in S /\ f \in [S -> Nat]
  BY LiveNext
<1>2. S \ {i} = R /\ S \ {None} = S
  BY <1>1
<1>3. Used(i) = Cardinality(Units(g, R))
  BY UsedNow DEF Count
<1>4. Used(None)' = Cardinality(Units(f, S))
  <2>1. Used(None)' = Count(Live \ {None})'
    BY UsedNext
  <2>2. Count(Live \ {None})' = Cardinality(Units([j \in S \ {None} |-> rows'[j].approved.size], S \ {None}))
    BY DEF Count, Weights
  <2> QED
    BY <1>2, <2>1, <2>2
<1>5. Units(f, R) = Units(g, R)
  BY <1>2 DEF Units, Weights
<1>6. f[i] = rows'[i].approved.size
  BY <1>1
<1> HIDE DEF S, R, f, g
<1>7. Cardinality(Units(f, S)) = f[i] + Cardinality(Units(f, S \ {i}))
  BY <1>1, UnitsWithout
<1> QED
  BY <1>2, <1>3, <1>4, <1>5, <1>6, <1>7

----------------------------------------------------------------------------
\* An up that has still to write.
Upping(c) == call[c].op = "up" /\ call[c].pc \in {"weighing", "writing"}
\* An up compares with all rows but its own; alone, it still has its room when
\* it comes to write.
Roomed ==
  /\ \A c \in Slots : Upping(c) => call[c].beside = call[c].id
  /\ ~upsMet => \A c, d \in Slots : Upping(c) /\ Upping(d) => c = d
  /\ ~upsMet /\ mixed = {} =>
       /\ Used(None) <= Quota
       /\ \A c \in Slots : Upping(c) /\ call[c].pc = "writing" =>
            Used(call[c].beside) + call[c].want.size <= Quota

LEMMA UpSize ==
  ASSUME IInv, NEW c \in Slots, Upping(c)
  PROVE  call[c].want \in Shapes /\ call[c].want.size \in Nat
BY WorkloadsAssumption DEF Upping, IInv, Known, CallKnows, Compares

\* Room is not lost while nothing is approved and nothing comes to life.
LEMMA RoomStays ==
  ASSUME IInv, IInv', Roomed, mixed' = {} => mixed = {}, upsMet => upsMet',
         \A c \in Slots : Upping(c)' => Upping(c) /\ call'[c] = call[c],
         mixed' = {} => /\ Live' \subseteq Live
                        /\ \A i \in Live' : rows'[i].approved = rows[i].approved
  PROVE  Roomed'
<1>1. \A c \in Slots : Upping(c)' => call'[c].beside = call'[c].id
  BY DEF Roomed
<1>2. ~upsMet' => \A c, d \in Slots : Upping(c)' /\ Upping(d)' => c = d
  BY DEF Roomed
<1>3. ASSUME ~upsMet', mixed' = {}
      PROVE  /\ Used(None)' <= Quota
             /\ \A c \in Slots : Upping(c)' /\ call'[c].pc = "writing" =>
                  (Used(call[c].beside) + call[c].want.size <= Quota)'
  <2>1. \A but : Used(but)' <= Used(but) /\ Used(but)' \in Nat /\ Used(but) \in Nat
    <3>1. \A but : Used(but)' <= Used(but)
      BY <1>3, UsedFalls
    <3>2. (IInv => \A but : Used(but) \in Nat)'
      BY UsedNat, PTL
    <3> QED
      BY <3>1, <3>2, UsedNat
  <2>2. Quota \in Nat
    BY WorkloadsAssumption
  <2>3. Used(None)' <= Quota
    BY <1>3, <2>1, <2>2 DEF Roomed
  <2>4. ASSUME NEW c \in Slots, Upping(c)', call'[c].pc = "writing"
        PROVE  (Used(call[c].beside) + call[c].want.size <= Quota)'
    <3>1. Upping(c) /\ call'[c] = call[c]
      BY <2>4
    <3>2. PICK b, w : b = call[c].beside /\ w = call[c].want.size
      OBVIOUS
    <3>3. w \in Nat
      BY <3>1, <3>2, UpSize
    <3>4. Used(b) + w <= Quota
      BY <1>3, <2>4, <3>1, <3>2 DEF Roomed
    <3>5. Used(b)' + w <= Quota
      BY <2>1, <2>2, <3>3, <3>4
    <3>6. call'[c].beside = b /\ call'[c].want.size = w
      BY <3>1, <3>2
    <3> QED
      BY <3>5, <3>6
  <2> QED
    BY <2>3, <2>4
<1> QED
  BY <1>1, <1>2, <1>3 DEF Roomed

\* A step of a call that leaves it no up about to write.
LEMMA CallRoom ==
  ASSUME IInv, IInv', Roomed, NEW c \in Slots, NEW k, call' = [call EXCEPT ![c] = k],
         k.op # "up" \/ k.pc \notin {"weighing", "writing"},
         UNCHANGED <<mixed, upsMet>>,
         mixed = {} => /\ Live' \subseteq Live
                       /\ \A i \in Live' : rows'[i].approved = rows[i].approved
  PROVE  Roomed'
<1>1. call'[c] = k /\ \A d \in Slots \ {c} : call'[d] = call[d]
  BY DEF IInv, TypeOK
<1>2. \A d \in Slots : Upping(d)' => Upping(d) /\ call'[d] = call[d]
  BY <1>1 DEF Upping
<1> QED
  BY <1>2, RoomStays

\* A state is written only to a row that lives.
LEMMA StateRoom ==
  ASSUME IInv, Orderly, NEW i \in Ids, rows[i] \in Rows, NEW s \in States,
         s = "deleted" \/ ~Clash(i), Sets(i, s), s = "deleted" \/ i \in Live
  PROVE  Live' \subseteq Live /\ \A j \in Live' : rows'[j].approved = rows[j].approved
<1>1. PICK n : n = rows[i].name
  OBVIOUS
<1>2. /\ rows'[i].approved = rows[i].approved
      /\ \A j \in Ids \ {i} : rows'[j] = rows[j]
      /\ Live' = IF s = "deleted" THEN Live \ {i} ELSE Live \cup {i}
  BY <1>1, SetOne DEF Orderly
<1> QED
  BY <1>2 DEF Live

LEMMA SameRoom ==
  ASSUME UNCHANGED rows
  PROVE  Live' \subseteq Live /\ \A i \in Live' : rows'[i].approved = rows[i].approved
BY DEF Live

\* Every step of a call that weighs or writes no up.
LEMMA QuietRoom ==
  ASSUME IInv, IInv', Orderly, Roomed, NEW c \in Slots,
         \/ Check(c) \/ Claim(c) \/ ClaimInsert(c) \/ Refused(c) \/ Mark(c)
         \/ Render(c) \/ Launch(c) \/ Record(c) \/ Halt(c) \/ Erase(c)
  PROVE  Roomed'
<1>n. PICK i : i = call[c].id
  OBVIOUS
<1>1. UNCHANGED <<mixed, upsMet>>
  BY DEF Check, Claim, ClaimInsert, Refused, Mark, Render, Launch, Record, Halt, Erase, marks
<1>2. /\ call[c].pc \in {"checking", "claiming", "inserting", "marking", "rendering", "launching",
                         "recording", "halting", "erasing"}
      /\ call[c] \in Calls
  BY DEF Check, Claim, ClaimInsert, Refused, Mark, Render, Launch, Record, Halt, Erase, IInv, TypeOK
<1>3. mixed = {} => Live' \subseteq Live /\ \A j \in Live' : rows'[j].approved = rows[j].approved
  <2>1. PICK n : n = call[c].name
    OBVIOUS
  <2>2. i \in Ids /\ rows[i] \in Rows /\ (mixed = {} => i \in Live)
    BY <1>n, <1>2, <2>1, CallNow
  <2>3. ASSUME Record(c)
        PROVE  call[c].outcome # "deleted" /\ call[c].outcome \in States
    BY <2>3, <2>1, CallNow DEF Record
  <2>4. \/ UNCHANGED rows
        \/ \E s \in States : (s = "deleted" \/ ~Clash(i)) /\ Sets(i, s)
    BY <1>n, <2>3 DEF Check, Claim, ClaimInsert, Refused, Mark, Render, Launch, Record, Halt, Erase, table, States
  <2>5. CASE UNCHANGED rows
    BY <2>5, SameRoom
  <2>6. ASSUME NEW s \in States, s = "deleted" \/ ~Clash(i), Sets(i, s), mixed = {}
        PROVE  Live' \subseteq Live /\ \A j \in Live' : rows'[j].approved = rows[j].approved
    BY <2>2, <2>6, StateRoom
  <2> QED
    BY <2>4, <2>5, <2>6
<1>4. \E k \in Calls : /\ call' = [call EXCEPT ![c] = k]
                       /\ k.op # "up" \/ k.pc \notin {"weighing", "writing"}
  <2>1. CASE Ends(c)
    BY <2>1, IdleKnows DEF Ends
  <2>2. ASSUME NEW place \in Places \ {"weighing", "writing"}, At(c, place)
        PROVE  \E k \in Calls : /\ call' = [call EXCEPT ![c] = k]
                                /\ k.op # "up" \/ k.pc \notin {"weighing", "writing"}
    BY <2>2, MovesTo
  <2>3. ASSUME NEW s \in States, Concludes(c, s)
        PROVE  \E k \in Calls : /\ call' = [call EXCEPT ![c] = k]
                                /\ k.op # "up" \/ k.pc \notin {"weighing", "writing"}
    BY <2>3, ConcludesTo
  <2>4. CASE Check(c)
    <3>1. PICK k \in Calls : k = [call[c] EXCEPT !.pc = "weighing", !.beside = Found(call[c].name)]
      BY <1>2, FoundInIds DEF Calls, Places
    <3>2. k.op = "redeploy"
      BY <1>2, <2>4, <3>1 DEF Check, Calls, IInv, Known, CallKnows, Compares
    <3>3. call' = [call EXCEPT ![c] = k]
      BY <2>4, <3>1 DEF Check, IInv, TypeOK
    <3> QED
      BY <3>2, <3>3
  <2>5. \/ Ends(c) \/ Check(c)
        \/ \E place \in Places \ {"weighing", "writing"} : At(c, place)
        \/ \E s \in States : Concludes(c, s)
    <3>1. {"marking", "inserting", "rendering", "launching", "erasing"} \subseteq Places \ {"weighing", "writing"}
      BY DEF Places
    <3>2. {"running", "failed", "stopped"} \subseteq States
      BY DEF States
    <3> QED
      BY <3>1, <3>2 DEF Claim, ClaimInsert, Refused, Mark, Render, Launch, Record, Halt, Erase
  <2> QED
    BY <2>1, <2>2, <2>3, <2>4, <2>5
<1> QED
  BY <1>1, <1>3, <1>4, CallRoom

\* A check lets an up through if the others leave it room.
LEMMA WeighRoom ==
  ASSUME IInv, IInv', Roomed, NEW c \in Slots, Weigh(c)
  PROVE  Roomed'
<1>1. call[c].pc = "weighing" /\ UNCHANGED <<rows, mixed, upsMet>> /\ call[c] \in Calls
  BY DEF Weigh, table, marks, IInv, TypeOK
<1>2. Live' \subseteq Live /\ \A i \in Live' : rows'[i].approved = rows[i].approved
  BY <1>1, SameRoom
<1>3. CASE Ends(c)
  <2>1. call' = [call EXCEPT ![c] = Idle] /\ Idle.pc = "idle"
    BY <1>3, IdleKnows DEF Ends
  <2> QED
    BY <1>1, <1>2, <2>1, CallRoom
<1>4. CASE At(c, "writing") /\ Used(call[c].beside) + call[c].want.size <= Quota
  <2>1. "writing" \in Places
    BY DEF Places
  <2>2. PICK k \in Calls :
          /\ call' = [call EXCEPT ![c] = k] /\ k.pc = "writing" /\ k.op = call[c].op
          /\ k.beside = call[c].beside /\ k.id = call[c].id /\ k.want = call[c].want
    BY <1>4, <2>1, MovesTo
  <2>3. CASE call[c].op # "up"
    BY <1>1, <1>2, <2>2, <2>3, CallRoom
  <2>4. CASE call[c].op = "up"
    <3>1. call'[c] = k /\ \A d \in Slots \ {c} : call'[d] = call[d]
      BY <2>2 DEF IInv, TypeOK
    <3>2. \A d \in Slots : Upping(d)' <=> Upping(d)
      BY <1>1, <2>2, <2>4, <3>1 DEF Upping
    <3>3. \A d \in Slots : /\ call'[d].beside = call[d].beside /\ call'[d].id = call[d].id
                           /\ call'[d].want = call[d].want
      BY <2>2, <3>1
    <3>4. \A but : Used(but)' = Used(but)
      <4>1. Live' = Live
        BY <1>1 DEF Live
      <4>2. \A but : Count(Live \ {but})' = Count(Live \ {but})
        BY <1>1, <4>1 DEF Count, Weights
      <4> QED
        BY <4>2, UsedNow, UsedNext
    <3>5. ASSUME ~upsMet', mixed' = {}, NEW d \in Slots, Upping(d)', call'[d].pc = "writing"
          PROVE  (Used(call[d].beside) + call[d].want.size <= Quota)'
      <4>1. PICK b, w : b = call[d].beside /\ w = call[d].want.size
        OBVIOUS
      <4>2. Used(b) + w <= Quota
        BY <1>1, <1>4, <3>1, <3>2, <3>5, <4>1 DEF Roomed
      <4>3. Used(b)' + w <= Quota
        BY <3>4, <4>2
      <4> QED
        BY <3>3, <4>1, <4>3
    <3>6. (~upsMet /\ mixed = {} => Used(None) <= Quota)'
      BY <1>1, <3>4 DEF Roomed
    <3>7. \A d \in Slots : Upping(d)' => call'[d].beside = call'[d].id
      BY <3>2, <3>3 DEF Roomed
    <3>8. ~upsMet' => \A d, e \in Slots : Upping(d)' /\ Upping(e)' => d = e
      BY <1>1, <3>2 DEF Roomed
    <3> QED
      BY <3>5, <3>6, <3>7, <3>8 DEF Roomed
  <2> QED
    BY <2>3, <2>4
<1> QED
  BY <1>3, <1>4 DEF Weigh

\* The write of an up: of its approval only, which its check had room for.
LEMMA WriteRoom ==
  ASSUME IInv, IInv', Orderly, Roomed, NEW c \in Slots, Write(c)
  PROVE  Roomed'
<1>n. PICK n, w : n = call[c].name /\ w = call[c].want
  OBVIOUS
<1>1. call[c].pc = "writing" /\ UNCHANGED <<mixed, upsMet>> /\ call[c] \in Calls
  BY DEF Write, IInv, TypeOK
<1>2. CASE Ends(c) /\ UNCHANGED rows
  <2>1. call' = [call EXCEPT ![c] = Idle] /\ Idle.pc = "idle"
    BY <1>2, IdleKnows DEF Ends
  <2> QED
    BY <1>1, <1>2, <2>1, SameRoom, CallRoom
\* The write of row i, found before or new.
<1>3. ASSUME NEW k \in Calls, call' = [call EXCEPT ![c] = k], k.pc = "claiming",
             NEW i \in Ids, Upping(c), Live' = Live \cup {i}, rows'[i].approved = w,
             \A j \in Live \ {i} : rows'[j].approved = rows[j].approved,
             mixed = {} => Used(i) = Used(call[c].beside)
      PROVE  Roomed'
  <2>1. call'[c] = k /\ \A d \in Slots \ {c} : call'[d] = call[d]
    BY <1>3 DEF IInv, TypeOK
  <2>2. \A d \in Slots : Upping(d)' => d # c /\ Upping(d) /\ call'[d] = call[d]
    BY <1>3, <2>1 DEF Upping
  <2>3. ~upsMet' => \A d \in Slots : ~Upping(d)'
    BY <1>1, <1>3, <2>2 DEF Roomed
  <2>4. ASSUME ~upsMet', mixed' = {} PROVE Used(None)' <= Quota
    <3>1. Used(None)' = w.size + Used(i)
      BY <1>3, UsedGrows
    <3>2. Used(i) + w.size <= Quota
      BY <1>n, <1>1, <1>3, <2>4 DEF Roomed
    <3>3. w.size \in Nat /\ Used(i) \in Nat /\ Quota \in Nat
      BY <1>n, <1>3, UpSize, UsedNat, WorkloadsAssumption
    <3> QED
      BY <3>1, <3>2, <3>3
  <2>5. \A d \in Slots : Upping(d)' => call'[d].beside = call'[d].id
    BY <2>2 DEF Roomed
  <2>6. ~upsMet' => \A d, e \in Slots : Upping(d)' /\ Upping(e)' => d = e
    BY <2>3
  <2>7. ~upsMet' /\ mixed' = {} =>
          \A d \in Slots : Upping(d)' /\ call'[d].pc = "writing" =>
            (Used(call[d].beside) + call[d].want.size <= Quota)'
    BY <2>3
  <2> QED
    BY <2>4, <2>5, <2>6, <2>7 DEF Roomed
<1>4. CASE call[c].id # None
  <2>1. PICK i \in Ids : i = call[c].id /\ rows[i] \in Rows /\ (mixed = {} => i \in Live)
    BY <1>n, <1>1, <1>4, CallNow
  <2>2. At(c, "claiming") /\ "claiming" \in Places
    BY <1>4 DEF Write, Places
  <2>3. PICK k \in Calls : call' = [call EXCEPT ![c] = k] /\ k.pc = "claiming" /\ k.id = i
    BY <2>1, <2>2, MovesTo
  <2>4. /\ \A j \in Ids \ {i} : rows'[j] = rows[j]
        /\ rows'[i].state = rows[i].state
        /\ rows'[i].approved = IF call[c].op = "up" THEN w ELSE rows[i].approved
    BY <1>n, <1>4, <2>1 DEF Write, IInv, TypeOK, Rows
  <2>5. rows'[i] \in Rows
    BY <2>1, <2>3, IdNow
  <2>6. Live' = Live
    BY <2>1, <2>4, <2>5, WorkloadsAssumption DEF Live
  <2>7. CASE call[c].op = "up" /\ i \in Live
    <3>1. Upping(c) /\ call[c].beside = i
      BY <1>1, <2>1, <2>7 DEF Upping, Roomed
    <3>2. /\ Live' = Live \cup {i} /\ rows'[i].approved = w
          /\ \A j \in Live \ {i} : rows'[j].approved = rows[j].approved
      BY <2>4, <2>6, <2>7 DEF Live
    <3> QED
      BY <1>3, <2>3, <3>1, <3>2
  <2>8. CASE call[c].op # "up" \/ i \notin Live
    <3>1. \A j \in Live' : rows'[j].approved = rows[j].approved
      BY <2>4, <2>6, <2>8 DEF Live
    <3> QED
      BY <1>1, <2>3, <2>6, <3>1, CallRoom
  <2> QED
    BY <2>7, <2>8
<1>5. CASE call[c].id = None /\ Found(n) = None
  <2>1. PICK i \in Ids :
          /\ rows[i] = None
          /\ rows' = [rows EXCEPT ![i] = [name |-> n, state |-> "deploying", ref |-> w.ref,
                                          size |-> w.size, approved |-> w]]
          /\ call' = [call EXCEPT ![c].pc = "claiming", ![c].id = i]
    BY <1>n, <1>5 DEF Write
  <2>2. PICK k \in Calls : k = [call[c] EXCEPT !.pc = "claiming", !.id = i]
    BY <1>1 DEF Calls, Places
  <2>3. call' = [call EXCEPT ![c] = k] /\ k.pc = "claiming" /\ k.id = i
    BY <1>1, <2>1, <2>2 DEF Calls, IInv, TypeOK
  <2>4. /\ \A j \in Ids \ {i} : rows'[j] = rows[j]
        /\ rows'[i].approved = w /\ rows'[i].state = "deploying"
    BY <2>1 DEF IInv, TypeOK
  <2>5. rows'[i] \in Rows
    BY <2>3, IdNow
  <2>6. Live' = Live \cup {i} /\ i \notin Live
    BY <2>1, <2>4, <2>5, WorkloadsAssumption DEF Live
  <2>7. Upping(c) /\ call[c].beside = None
    <3>1. call[c].op = "up"
      BY <1>1, <1>5, WorkloadsAssumption DEF IInv, Known, CallKnows, Compares
    <3> QED
      BY <1>1, <1>5, <3>1 DEF Upping, Roomed
  <2>8. Used(i) = Used(None)
    <3>1. Live \ {i} = Live \ {None}
      BY <2>6, LiveNow
    <3> QED
      BY <3>1, UsedNow
  <2>9. \A j \in Live \ {i} : rows'[j].approved = rows[j].approved
    BY <2>4 DEF Live
  <2> QED
    BY <1>3, <2>3, <2>4, <2>6, <2>7, <2>8, <2>9
<1>6. \/ call[c].id # None
      \/ call[c].id = None /\ Found(n) = None
      \/ Ends(c) /\ UNCHANGED rows
  BY <1>n DEF Write
<1> QED
  BY <1>2, <1>4, <1>5, <1>6

LEMMA BeginRoom ==
  ASSUME IInv, IInv', Roomed, NEW n \in Names, NEW op \in Ops, Begin(op, n)
  PROVE  Roomed'
<1>1. PICK c \in Slots : c = CHOOSE d \in Free : TRUE
  BY DEF Begin, Free
<1>2. PICK k \in Opening(op, n, Found(n)) : call' = [call EXCEPT ![c] = k]
  BY <1>1 DEF Begin
<1>3. k \in Calls /\ call'[c] = k /\ \A d \in Slots \ {c} : call'[d] = call[d]
  BY <1>2, OpeningKnows, CallSet DEF IInv
<1>4. /\ UNCHANGED rows /\ mixed' = IF InHand(n) THEN mixed \cup {n} ELSE mixed
      /\ upsMet' = (upsMet \/ (op = "up" /\ \E d \in Slots : call[d].op = "up"))
  BY DEF Begin, table
<1>5. Live' \subseteq Live /\ \A i \in Live' : rows'[i].approved = rows[i].approved
  BY <1>4, SameRoom
<1>6. \/ k = Idle
      \/ /\ k.op = op
         /\ op = "up" => k.beside = k.id
         /\ k.pc = "weighing" => op = "up"
         /\ k.pc \in {"weighing", "checking", "claiming", "halting"}
  BY OpeningPlaces
<1>7. CASE k.pc # "weighing"
  <2>1. \A d \in Slots : Upping(d)' => Upping(d) /\ call'[d] = call[d]
    BY <1>3, <1>6, <1>7, IdleCall DEF Upping
  <2> QED
    BY <1>4, <1>5, <2>1, RoomStays
<1>8. CASE k.pc = "weighing"
  <2>1. k.op = "up" /\ k.beside = k.id /\ op = "up"
    BY <1>6, <1>8, IdleCall
  <2>2. \A d \in Slots : Upping(d)' => d = c \/ (Upping(d) /\ call'[d] = call[d])
    BY <1>3 DEF Upping
  <2>3. \A d \in Slots : Upping(d)' => call'[d].beside = call'[d].id
    BY <1>3, <2>1, <2>2 DEF Roomed
  <2>4. ASSUME ~upsMet' PROVE \A d \in Slots : Upping(d)' => d = c
    BY <1>4, <2>1, <2>2, <2>4 DEF Upping
  <2>5. ASSUME ~upsMet', mixed' = {} PROVE Used(None)' <= Quota
    <3>1. Used(None) <= Quota
      BY <1>4, <2>5 DEF Roomed
    <3>2. Used(None)' <= Used(None)
      BY <1>5, UsedFalls
    <3>3. (IInv => \A but : Used(but) \in Nat)'
      BY UsedNat, PTL
    <3> QED
      BY <3>1, <3>2, <3>3, UsedNat, WorkloadsAssumption
  <2>6. ~upsMet' => \A d \in Slots : Upping(d)' => call'[d].pc # "writing"
    BY <1>3, <1>8, <2>4
  <2>7. ~upsMet' => \A d, e \in Slots : Upping(d)' /\ Upping(e)' => d = e
    BY <2>4
  <2> QED
    BY <2>3, <2>5, <2>6, <2>7 DEF Roomed
<1> QED
  BY <1>7, <1>8

LEMMA SweepRoom ==
  ASSUME IInv, IInv', Orderly, Roomed, SweepNext
  PROVE  Roomed'
<1>1. UNCHANGED <<call, upsMet>> /\ (mixed' = {} => mixed = {})
  BY DEF SweepNext, SweepList, SweepTake, SweepSkips, SweepStop, SweepRecord, marks
<1>2. mixed = {} => Live' \subseteq Live /\ \A j \in Live' : rows'[j].approved = rows[j].approved
  <2>1. CASE UNCHANGED rows
    BY <2>1, SameRoom
  <2>2. CASE SweepRecord /\ ~Clash(sweep.at) /\ Sets(sweep.at, sweep.outcome)
    <3>1. PICK i, s : i = sweep.at /\ s = sweep.outcome
      OBVIOUS
    <3>2. i \in Handled /\ i \in Ids /\ rows[i] \in Rows /\ s \in States
      BY <2>2, <3>1, HandledRows, SweepNow DEF SweepRecord, Orderly
    <3>3. mixed = {} => i \in Live
      <4>1. rows[i].name \in Names
        BY <3>2 DEF Rows
      <4> QED
        BY <3>2, <4>1 DEF Orderly, Order, SweepTrue
    <3> QED
      BY <2>2, <3>1, <3>2, <3>3, StateRoom
  <2> QED
    BY <2>1, <2>2 DEF SweepNext, SweepList, SweepTake, SweepSkips, SweepStop, SweepRecord, table
<1>3. \A c \in Slots : Upping(c)' => Upping(c) /\ call'[c] = call[c]
  BY <1>1 DEF Upping
<1> QED
  BY <1>1, <1>2, <1>3, RoomStays

LEMMA InitRoom == Init => Roomed
<1> SUFFICES ASSUME Init PROVE Roomed
  OBVIOUS
<1>1. \A c \in Slots : ~Upping(c)
  BY IdleCall DEF Init, Upping
<1>2. Used(None) <= Quota
  <2>1. Live = {}
    BY DEF Init, Live
  <2>2. Used(None) = Cardinality(Units(Weights({}), {}))
    BY <2>1, InitHolds, UsedNow DEF Count
  <2>3. Units(Weights({}), {}) = {}
    BY DEF Units
  <2> QED
    BY <2>2, <2>3, FS_EmptySet, WorkloadsAssumption
<1> QED
  BY <1>1, <1>2 DEF Roomed

LEMMA StepRoom == IInv /\ IInv' /\ Orderly /\ Roomed /\ [Next]_vars => Roomed'
<1> SUFFICES ASSUME IInv, IInv', Orderly, Roomed, [Next]_vars PROVE Roomed'
  OBVIOUS
<1>1. ASSUME NEW n \in Names, NEW op \in Asked[n], Begin(op, n) PROVE Roomed'
  <2>1. op \in Ops
    BY WorkloadsAssumption
  <2> QED
    BY <1>1, <2>1, BeginRoom
<1>2. ASSUME NEW c \in Slots,
             \/ Check(c) \/ Weigh(c) \/ Write(c)
             \/ Claim(c) \/ ClaimInsert(c) \/ Refused(c) \/ Mark(c)
             \/ Render(c) \/ Launch(c) \/ Record(c) \/ Halt(c) \/ Erase(c)
      PROVE  Roomed'
  BY <1>2, QuietRoom, WeighRoom, WriteRoom
<1>3. CASE SweepNext
  BY <1>3, SweepRoom
<1>4. ASSUME UNCHANGED <<rows, mixed, upsMet>>, UNCHANGED call \/ \A c \in Slots : call'[c] = Idle
      PROVE  Roomed'
  <2>1. \A c \in Slots : Upping(c)' => Upping(c) /\ call'[c] = call[c]
    BY <1>4, IdleCall DEF Upping
  <2> QED
    BY <1>4, <2>1, SameRoom, RoomStays
<1>5. CASE (\E n \in Names : Vanish(n)) \/ (\E i \in Ids : Expire(i)) \/ Crash \/ UNCHANGED vars
  BY <1>4, <1>5 DEF Vanish, Expire, Crash, vars, table, marks
<1> QED
  BY <1>1, <1>2, <1>3, <1>5 DEF Next, CallNext

LEMMA AlwaysRoomed == Spec => []Roomed
BY InitRoom, StepRoom, Invariant, AlwaysInOrder, PTL DEF Spec
\* The table, docker, the calls and the sweep stay well typed; a call beyond its
\* first query is at a row (own, findWorkload).
THEOREM WorkloadsTypeCorrect == Spec => []TypeOK
<1>1. IInv => TypeOK
  BY DEF IInv
<1> QED
  BY <1>1, Invariant, PTL

\* Whatever calls, sweeps, failures and restarts overlap, docker runs for a row
\* only an image and digest that one approval of the row named, at a size one
\* allowed (serviceImages, redeployWorkload, writeFiles).
THEOREM OnlyApprovedRuns == Spec => []RunsApproved
<1>1. IInv => RunsApproved
  BY DEF IInv
<1> QED
  BY <1>1, Invariant, PTL

\* A row recorded as stopped has no running containers, whatever calls failed,
\* whatever the sweep or a restart cut short, unless two operations on its name
\* overlapped (stopWorkload, downWorkload, deploy, reconcileWorkloads).
THEOREM StoppedDown == Spec => []StoppedIsDown
<1>1. ASSUME IInv, Orderly PROVE StoppedIsDown
  <2>1. ASSUME NEW i \in Live, rows[i].state = "stopped", rows[i].name \notin mixed
        PROVE  docker[rows[i].name] = None \/ ~docker[rows[i].name].up
    <3>1. PICK n : n = rows[i].name
      OBVIOUS
    <3>2. n \in Names /\ i \in At0(n)
      BY <1>1, <3>1 DEF At0, Live, IInv, TypeOK, Rows
    <3>3. Down(n)
      BY <1>1, <2>1, <3>1, <3>2 DEF Orderly, Order, RowsTrue
    <3> QED
      BY <3>1, <3>3 DEF Down
  <2> QED
    BY <2>1 DEF StoppedIsDown
<1> QED
  BY <1>1, Invariant, AlwaysInOrder, PTL

\* A name without a live row has no containers left, however far a deploy got
\* before it failed, unless two operations on the name overlapped
\* (deleteWorkload).
THEOREM DeletedGone == Spec => []DeletedIsGone
<1>1. ASSUME Orderly PROVE DeletedIsGone
  <2>1. ASSUME NEW n \in Names \ mixed, Found(n) = None PROVE docker[n] = None
    BY <1>1, <2>1, FoundLive DEF Orderly, Order, RowsTrue
  <2> QED
    BY <2>1 DEF DeletedIsGone
<1> QED
  BY <1>1, AlwaysInOrder, PTL

\* All stacks together stay within the quota, whatever is stopped, deleted,
\* redeployed or fails between a check and its write, unless two ups or two
\* operations on one name overlapped (checkWorkload, upWorkload).
THEOREM WithinQuota == Spec => []QuotaKept
<1>1. Roomed => QuotaKept
  BY DEF Roomed, QuotaKept
<1> QED
  BY <1>1, AlwaysRoomed, PTL
============================================================================

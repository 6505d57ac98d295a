-------------------------- MODULE CloudflareProofs --------------------------
(* Proofs about Cloudflare: nothing made there is forgotten, and nothing is  *)
(* routed before its Access application guards it, for any apps, exposures,  *)
(* and upsets.                                                               *)
EXTENDS Cloudflare, TLAPS

Places == {"rest", "drop", "unroute", "ensure", "access", "unlist", "dns", "purge"}
Ops == [pc : Places, r : Routes \cup {None}, held : SUBSET Objs, stale : SUBSET Routes,
        want : SUBSET Routes, del : SUBSET Objs, conn : BOOLEAN]

\* What an operation holds, it holds while it removes, deletes, or makes.
Holds == /\ op.pc \notin {"drop", "unroute"} => op.held = {}
         /\ op.pc # "purge" => op.del = {}
         /\ op.pc \in {"access", "dns", "unlist"} => op.r \in known
         /\ op.pc # "rest" => Running

\* A record holds objects of its own kind and app.
OfApp == \A r \in Routes, k \in Kinds :
    rec[r][k] # None => rec[r][k][1] = k /\ rec[r][k][2] = AppOf[r]

\* An object recorded for an app is not to be deleted, nor another record's,
\* but for apps that took one over.
Spared == \A r \in Routes, k \in Kinds :
    rec[r][k] # None /\ rec[r][k] \in pending \cup op.held \cup op.del => AppOf[r] \in reused
Apart == \A r, q \in Routes, k \in Kinds :
    r # q /\ rec[r][k] # None /\ rec[r][k] = rec[q][k] => AppOf[r] \in reused

\* A recorded Access application is there, but for those apps and the dashboard.
Guarded == \A r \in Routes :
    rec[r]["access"] # None => rec[r]["access"] \in out \/ AppOf[r] \in reused \cup dash

IInv == TypeOK /\ Holds /\ Tracked /\ OfApp /\ Spared /\ Apart /\ Guarded

-----------------------------------------------------------------------------
LEMMA RestingOp ==
    /\ Resting \in Ops /\ Resting.pc = "rest" /\ Resting.held = {} /\ Resting.del = {}
  BY DEF Resting, Ops, Places

\* Route r has object o on record, or none.
Records(r, k, o) == rec' = [rec EXCEPT ![r][k] = o]
LEMMA RecordType ==
    ASSUME TypeOK, NEW r \in Routes, NEW k \in Kinds, NEW o \in Objs \cup {None},
           Records(r, k, o)
    PROVE /\ rec' \in [Routes -> [Kinds -> Objs \cup {None}]] /\ rec'[r][k] = o
          /\ \A q \in Routes, j \in Kinds : q # r \/ j # k => rec'[q][j] = rec[q][j]
  BY DEF TypeOK, Records

LEMMA ReadyType == ASSUME TypeOK PROVE Ready \in SUBSET Entries
<1> SUFFICES ASSUME NEW r \in known, \A k \in Kinds : rec[r][k] # None
             PROVE <<AppOf[r], rec[r]["access"]>> \in Entries
  BY DEF Ready
<1>1. r \in Routes /\ "access" \in Kinds /\ rec[r]["access"] \in Objs \cup {None}
  BY DEF TypeOK, Kinds
<1> QED BY <1>1, AppsOfRoutes DEF Entries

LEMMA IInvInit == Init => IInv
<1> SUFFICES ASSUME Init PROVE IInv
  OBVIOUS
<1> USE AppsOfRoutes, Bounds DEF Init
<1>1. TypeOK
  <2>1. rec \in [Routes -> [Kinds -> Objs \cup {None}]]
    BY DEF NoIds
  <2>2. chain \in Seq(Call) /\ op \in Ops
    BY RestingOp
  <2>3. {on, up, settled, tunnel} \subseteq BOOLEAN
    OBVIOUS
  <2> QED BY <2>1, <2>2, <2>3 DEF TypeOK, Ops, Places
<1>2. Holds
  BY RestingOp DEF Holds
<1>3. Tracked /\ OfApp /\ Spared /\ Apart /\ Guarded
  BY DEF Tracked, OfApp, Spared, Apart, Guarded, NoIds, Kinds
<1> QED BY <1>1, <1>2, <1>3 DEF IInv

-----------------------------------------------------------------------------
(* Type correctness *)

LEMMA DoneType ==
    ASSUME TypeOK, Running, Done PROVE chain' \in Seq(Call) /\ op' \in Ops /\ op' = Resting
  BY RestingOp DEF TypeOK, Running, Done

LEMMA GoType ==
    ASSUME TypeOK, NEW pc \in Places, Go(pc)
    PROVE /\ chain' = chain /\ op' \in Ops /\ op'.pc = pc
          /\ op'.held = op.held /\ op'.del = op.del /\ op'.r = op.r /\ op'.want = op.want
  BY DEF TypeOK, Go, Ops, Places

LEMMA IngressType ==
    ASSUME TypeOK, NEW a \in Answers, ApplyIngress(a)
    PROVE /\ put' \in (SUBSET Entries) \cup {None} /\ ingress' \in SUBSET Entries
          /\ upsets' \in 0..MaxUpsets
          /\ ingress' = ingress \/ ingress' = Ready
  BY ReadyType, Bounds DEF TypeOK, ApplyIngress, Spend, Upset

LEMMA SpendType == ASSUME TypeOK, NEW a, Spend(a) PROVE upsets' \in 0..MaxUpsets
  BY Bounds DEF TypeOK, Spend, Upset

LEMMA OwnersType ==
    ASSUME IInv,
           \/ \E r \in Routes : Expose(r) \/ Unexpose(r)
           \/ Switch \/ Tick \/ \E c \in calls : Enter(c)
    PROVE TypeOK' /\ UNCHANGED <<file, cloud, op, history>> /\ (Running => Running')
<1> USE Bounds
<1>0. TypeOK
  BY DEF IInv
<1>1. ASSUME NEW r \in Routes, Expose(r)
      PROVE TypeOK' /\ UNCHANGED <<file, cloud, op, history, chain>>
  <2>1. r \in 0..MaxExposes
    BY DEF Routes
  <2>2. <<"attach", r>> \in Call
    BY DEF Call
  <2>3. calls' \subseteq Call /\ rows' \subseteq Routes
    BY <1>0, <1>1, <2>2 DEF Expose, TypeOK
  <2> QED BY <1>0, <1>1, <2>1, <2>3 DEF Expose, TypeOK, file, cloud, history, host
<1>2. ASSUME NEW r \in Routes, Unexpose(r)
      PROVE TypeOK' /\ UNCHANGED <<file, cloud, op, history, chain>>
  BY <1>0, <1>2 DEF Unexpose, TypeOK, Call, file, cloud, history, host
<1>3. ASSUME Switch PROVE TypeOK' /\ UNCHANGED <<file, cloud, op, history, chain>>
  <2>1. upsets' \in 0..MaxUpsets
    BY <1>0, <1>3 DEF Switch, Upset, TypeOK
  <2>2. {on', up', settled', tunnel'} \subseteq BOOLEAN
    BY <1>0, <1>3 DEF Switch, TypeOK, file
  <2> QED BY <1>0, <1>3, <2>1, <2>2 DEF Switch, TypeOK, file, cloud, history
<1>4. ASSUME Tick PROVE TypeOK' /\ UNCHANGED <<file, cloud, op, history>> /\ Running'
  <2>1. <<"tick", None>> \in Call /\ <<"off", None>> \in Call
    BY DEF Call
  <2>2. chain \in Seq(Call)
    BY <1>0 DEF TypeOK
  <2>3. chain' \in Seq(Call) /\ chain' # <<>>
    <3>1. PICK c \in Call : chain' = Append(chain, c)
      BY <1>4, <2>1 DEF Tick
    <3> QED BY <2>2, <3>1
  <2>4. {up', settled'} \subseteq BOOLEAN
    BY <1>0, <1>4 DEF Tick, TypeOK
  <2> QED BY <1>0, <1>4, <2>3, <2>4 DEF Tick, TypeOK, file, cloud, history, owners, Running
<1>5. ASSUME NEW c \in calls, Enter(c)
      PROVE TypeOK' /\ UNCHANGED <<file, cloud, op, history>> /\ (Running => Running')
  <2>1. c \in Call /\ chain \in Seq(Call)
    BY <1>0 DEF TypeOK
  <2>2. chain' \in Seq(Call) /\ (Running => Running')
    BY <1>5, <2>1 DEF Enter, Running
  <2> QED BY <1>0, <1>5, <2>2 DEF Enter, TypeOK, file, cloud, history, host
<1> QED BY <1>1, <1>2, <1>3, <1>4, <1>5 DEF Running

-----------------------------------------------------------------------------
(* Steps that leave what is recorded, queued and made as it is *)

Quiet == /\ UNCHANGED <<rec, pending, out, cut, reused, dash>> /\ known \subseteq known'
         /\ op'.held = op.held /\ op'.del \subseteq op.del \cup pending

LEMMA QuietStep ==
    ASSUME IInv, Quiet PROVE Tracked' /\ OfApp' /\ Spared' /\ Apart' /\ Guarded'
<1>1. Tracked'
  BY DEF IInv, Tracked, Quiet
<1>2. OfApp' /\ Apart' /\ Guarded'
  BY DEF IInv, OfApp, Apart, Guarded, Quiet
<1>3. Spared'
  BY DEF IInv, Spared, Quiet
<1> QED BY <1>1, <1>2, <1>3

LEMMA OwnersStep ==
    ASSUME IInv,
           \/ \E r \in Routes : Expose(r) \/ Unexpose(r)
           \/ Switch \/ Tick \/ \E c \in calls : Enter(c)
    PROVE IInv'
<1>1. TypeOK' /\ UNCHANGED <<file, cloud, op, history>> /\ (Running => Running')
  BY OwnersType
<1>2. Quiet
  BY <1>1 DEF Quiet, file, cloud, history
<1>3. Holds'
  BY <1>1 DEF IInv, Holds, file
<1> QED BY <1>1, <1>2, <1>3, QuietStep DEF IInv

\* The head of the chain begins, or fails before it does anything.
LEMMA BeginStep ==
    ASSUME IInv, ListFails \/ Detach \/ \E a \in Answers : List(a) PROVE IInv'
<1> USE Bounds
<1>0. /\ TypeOK /\ Running /\ op.pc = "rest" /\ op.held = {} /\ op.del = {}
      /\ UNCHANGED <<owners, host, file, cloud, history>>
  BY DEF IInv, Holds, ListFails, Detach, List, Begins
<1>1. /\ op' \in Ops /\ op'.held = {} /\ op'.del = {} /\ op'.pc \in {"rest", "drop"}
      /\ chain' \in Seq(Call) /\ upsets' \in 0..MaxUpsets
      /\ op'.pc = "drop" => chain' = chain
  <2>1. CASE ListFails
    BY <1>0, <2>1, DoneType, SpendType, RestingOp DEF ListFails
  <2>2. CASE Detach
    <3> DEFINE mine == {Head(chain)[2]} \cap known
    <3>1. CASE mine = {}
      BY <1>0, <2>2, <3>1, DoneType, RestingOp DEF Detach, TypeOK
    <3>2. CASE mine # {}
      <4>1. chain' = chain /\ op' = [op EXCEPT !.pc = "drop", !.stale = mine] /\ upsets' = upsets
        BY <2>2, <3>2 DEF Detach
      <4>2. mine \subseteq Routes
        BY <1>0 DEF TypeOK
      <4> HIDE DEF mine
      <4> QED BY <1>0, <4>1, <4>2 DEF TypeOK, Ops, Places
    <3> QED BY <3>1, <3>2
  <2>3. ASSUME NEW a \in Answers, List(a)
        PROVE /\ op' \in Ops /\ op'.held = {} /\ op'.del = {} /\ op'.pc = "drop"
              /\ chain' = chain /\ upsets' \in 0..MaxUpsets
    <3> DEFINE conn == Doing = "tick" /\ a = "ok"
               want == IF Doing = "off" THEN {} ELSE rows
    <3>1. conn \in BOOLEAN /\ want \subseteq Routes /\ Stale \subseteq Routes
      BY <1>0 DEF TypeOK, Stale
    <3>2. /\ op' = [op EXCEPT !.pc = "drop", !.stale = Stale, !.conn = conn, !.want = want]
          /\ chain' = chain
      BY <2>3 DEF List
    <3>3. upsets' \in 0..MaxUpsets
      BY <1>0, <2>3, SpendType DEF List
    <3> HIDE DEF conn, want
    <3> QED BY <1>0, <3>1, <3>2, <3>3 DEF TypeOK, Ops, Places
  <2>4. chain \in Seq(Call)
    BY <1>0 DEF TypeOK
  <2> QED BY <2>1, <2>2, <2>3, <2>4
<1>2. TypeOK'
  BY <1>0, <1>1 DEF TypeOK, Ops, Places, owners, host, file, cloud, history
<1>3. Holds'
  BY <1>0, <1>1 DEF Holds, Running
<1>4. Quiet
  BY <1>0, <1>1 DEF Quiet, file, cloud, history
<1> QED BY <1>2, <1>3, <1>4, QuietStep DEF IInv

\* It goes on, or ends: the state file's records stay, but for a new one.
LEMMA GoOnStep ==
    ASSUME IInv,
           \/ Dropped \/ Purged
           \/ \E r \in Routes : Ensure(r)
           \/ \E a \in Answers : Unroute(a) \/ Setup(a) \/ Unlist(a) \/ Route(a)
    PROVE IInv'
<1> USE Bounds
<1>0. TypeOK /\ Holds /\ chain \in Seq(Call)
  BY DEF IInv, TypeOK
<1> DEFINE Moved == /\ TypeOK' /\ Holds' /\ Quiet
<1>1. ASSUME NEW t \in BOOLEAN, NEW u \in BOOLEAN, Running, op.held = {}, Done,
             up' = t, settled' = u, upsets' \in 0..MaxUpsets,
             tunnel' \in BOOLEAN, put' \in (SUBSET Entries) \cup {None},
             ingress' \in SUBSET Entries,
             UNCHANGED <<owners, known, rec, pending, out, history>>
      PROVE Moved
  <2>1. chain' \in Seq(Call) /\ op' \in Ops /\ op' = Resting
    BY <1>0, <1>1, DoneType
  <2>2. op'.held = op.held /\ op'.del = {} /\ op'.pc = "rest"
    BY <1>1, <2>1, RestingOp
  <2>3. TypeOK'
    BY <1>0, <1>1, <2>1 DEF TypeOK, Ops, Places, owners, history
  <2>4. Holds' /\ Quiet
    BY <1>1, <2>2 DEF Holds, Quiet, history
  <2> QED BY <2>3, <2>4
<1>2. CASE Dropped
  <2>1. Running /\ op.held = {} /\ up' \in BOOLEAN /\ settled' \in BOOLEAN
    BY <1>0, <1>2 DEF Dropped, Removed, Holds, TypeOK
  <2>2. Moved
    BY <1>0, <1>1, <1>2, <2>1 DEF Dropped, TypeOK, file, cloud
  <2> QED BY <2>2, QuietStep DEF IInv
<1>3. CASE Purged
  <2>1. Running /\ op.held = {}
    BY <1>0, <1>3 DEF Purged, Holds
  <2>2. Moved
    BY <1>0, <1>1, <1>3, <2>1 DEF Purged, TypeOK, file, cloud
  <2> QED BY <2>2, QuietStep DEF IInv
<1>4. ASSUME NEW r \in Routes, Ensure(r) PROVE IInv'
  <2>1. /\ chain' = chain /\ known' = known \cup {r}
        /\ UNCHANGED <<owners, host, rec, pending, put, tunnel, cloud, upsets, history>>
    BY <1>4 DEF Ensure
  <2>2. PICK pc \in {"access", "dns", "ensure"} :
          op' = [op EXCEPT !.pc = pc, !.want = @ \ {r}, !.r = r]
    BY <1>4 DEF Ensure
  <2>3. Running /\ op.held = {} /\ op.del = {}
    BY <1>0, <1>4 DEF Ensure, Takes, Begins, Holds
  <2>4. op' \in Ops /\ op'.pc = pc /\ op'.r = r /\ op'.held = {} /\ op'.del = {}
    BY <1>0, <2>2, <2>3 DEF TypeOK, Ops, Places
  <2>5. TypeOK'
    BY <1>0, <2>1, <2>4 DEF TypeOK, Ops, Places, owners, host, cloud, history
  <2>6. Holds' /\ Quiet
    BY <2>1, <2>3, <2>4 DEF Holds, Quiet, Running, cloud, history
  <2> QED BY <2>5, <2>6, QuietStep DEF IInv
<1>5. ASSUME NEW a \in Answers, Unroute(a) PROVE IInv'
  <2>1. /\ op.pc = "unroute" /\ op.del = {} /\ Running
        /\ UNCHANGED <<owners, host, known, rec, pending, tunnel, out, history>>
    BY <1>0, <1>5 DEF Unroute, Holds
  <2>2. /\ chain' = chain /\ op' \in Ops /\ op'.pc = "drop" /\ op'.held = op.held
        /\ op'.del = {}
    BY <1>0, <1>5, <2>1, GoType DEF Unroute, Places
  <2>3. /\ put' \in (SUBSET Entries) \cup {None} /\ ingress' \in SUBSET Entries
        /\ upsets' \in 0..MaxUpsets
    BY <1>0, <1>5, IngressType DEF Unroute, TypeOK
  <2>4. TypeOK'
    BY <1>0, <2>1, <2>2, <2>3 DEF TypeOK, Ops, Places, owners, host, history
  <2>5. Holds' /\ Quiet
    BY <2>1, <2>2 DEF Holds, Quiet, Running, history
  <2> QED BY <2>4, <2>5, QuietStep DEF IInv
<1>6. ASSUME NEW a \in Answers, Setup(a) PROVE IInv'
  <2>1. /\ op.pc = "drop" /\ op.held = {} /\ op.del = {} /\ Running
        /\ UNCHANGED <<owners, settled, known, rec, pending, put, cloud, history>>
        /\ upsets' \in 0..MaxUpsets /\ up' \in BOOLEAN /\ tunnel' \in BOOLEAN
    BY <1>0, <1>6, SpendType DEF Setup, Removed, Holds, TypeOK
  <2>2. CASE Go("ensure")
    <3>1. /\ chain' = chain /\ op' \in Ops /\ op'.pc = "ensure" /\ op'.held = {}
          /\ op'.del = {}
      BY <1>0, <2>1, <2>2, GoType DEF Places
    <3>2. TypeOK'
      BY <1>0, <2>1, <3>1 DEF TypeOK, Ops, Places, owners, cloud, history
    <3>3. Holds' /\ Quiet
      BY <2>1, <3>1 DEF Holds, Quiet, Running, cloud, history
    <3> QED BY <3>2, <3>3, QuietStep DEF IInv
  <2>3. CASE Done
    <3>1. Moved
      BY <1>0, <1>1, <2>1, <2>3 DEF TypeOK, cloud
    <3> QED BY <3>1, QuietStep DEF IInv
  <2> QED BY <1>6, <2>2, <2>3 DEF Setup
<1>7. ASSUME NEW a \in Answers, Unlist(a) \/ Route(a) PROVE IInv'
  <2>1. /\ op.pc \in {"unlist", "ensure"} /\ op.held = {} /\ op.del = {} /\ Running
        /\ UNCHANGED <<owners, host, known, rec, pending, tunnel, out, history>>
        /\ ApplyIngress(a)
    BY <1>0, <1>7 DEF Unlist, Route, Holds
  <2>2. /\ put' \in (SUBSET Entries) \cup {None} /\ ingress' \in SUBSET Entries
        /\ upsets' \in 0..MaxUpsets
    BY <1>0, <2>1, IngressType
  <2>3. CASE Done
    <3>1. Moved
      BY <1>0, <1>1, <2>1, <2>2, <2>3 DEF TypeOK, host
    <3> QED BY <3>1, QuietStep DEF IInv
  <2>4. CASE ~Done
    <3>1. /\ chain' = chain /\ op' \in Ops /\ op'.pc \in {"ensure", "purge"}
          /\ op'.held = {} /\ op'.del \subseteq pending /\ (op'.pc = "ensure" => op'.del = {})
      <4>1. CASE Unlist(a)
        BY <1>0, <2>1, <2>4, <4>1, GoType DEF Unlist, GiveUp, Places
      <4>2. CASE Route(a)
        <5>1. /\ chain' = chain /\ op' = [op EXCEPT !.pc = "purge", !.del = pending]
          BY <2>4, <4>2 DEF Route
        <5>2. op \in Ops /\ pending \in SUBSET Objs
          BY <1>0 DEF TypeOK, Ops, Places
        <5> QED BY <2>1, <5>1, <5>2 DEF Ops, Places
      <4> QED BY <1>7, <4>1, <4>2
    <3>2. TypeOK'
      BY <1>0, <2>1, <2>2, <3>1 DEF TypeOK, Ops, Places, owners, host, history
    <3>3. Holds' /\ Quiet
      BY <2>1, <3>1 DEF Holds, Quiet, Running, history
    <3> QED BY <3>2, <3>3, QuietStep DEF IInv
  <2> QED BY <2>3, <2>4
<1> QED BY <1>2, <1>3, <1>4, <1>5, <1>6, <1>7

-----------------------------------------------------------------------------
(* Steps that change what is recorded, queued or made *)

\* A record is forgotten, and what it recorded is held.
LEMMA DropStep == ASSUME IInv, NEW r \in Routes, Drop(r) PROVE IInv'
<1> DEFINE ids == {rec[r][k] : k \in Kinds} \ {None}
<1>0. /\ TypeOK /\ Holds /\ op.pc = "drop" /\ op.held = {} /\ op.del = {} /\ Running
      /\ UNCHANGED <<owners, host, pending, put, tunnel, cloud, chain, upsets, history>>
      /\ known' = known \ {r}
  BY DEF IInv, Holds, Drop
<1>1. ids \subseteq Objs
  BY <1>0 DEF TypeOK
<1>2. /\ rec' \in [Routes -> [Kinds -> Objs \cup {None}]]
      /\ \A k \in Kinds : rec'[r][k] = None
      /\ \A q \in Routes \ {r} : rec'[q] = rec[q]
  BY <1>0 DEF Drop, TypeOK, NoIds
<1>3. op' \in Ops /\ op'.pc = "unroute" /\ op'.held = ids /\ op'.del = {}
  <2>1. op' = [op EXCEPT !.pc = "unroute", !.stale = @ \ {r}, !.held = ids]
    BY DEF Drop
  <2> HIDE DEF ids
  <2> QED BY <1>0, <1>1, <2>1 DEF TypeOK, Ops, Places
<1>4. TypeOK'
  BY <1>0, <1>2, <1>3 DEF TypeOK, Ops, Places, owners, host, cloud, history
<1>5. Holds'
  BY <1>0, <1>3 DEF Holds, Running
<1>6. Tracked'
  <2> SUFFICES ASSUME NEW o \in out
               PROVE (\E q \in known' : rec'[q][o[1]] = o) \/ o \in pending \cup ids \cup cut
    BY <1>0, <1>3 DEF Tracked, cloud, history
  <2>1. o \in Objs /\ o[1] \in Kinds /\ o # None
    BY <1>0, NoneApart DEF TypeOK, Objs, Kinds
  <2>2. (\E q \in known : rec[q][o[1]] = o) \/ o \in pending \cup cut
    BY <1>0 DEF IInv, Tracked
  <2>3. CASE rec[r][o[1]] = o
    BY <2>1, <2>3
  <2>4. CASE rec[r][o[1]] # o
    BY <1>0, <1>2, <2>2, <2>4 DEF TypeOK
  <2> QED BY <2>3, <2>4
<1>7. OfApp' /\ Apart' /\ Guarded'
  <2>1. "access" \in Kinds
    BY DEF Kinds
  <2>2. OfApp' /\ Apart'
    BY <1>0, <1>2 DEF IInv, OfApp, Apart, history
  <2>3. Guarded'
    BY <1>0, <1>2, <2>1 DEF IInv, Guarded, cloud, history
  <2> QED BY <2>2, <2>3
<1>8. Spared'
  <2> SUFFICES ASSUME NEW q \in Routes, NEW k \in Kinds, rec'[q][k] # None,
                      rec'[q][k] \in pending \cup ids
               PROVE AppOf[q] \in reused
    BY <1>0, <1>3 DEF Spared, history
  <2>1. q # r /\ rec'[q][k] = rec[q][k]
    BY <1>2
  <2>2. CASE rec[q][k] \in pending
    BY <2>1, <2>2 DEF IInv, Spared
  <2>3. CASE rec[q][k] \in ids
    <3>1. PICK j \in Kinds : rec[r][j] = rec[q][k]
      BY <2>3
    <3>2. j = k
      BY <2>1, <3>1 DEF IInv, OfApp
    <3> QED BY <2>1, <3>1, <3>2 DEF IInv, Apart
  <2> QED BY <2>1, <2>2, <2>3
<1> QED BY <1>4, <1>5, <1>6, <1>7, <1>8 DEF IInv

\* A delete is answered, refused, or its answer is lost.
LEMMA DeleteStep ==
    ASSUME IInv, NEW o \in Objs, NEW a \in Answers, Delete(o, a) \/ Purge(o, a)
    PROVE IInv'
<1>0. /\ TypeOK /\ Holds /\ op.pc \in {"drop", "purge"} /\ Running
      /\ o \in op.held \cup op.del
      /\ UNCHANGED <<owners, host, known, rec, put, tunnel, ingress, chain, reused, dash>>
  BY DEF IInv, Holds, Delete, Purge
<1>1. /\ Spend(a)
      /\ out' = IF a = "refused" THEN out ELSE out \ {o}
      /\ pending' = IF a = "ok" THEN pending \ {o} ELSE pending \cup {o}
      /\ cut' = IF a = "refused" THEN cut ELSE cut \ {o}
  BY DEF Delete, Purge, DeleteOrQueue, Queued
<1>2. upsets' \in 0..MaxUpsets
  BY <1>0, <1>1, SpendType
<1>3. /\ op' \in Ops /\ op'.pc = op.pc /\ op'.r = op.r
      /\ op'.held \subseteq op.held /\ op.held \ {o} \subseteq op'.held
      /\ op'.del \subseteq op.del
  <2>1. CASE Delete(o, a)
    BY <1>0, <2>1 DEF Delete, TypeOK, Ops, Places
  <2>2. CASE Purge(o, a)
    BY <1>0, <2>2 DEF Purge, TypeOK, Ops, Places
  <2> QED BY <2>1, <2>2
<1>4. TypeOK'
  BY <1>0, <1>1, <1>2, <1>3 DEF TypeOK, Ops, Places, owners, host
<1>5. Holds'
  BY <1>0, <1>3 DEF Holds, Running
<1>6. Tracked'
  BY <1>0, <1>1, <1>3 DEF IInv, Tracked, Answers
<1>7. OfApp' /\ Apart'
  BY <1>0 DEF IInv, OfApp, Apart
<1>8. Spared'
  BY <1>0, <1>1, <1>3 DEF IInv, Spared
<1>9. Guarded'
  <2> SUFFICES ASSUME NEW r \in Routes, rec[r]["access"] # None,
                      rec[r]["access"] \notin out', AppOf[r] \notin reused \cup dash
               PROVE FALSE
    BY <1>0 DEF Guarded
  <2>1. rec[r]["access"] = o
    BY <1>1 DEF IInv, Guarded
  <2> QED BY <1>0, <2>1 DEF IInv, Spared, Kinds
<1> QED BY <1>4, <1>5, <1>6, <1>7, <1>8, <1>9 DEF IInv

LEMMA UpsetStep == ASSUME IInv, Crash \/ \E o \in Objs : Dashboard(o) PROVE IInv'
<1> USE Bounds
<1>0. TypeOK /\ Holds /\ upsets' \in 0..MaxUpsets
  BY DEF IInv, TypeOK, Crash, Dashboard, Upset
<1>1. CASE Crash
  <2>1. /\ UNCHANGED <<rows, on, exposes, file, cloud, reused, dash>>
        /\ calls' = {} /\ chain' = <<>> /\ op' = Resting /\ up' = FALSE /\ settled' = FALSE
        /\ cut' = cut \cup (op.held \cap out)
    BY <1>1 DEF Crash
  <2>2. op' \in Ops /\ op'.pc = "rest" /\ op'.held = {} /\ op'.del = {}
    BY <2>1, RestingOp
  <2>3. TypeOK'
    <3>1. {on', up', settled', tunnel'} \subseteq BOOLEAN
      BY <1>0, <2>1 DEF TypeOK, file
    <3>2. chain' \in Seq(Call) /\ cut' \subseteq Objs
      BY <1>0, <2>1 DEF TypeOK
    <3> QED BY <1>0, <2>1, <2>2, <3>1, <3>2 DEF TypeOK, Ops, Places, file, cloud
  <2>4. Holds'
    BY <2>2 DEF Holds
  <2>5. Tracked'
    BY <2>1, <2>2 DEF IInv, Tracked, file, cloud
  <2>6. OfApp' /\ Spared' /\ Apart' /\ Guarded'
    BY <2>1, <2>2 DEF IInv, OfApp, Spared, Apart, Guarded, file, cloud
  <2> QED BY <2>3, <2>4, <2>5, <2>6 DEF IInv
<1>2. ASSUME NEW o \in Objs, Dashboard(o) PROVE IInv'
  <2>1. /\ UNCHANGED <<owners, host, file, ingress, chain, op, cut, reused>>
        /\ out' = out \ {o} /\ dash' = dash \cup {o[2]}
    BY <1>2 DEF Dashboard
  <2>2. o[2] \in Apps
    BY DEF Objs
  <2>3. TypeOK'
    BY <1>0, <2>1, <2>2 DEF TypeOK, owners, host, file
  <2>4. Holds' /\ OfApp' /\ Apart' /\ Spared' /\ Tracked'
    <3>1. UNCHANGED <<known, rec, pending, op, chain, cut, reused>>
      BY <2>1 DEF file
    <3>2. Holds' /\ OfApp' /\ Apart' /\ Spared'
      BY <3>1 DEF IInv, Holds, OfApp, Apart, Spared, Running
    <3>3. Tracked'
      BY <2>1, <3>1 DEF IInv, Tracked
    <3> QED BY <3>2, <3>3
  <2>5. Guarded'
    BY <2>1 DEF IInv, Guarded, OfApp, Kinds, file
  <2> QED BY <2>3, <2>4, <2>5 DEF IInv
<1> QED BY <1>1, <1>2

-----------------------------------------------------------------------------
(* Making, and writing again *)

\* What is found by its name, or can be made, is of the kind and the app; a new
\* one is nothing an operation or a record refers to.
LEMMA NamedIsOf ==
    ASSUME TypeOK, NEW k \in Kinds, NEW b \in Apps, NEW o \in Named(k, b)
    PROVE o \in Objs /\ o[1] = k /\ o[2] = b /\ (o \in out \/ o \notin cut)
  BY DEF TypeOK, Named, Objs

\* An app that takes over an object someone else holds is counted in reused.
LEMMA MakeStep ==
    ASSUME IInv, NEW k \in Kinds, NEW a \in Answers, Make(k, a) PROVE IInv'
<1> USE Bounds
<1> DEFINE r == op.r
           o == CHOOSE x \in Named(k, AppOf[r]) : TRUE
<1>0. /\ TypeOK /\ Holds /\ op.pc = k /\ op.held = {} /\ op.del = {} /\ Running
      /\ r \in known /\ r \in Routes /\ rec[r][k] = None
      /\ UNCHANGED <<owners, host, known, pending, put, tunnel, ingress, dash>>
  BY DEF IInv, Holds, Make, Kinds, TypeOK
<1>1. /\ o \in Objs /\ o[1] = k /\ o[2] = AppOf[r] /\ o # None
  <2>1. Named(k, AppOf[r]) # {}
    BY DEF Make
  <2>2. AppOf[r] \in Apps
    BY <1>0, AppsOfRoutes
  <2>3. o \in Named(k, AppOf[r])
    BY <2>1
  <2> HIDE DEF o
  <2>4. o \in Objs /\ o[1] = k /\ o[2] = AppOf[r]
    BY <1>0, <2>2, <2>3, NamedIsOf
  <2> QED BY <2>4, NoneApart DEF Objs, Kinds
<1>2. /\ Spend(a)
      /\ out' = IF a = "refused" THEN out ELSE out \cup {o}
      /\ rec' = IF a = "ok" THEN [rec EXCEPT ![r][k] = o] ELSE rec
      /\ cut' = CASE a = "ok" -> cut \ {o}
                  [] a = "refused" -> cut
                  [] a = "lost" -> IF o \in out THEN cut ELSE cut \cup {o}
      /\ reused' = IF a = "ok" /\ (o \in pending \/ \E q \in Routes : rec[q][k] = o)
                   THEN reused \cup {o[2]} ELSE reused
      /\ IF a = "ok" THEN GoOn(k) ELSE GiveUp
  BY DEF Make
<1> HIDE DEF r, o
<1>3. /\ op' \in Ops /\ op'.held = {} /\ op'.del = {} /\ chain' \in Seq(Call)
      /\ \/ op' = Resting
         \/ op'.pc \in {"dns", "ensure"} /\ op'.r = op.r /\ chain' = chain
  <2>1. ASSUME NEW pc \in {"dns", "ensure"}, Go(pc)
        PROVE /\ op' \in Ops /\ op'.held = {} /\ op'.del = {} /\ chain' \in Seq(Call)
              /\ op'.pc = pc /\ op'.r = op.r /\ chain' = chain
    BY <1>0, <2>1, GoType DEF Places, TypeOK
  <2>2. CASE GoOn(k)
    BY <2>1, <2>2 DEF GoOn
  <2>3. CASE GiveUp
    BY <1>0, <2>1, <2>3, DoneType, RestingOp DEF GiveUp
  <2> QED BY <1>2, <2>2, <2>3
<1>4. /\ rec' \in [Routes -> [Kinds -> Objs \cup {None}]]
      /\ a # "ok" => rec' = rec
      /\ a = "ok" => /\ rec'[r][k] = o
                     /\ \A q \in Routes, j \in Kinds : q # r \/ j # k => rec'[q][j] = rec[q][j]
  <2>1. CASE a = "ok"
    <3>1. Records(r, k, o)
      BY <1>2, <2>1 DEF Records
    <3>2. r \in Routes /\ o \in Objs \cup {None} /\ TypeOK
      BY <1>0, <1>1
    <3>3. /\ rec' \in [Routes -> [Kinds -> Objs \cup {None}]] /\ rec'[r][k] = o
          /\ \A q \in Routes, j \in Kinds : q # r \/ j # k => rec'[q][j] = rec[q][j]
      BY <3>1, <3>2, RecordType
    <3> QED BY <2>1, <3>3
  <2>2. CASE a # "ok"
    BY <1>0, <1>2, <2>2 DEF TypeOK
  <2> QED BY <2>1, <2>2
<1>5. /\ upsets' \in 0..MaxUpsets /\ out' \subseteq Objs /\ cut' \subseteq Objs
      /\ reused \subseteq reused' /\ reused' \subseteq Apps /\ out \subseteq out'
  <2>1. upsets' \in 0..MaxUpsets
    BY <1>0, <1>2, SpendType
  <2>2. o[2] \in Apps
    BY <1>0, <1>1, AppsOfRoutes
  <2>3. cut' \subseteq Objs
    BY <1>0, <1>1, <1>2 DEF TypeOK, Answers
  <2> QED BY <1>0, <1>1, <1>2, <2>1, <2>2, <2>3 DEF TypeOK
<1>6. TypeOK'
  BY <1>0, <1>3, <1>4, <1>5 DEF TypeOK, Ops, Places, owners, host
<1>7. Holds'
  BY <1>0, <1>3, RestingOp DEF Holds, Running, r
<1>8. Tracked'
  <2> SUFFICES ASSUME NEW x \in out'
               PROVE (\E q \in known : rec'[q][x[1]] = x) \/ x \in pending \cup cut'
    BY <1>0, <1>3 DEF Tracked
  <2>1. CASE x = o
    <3>1. CASE a = "ok"
      BY <1>0, <1>1, <1>4, <2>1, <3>1
    <3>2. CASE a # "ok"
      <4>1. x \in cut' \/ x \in out
        BY <1>2, <2>1, <3>2 DEF Answers
      <4>2. cut \subseteq cut'
        BY <1>2, <3>2 DEF Answers
      <4> QED BY <1>0, <1>4, <3>2, <4>1, <4>2 DEF IInv, Tracked
    <3> QED BY <3>1, <3>2
  <2>2. CASE x # o
    <3>1. x \in out /\ (x \in cut => x \in cut') /\ x \in Objs /\ x[1] \in Kinds /\ x # None
      BY <1>0, <1>2, <2>2, NoneApart DEF Answers, TypeOK, Objs, Kinds
    <3>2. (\E q \in known : rec[q][x[1]] = x) \/ x \in pending \cup cut
      BY <1>0, <3>1 DEF IInv, Tracked
    <3>3. known \subseteq Routes
      BY <1>0 DEF TypeOK
    <3> QED BY <1>0, <1>4, <3>1, <3>2, <3>3
  <2> QED BY <2>1, <2>2
<1>9. OfApp'
  BY <1>0, <1>1, <1>4 DEF IInv, OfApp
<1>10. Spared'
  BY <1>0, <1>1, <1>2, <1>3, <1>4, <1>5 DEF IInv, Spared
<1>11. Apart'
  <2> SUFFICES ASSUME NEW p \in Routes, NEW q \in Routes, NEW j \in Kinds, p # q,
                      rec'[p][j] # None, rec'[p][j] = rec'[q][j]
               PROVE AppOf[p] \in reused'
    BY DEF Apart
  <2>1. CASE a = "ok" /\ j = k /\ r \in {p, q}
    <3>1. PICK x \in Routes : x \in {p, q} /\ x # r /\ rec[x][k] = o
      BY <1>4, <2>1
    <3>2. AppOf[r] \in reused' /\ AppOf[x] = AppOf[r]
      BY <1>1, <1>2, <2>1, <3>1 DEF IInv, OfApp
    <3> QED BY <2>1, <3>1, <3>2
  <2>2. CASE ~(a = "ok" /\ j = k /\ r \in {p, q})
    <3>1. rec'[p][j] = rec[p][j] /\ rec'[q][j] = rec[q][j]
      BY <1>4, <2>2
    <3> QED BY <1>5, <3>1 DEF IInv, Apart
  <2> QED BY <2>1, <2>2
<1>12. Guarded'
  BY <1>0, <1>1, <1>2, <1>4, <1>5 DEF IInv, Guarded, Kinds
<1> QED BY <1>6, <1>7, <1>8, <1>9, <1>10, <1>11, <1>12 DEF IInv

LEMMA RewriteStep == ASSUME IInv, NEW a \in Answers, Rewrite(a) PROVE IInv'
<1> USE Bounds
<1> DEFINE o == rec[op.r]["access"]
<1>0. /\ TypeOK /\ Holds /\ op.pc = "access" /\ op.held = {} /\ op.del = {} /\ Running
      /\ op.r \in known /\ op.r \in Routes /\ o # None
      /\ UNCHANGED <<owners, host, known, pending, put, tunnel, cloud, history>>
      /\ upsets' \in 0..MaxUpsets
  BY SpendType DEF IInv, Holds, Rewrite, TypeOK
<1>1. /\ op' \in Ops /\ op'.held = {} /\ op'.del = {} /\ chain' \in Seq(Call)
      /\ \/ op' = Resting
         \/ op'.pc \in {"dns", "ensure", "unlist"} /\ op'.r = op.r /\ chain' = chain
  <2>1. ASSUME NEW pc \in {"dns", "ensure", "unlist"}, Go(pc)
        PROVE /\ op' \in Ops /\ op'.held = {} /\ op'.del = {} /\ chain' \in Seq(Call)
              /\ op'.pc = pc /\ op'.r = op.r /\ chain' = chain
    BY <1>0, <2>1, GoType DEF Places, TypeOK
  <2>2. CASE GoOn("access")
    BY <2>1, <2>2 DEF GoOn
  <2>3. CASE GiveUp
    BY <1>0, <2>1, <2>3, DoneType, RestingOp DEF GiveUp
  <2>4. CASE Go("unlist")
    BY <2>1, <2>4
  <2> QED BY <2>2, <2>3, <2>4 DEF Rewrite, Answers
<1>2. rec' = rec \/ (o \notin out /\ rec' = [rec EXCEPT ![op.r]["access"] = None])
  BY DEF Rewrite, Answers
<1>3. /\ rec' \in [Routes -> [Kinds -> Objs \cup {None}]]
      /\ \A q \in Routes, k \in Kinds :
           rec'[q][k] = rec[q][k] \/ (rec'[q][k] = None /\ rec[q][k] \notin out)
  <2>1. CASE rec' = rec
    BY <1>0, <2>1 DEF TypeOK
  <2>2. CASE o \notin out /\ rec' = [rec EXCEPT ![op.r]["access"] = None]
    <3>1. Records(op.r, "access", None) /\ "access" \in Kinds
      BY <2>2 DEF Records, Kinds
    <3>2. op.r \in Routes /\ TypeOK /\ rec[op.r]["access"] \notin out
      BY <1>0, <2>2
    <3>3. /\ rec' \in [Routes -> [Kinds -> Objs \cup {None}]] /\ rec'[op.r]["access"] = None
          /\ \A q \in Routes, k \in Kinds :
                q # op.r \/ k # "access" => rec'[q][k] = rec[q][k]
      BY <3>1, <3>2, RecordType
    <3> QED BY <3>2, <3>3
  <2> QED BY <1>2, <2>1, <2>2
<1> HIDE DEF o
<1>4. TypeOK'
  BY <1>0, <1>1, <1>3 DEF TypeOK, Ops, Places, owners, host, cloud, history
<1>5. Holds'
  BY <1>0, <1>1, RestingOp DEF Holds, Running
<1>6. Tracked'
  <2>1. \A x \in out : x[1] \in Kinds
    BY <1>0 DEF TypeOK, Objs
  <2> QED BY <1>0, <1>1, <1>3, <2>1 DEF IInv, Tracked, TypeOK, cloud, history
<1>7. OfApp' /\ Apart' /\ Spared' /\ Guarded'
  <2>1. OfApp' /\ Apart'
    BY <1>0, <1>3 DEF IInv, OfApp, Apart, history
  <2>2. Spared' /\ Guarded'
    BY <1>0, <1>1, <1>3 DEF IInv, Spared, Guarded, Kinds, cloud, history
  <2> QED BY <2>1, <2>2
<1> QED BY <1>4, <1>5, <1>6, <1>7 DEF IInv

-----------------------------------------------------------------------------
LEMMA Inductive == Spec => []IInv
<1>1. IInv /\ [Next]_vars => IInv'
  <2> SUFFICES ASSUME IInv, [Next]_vars PROVE IInv'
    OBVIOUS
  <2>1. ASSUME NEW a \in Answers, Step(a) PROVE IInv'
    BY <2>1, BeginStep, GoOnStep, DropStep, DeleteStep, MakeStep, RewriteStep DEF Step
  <2>2. CASE Next
    BY <2>1, <2>2, OwnersStep, BeginStep, UpsetStep DEF Next
  <2>3. CASE UNCHANGED vars
    <3>1. TypeOK'
      BY <2>3 DEF vars, IInv, TypeOK
    <3>2. Holds' /\ Quiet
      BY <2>3 DEF vars, IInv, Holds, Running, Quiet
    <3> QED BY <3>1, <3>2, QuietStep DEF IInv
  <2> QED BY <2>2, <2>3
<1> QED BY <1>1, IInvInit, PTL DEF Spec

\* The state of the route and of Cloudflare stays well typed.
THEOREM CloudflareTypeCorrect == Spec => []TypeOK
<1>1. IInv => TypeOK
  BY DEF IInv
<1> QED BY <1>1, Inductive, PTL

\* Nothing made in Cloudflare is forgotten, but for lost answers and hosts.
THEOREM NothingForgotten == Spec => []Tracked
<1>1. IInv => Tracked
  BY DEF IInv
<1> QED BY <1>1, Inductive, PTL

\* No app is routed before its Access application guards it.
THEOREM GuardedBeforeRouted == Spec => GuardedFirst
<1> DEFINE Guards == \A e \in ingress' \ ingress : e[2] \in out' \/ e[1] \in reused \cup dash
<1>1. IInv /\ [Next]_vars => [Guards]_vars
  <2> SUFFICES ASSUME IInv, Next, NEW e \in ingress' \ ingress
               PROVE e[2] \in out' \/ e[1] \in reused \cup dash
    OBVIOUS
  <2>1. PICK a \in Answers : Unroute(a) \/ Unlist(a) \/ Route(a)
    <3>1. PICK a \in Answers : Step(a)
      BY DEF Next, Expose, Unexpose, Switch, Tick, ListFails, Crash, Dashboard, Enter, cloud
    <3>2. ~UNCHANGED cloud
      BY DEF cloud
    <3> QED BY <3>1, <3>2
        DEF Step, Ensure, Drop, Detach, Dropped, Purged, List, Setup, Rewrite, Make, Delete,
            Purge, cloud
  <2>2. ingress' = Ready /\ out' = out
    BY <2>1 DEF Unroute, Unlist, Route, ApplyIngress
  <2>3. PICK r \in known : /\ \A k \in Kinds : rec[r][k] # None
                           /\ e = <<AppOf[r], rec[r]["access"]>>
    BY <2>2 DEF Ready
  <2>4. r \in Routes /\ rec[r]["access"] # None
    BY <2>3 DEF IInv, TypeOK, Kinds
  <2>5. rec[r]["access"] \in out \/ AppOf[r] \in reused \cup dash
    BY <2>4 DEF IInv, Guarded
  <2> QED BY <2>2, <2>3, <2>5
<1> QED BY <1>1, Inductive, PTL DEF Spec, GuardedFirst
=============================================================================

----------------------- MODULE SessionRetentionProofs -----------------------
(***************************************************************************)
(* Theorems about SessionRetention, for any sessions, pruners and writes.  *)
(* That a prune gives back what it does not delete, and removes only what  *)
(* its second screen passed, holds of any prunes that overlap.  That no    *)
(* write is lost needs prunes that do not: a write on its way is into a    *)
(* session that is active, or closed by a prune that is still to wait.     *)
(***************************************************************************)
EXTENDS SessionRetention, FiniteSetTheorems, NaturalsInduction, TLAPS

\* A prune has closed only what it screened; it has a session in hand only
\* while it deletes it, one that its context lets go, and removes files only
\* of one whose row has gone.
PruneTrue(p) ==
  /\ Stage(p) \in {"off", "screening"} => prunes[p].closedHere = {}
  /\ Stage(p) = "closing" => prunes[p].todo \subseteq prunes[p].eligible
  /\ prunes[p].closedHere \subseteq prunes[p].eligible
  /\ Stage(p) \notin {"deleting", "removing"} => prunes[p].cur = {}
  /\ Stage(p) = "deleting" => prunes[p].cur \cap prunes[p].held = {}
  /\ Stage(p) = "removing" => \A s \in prunes[p].cur : status[s] = "gone"

IInv == TypeOK /\ (\A p \in Pruners : PruneTrue(p)) /\ GivenBack

\* At most one prune is under way: what the tick's flag sees to among ticks,
\* and nothing between a tick and the command (finding prune_two).
OneAtATime == \A p, q \in Pruners : Stage(p) # "off" /\ Stage(q) # "off" => p = q

\* A write on its way is into a session that is active, or closed by a prune
\* that has still to wait for it.
Pending(s) == \E w \in Writes : written[w] = "no" /\ target[w] = s
Awaited(s) == status[s] = "closed" /\ \E p \in Pruners : /\ s \in prunes[p].closedHere
                                                         /\ Stage(p) \in {"closing", "grace"}
Safe(s) == status[s] = "active" \/ Awaited(s)
WritesSafe == \A s \in Sessions : Pending(s) => Safe(s)

-----------------------------------------------------------------------------
(* The session the router resumes.                                         *)

\* Some active session is the newest, if there is one.
\* A nonempty set of numbers has a least one.
LEMMA LeastOf ==
  ASSUME NEW S \in SUBSET Nat, S # {}
  PROVE  \E n \in S : \A m \in S : n <= m
<1>1. PICK n \in S : \A m \in S : <<m, n>> \notin OpToRel(<, Nat)
  BY NatLessThanWellFounded, WFMin
<1>2. \A m \in S : ~(m < n)
  BY <1>1 DEF OpToRel
<1> QED
  BY <1>2

LEMMA NewestActive ==
  ASSUME Active # {}
  PROVE  Max(Active) \in Active
<1> DEFINE Later(s) == {t \in Active : t > s}
           Counts == {Cardinality(Later(s)) : s \in Active}
<1>1. Active \subseteq Nat /\ IsFiniteSet(Active)
  BY RetentionAssumption, FS_Subset DEF Active
<1>2. \A s \in Active : IsFiniteSet(Later(s)) /\ Cardinality(Later(s)) \in Nat
  BY <1>1, FS_Subset, FS_CardinalityType
<1>3. PICK s \in Active : \A t \in Active : Cardinality(Later(s)) <= Cardinality(Later(t))
  <2>1. Counts \in SUBSET Nat /\ Counts # {}
    BY <1>2
  <2>2. PICK n \in Counts : \A m \in Counts : n <= m
    <3> HIDE DEF Counts
    <3> QED
      BY <2>1, LeastOf
  <2> QED
    BY <2>2
<1>4. ASSUME NEW t \in Active, t > s PROVE FALSE
  <2>0. s \in Nat /\ t \in Nat /\ \A u \in Active : u \in Nat
    BY <1>1
  <2>1. Later(t) \subseteq Later(s) /\ t \in Later(s) /\ t \notin Later(t)
    <3>1. ~(t > t) /\ t > s
      BY <1>4, <2>0
    <3>2. ASSUME NEW u \in Active, u > t PROVE u > s
      <4>1. u \in Nat
        BY <2>0
      <4> QED
        BY <3>1, <3>2, <2>0, <4>1, SMTT(20)
    <3> QED
      BY <3>1, <3>2
  <2>2. Cardinality(Later(t)) <= Cardinality(Later(s)) /\ Cardinality(Later(t)) # Cardinality(Later(s))
    <3> HIDE DEF Later
    <3> QED
      BY <1>2, <2>1, FS_Subset
  <2>3. Cardinality(Later(t)) \in Nat /\ Cardinality(Later(s)) \in Nat
    BY <1>2
  <2> HIDE DEF Later
  <2> QED
    BY <1>3, <2>2, <2>3
<1>5. \A t \in Active : s >= t
  BY <1>1, <1>4
<1> QED
  BY <1>5 DEF Max

LEMMA ContinuationType == Continuation \subseteq Sessions
  BY NewestActive DEF Continuation, Active

-----------------------------------------------------------------------------
(* Types.                                                                  *)

PruneRec == [stage : Stages, held : SUBSET Sessions, keep : SUBSET Sessions,
             todo : SUBSET Sessions, eligible : SUBSET Sessions,
             closedHere : SUBSET Sessions, cur : SUBSET Sessions]

LEMMA InHandType == ASSUME TypeOK, NEW p \in Pruners PROVE InHand(p) \subseteq Sessions
  BY DEF TypeOK, InHand

LEMMA PruneType ==
  ASSUME TypeOK, NEW p \in Pruners, NEW new \in PruneRec, Prune(p, new)
  PROVE  /\ prunes' \in [Pruners -> PruneRec]
         /\ prunes'[p] = new
         /\ \A q \in Pruners : q # p => prunes'[q] = prunes[q]
  BY DEF TypeOK, Prune, PruneRec

\* What a prune does to rows and files.
LEMMA ReopenType ==
  ASSUME TypeOK, NEW p \in Pruners, NEW s \in Sessions, Reopen(p, s)
  PROVE  /\ status' \in [Sessions -> {"none", "active", "closed", "gone"}]
         /\ \A t \in Sessions : t # s => status'[t] = status[t]
         /\ status'[s] = IF s \in prunes[p].closedHere /\ status[s] = "closed"
                           THEN "active" ELSE status[s]
         /\ \A t \in Sessions : status'[t] \in {"active", "closed"} => t \in folder
  BY DEF TypeOK, Reopen

LEMMA TypePruning ==
  ASSUME TypeOK, NEW p \in Pruners,
         Start(p) \/ Screened(p) \/ Closed(p) \/ GraceEnds(p) \/ Rebuild(p)
         \/ CheckThrows(p) \/ DeleteThrows(p) \/ Finish(p)
  PROVE  TypeOK'
<1>1. Idle \in PruneRec
  BY DEF Idle, PruneRec, Stages
<1>2. prunes[p] \in PruneRec
  BY DEF TypeOK, PruneRec
<1> USE <1>1, <1>2, PruneType
<1>3. ASSUME NEW new \in PruneRec, Prune(p, new), UNCHANGED <<status, folder, touched, held, spent, writeVars>>,
             left' \subseteq Sessions, runs' \in [Pruners -> 0..MaxRuns], crashes' = crashes
      PROVE  TypeOK'
  <2>1. prunes' \in [Pruners -> PruneRec]
    BY <1>3
  <2> QED
    BY <1>3, <2>1 DEF TypeOK, PruneRec, writeVars
<1>4. runs \in [Pruners -> 0..MaxRuns] /\ left \subseteq Sessions
  BY DEF TypeOK
<1>5. CASE Start(p)
  <2> DEFINE new == [Idle EXCEPT !.stage = "screening", !.held = held, !.keep = Continuation,
                                 !.todo = {s \in Sessions : status[s] \in {"active", "closed"}}]
  <2>1. new \in PruneRec
    BY ContinuationType DEF TypeOK, Idle, PruneRec, Stages
  <2>2. runs' \in [Pruners -> 0..MaxRuns]
    BY <1>4, <1>5, RetentionAssumption DEF Start
  <2> QED
    BY <1>3, <1>4, <1>5, <2>1, <2>2 DEF Start, sessionVars
<1>6. CASE Screened(p)
  <2>1. [prunes[p] EXCEPT !.stage = "closing", !.todo = prunes[p].eligible] \in PruneRec
    BY DEF PruneRec, Stages
  <2> QED
    BY <1>3, <1>4, <1>6, <2>1 DEF Screened, sessionVars
<1>7. CASE Closed(p)
  <2>1. [prunes[p] EXCEPT !.stage = IF prunes[p].closedHere = {} THEN "rebuild" ELSE "grace"] \in PruneRec
    BY DEF PruneRec, Stages
  <2> QED
    BY <1>3, <1>4, <1>7, <2>1 DEF Closed, sessionVars
<1>8. CASE GraceEnds(p)
  <2>1. [prunes[p] EXCEPT !.stage = "rebuild"] \in PruneRec
    BY DEF PruneRec, Stages
  <2> QED
    BY <1>3, <1>4, <1>8, <2>1 DEF GraceEnds, sessionVars
<1>9. CASE Rebuild(p)
  <2>1. [prunes[p] EXCEPT !.stage = "checking", !.held = held, !.keep = Continuation,
                          !.todo = prunes[p].eligible] \in PruneRec
    BY ContinuationType DEF TypeOK, PruneRec, Stages
  <2> QED
    BY <1>3, <1>4, <1>9, <2>1 DEF Rebuild, sessionVars
<1>10. CASE CheckThrows(p)
  BY <1>3, <1>4, <1>10, InHandType DEF CheckThrows
<1>11. CASE DeleteThrows(p)
  <2>1. [prunes[p] EXCEPT !.stage = "checking", !.cur = {}] \in PruneRec
    BY DEF PruneRec, Stages
  <2>2. prunes[p].cur \cap prunes[p].closedHere \subseteq Sessions
    BY DEF PruneRec
  <2> QED
    BY <1>3, <1>4, <1>11, <2>1, <2>2 DEF DeleteThrows
<1>12. CASE Finish(p)
  BY <1>3, <1>4, <1>12 DEF Finish, sessionVars
<1> QED
  BY <1>5, <1>6, <1>7, <1>8, <1>9, <1>10, <1>11, <1>12

LEMMA TypeSession ==
  ASSUME TypeOK, NEW p \in Pruners, PruneTrue(p), NEW s \in Sessions,
         Screen(p, s) \/ CloseSession(p, s) \/ Check(p, s) \/ Delete(p, s) \/ Remove(p, s)
  PROVE  TypeOK'
<1>1. prunes[p] \in PruneRec /\ prunes[p].closedHere \subseteq Sessions
  BY DEF TypeOK, PruneRec
<1> USE PruneType
<1>2. ASSUME NEW new \in PruneRec, Prune(p, new),
             status' \in [Sessions -> {"none", "active", "closed", "gone"}],
             folder' \subseteq folder, held' \subseteq held,
             \A t \in Sessions : status'[t] \in {"active", "closed"} => t \in folder',
             UNCHANGED <<touched, spent, left, writeVars, runs, crashes>>
      PROVE  TypeOK'
  <2>1. prunes' \in [Pruners -> PruneRec]
    BY <1>2
  <2> QED
    BY <1>2, <2>1 DEF TypeOK, PruneRec, writeVars
<1>3. /\ status \in [Sessions -> {"none", "active", "closed", "gone"}]
      /\ \A t \in Sessions : status[t] \in {"active", "closed"} => t \in folder
  BY DEF TypeOK
<1>4. [prunes[p] EXCEPT !.stage = "checking", !.cur = {}] \in PruneRec
  BY <1>1 DEF PruneRec, Stages
<1>5. [prunes[p] EXCEPT !.todo = @ \ {s}] \in PruneRec
  BY <1>1 DEF PruneRec
<1>6. CASE Screen(p, s)
  <2>1. PICK eligible \in BOOLEAN :
          Prune(p, [prunes[p] EXCEPT !.todo = @ \ {s},
                                     !.eligible = IF eligible THEN @ \cup {s} ELSE @])
    BY <1>6 DEF Screen, MayGo
  <2>2. [prunes[p] EXCEPT !.todo = @ \ {s},
                          !.eligible = IF eligible THEN @ \cup {s} ELSE @] \in PruneRec
    BY <1>1 DEF PruneRec
  <2> QED
    BY <1>2, <1>3, <1>6, <2>1, <2>2 DEF Screen, sessionVars
<1>7. CASE CloseSession(p, s)
  <2> DEFINE closes == status[s] = "active" /\ s \notin touched
             new == [prunes[p] EXCEPT !.todo = @ \ {s},
                                      !.closedHere = IF closes THEN @ \cup {s} ELSE @]
  <2>1. new \in PruneRec
    BY <1>1 DEF PruneRec
  <2>2. Prune(p, new) /\ status' = IF closes THEN [status EXCEPT ![s] = "closed"] ELSE status
    BY <1>7 DEF CloseSession
  <2>3. /\ status' \in [Sessions -> {"none", "active", "closed", "gone"}]
        /\ \A t \in Sessions : status'[t] \in {"active", "closed"} => t \in folder
    BY <1>3, <2>2
  <2> HIDE DEF new
  <2> QED
    BY <1>2, <1>7, <2>1, <2>2, <2>3 DEF CloseSession
<1>8. CASE Check(p, s)
  <2>1. [prunes[p] EXCEPT !.stage = "deleting", !.todo = @ \ {s}, !.cur = {s}] \in PruneRec
    BY <1>1 DEF PruneRec, Stages
  <2>2. /\ status' \in [Sessions -> {"none", "active", "closed", "gone"}]
        /\ \A t \in Sessions : status'[t] \in {"active", "closed"} => t \in folder
    BY <1>3, <1>8, ReopenType DEF Check
  <2>3. folder' = folder /\ held' = held /\ UNCHANGED <<touched, spent, left, writeVars, runs, crashes>>
    BY <1>8 DEF Check
  <2>4. PICK new \in PruneRec : Prune(p, new)
    BY <1>5, <1>8, <2>1 DEF Check
  <2> QED
    BY <1>2, <2>2, <2>3, <2>4
<1>9. CASE Delete(p, s)
  <2>1. [prunes[p] EXCEPT !.stage = "removing"] \in PruneRec
    BY <1>1 DEF PruneRec, Stages
  <2>2. /\ status' \in [Sessions -> {"none", "active", "closed", "gone"}]
        /\ \A t \in Sessions : status'[t] \in {"active", "closed"} => t \in folder
    <3>1. CASE RowUnmoved(s)
      BY <1>3, <1>9, <3>1 DEF Delete
    <3>2. CASE ~RowUnmoved(s)
      BY <1>9, <3>2, ReopenType DEF Delete
    <3> QED
      BY <3>1, <3>2
  <2>3. folder' = folder /\ held' \subseteq held /\ UNCHANGED <<touched, spent, left, writeVars, runs, crashes>>
    BY <1>9 DEF Delete
  <2>4. PICK new \in PruneRec : Prune(p, new)
    BY <1>4, <1>9, <2>1 DEF Delete
  <2> QED
    BY <1>2, <2>2, <2>3, <2>4
<1>10. CASE Remove(p, s)
  <2>1. status[s] = "gone"
    BY <1>10 DEF Remove, PruneTrue
  <2>2. folder' \subseteq folder /\ folder \ {s} \subseteq folder'
    BY <1>10 DEF Remove
  <2>3. \A t \in Sessions : status[t] \in {"active", "closed"} => t \in folder'
    BY <1>3, <2>1, <2>2
  <2> QED
    BY <1>2, <1>3, <1>4, <1>10, <2>2, <2>3 DEF Remove
<1> QED
  BY <1>6, <1>7, <1>8, <1>9, <1>10

LEMMA TypeOthers ==
  ASSUME TypeOK,
         \/ \E w \in Writes : Resolve(w) \/ Land(w)
         \/ \E s \in Sessions : Create(s) \/ Hold(s) \/ Answer(s)
         \/ Restart
  PROVE  TypeOK'
<1>1. CASE \E w \in Writes : Resolve(w)
  <2>1. Active # {} => Max(Active) \in Sessions
    BY NewestActive DEF Active
  <2> QED
    BY <1>1, <2>1 DEF Resolve, TypeOK, sessionVars
<1>2. CASE \E w \in Writes : Land(w)
  <2> PICK w \in Writes : Land(w)
    BY <1>2
  <2>1. target[w] \in Sessions
    BY DEF Land, TypeOK
  <2>2. written' \in [Writes -> {"no", "landed", "lost", "cut"}] /\ touched' \subseteq Sessions
    BY <2>1 DEF Land, TypeOK
  <2> QED
    BY <2>2 DEF Land, TypeOK
<1>3. CASE \E s \in Sessions : Create(s) \/ Hold(s) \/ Answer(s)
  <2> PICK s \in Sessions : Create(s) \/ Hold(s) \/ Answer(s)
    BY <1>3
  <2>1. CASE Create(s)
    BY <2>1 DEF Create, TypeOK, writeVars
  <2>2. CASE Hold(s) \/ Answer(s)
    BY <2>2 DEF Hold, Answer, TypeOK, writeVars
  <2> QED
    BY <2>1, <2>2
<1>4. CASE Restart
  <2>1. Idle \in PruneRec
    BY DEF Idle, PruneRec, Stages
  <2>2. prunes' \in [Pruners -> PruneRec]
    BY <1>4, <2>1 DEF Restart
  <2>3. left' \subseteq Sessions
    BY <1>4, InHandType DEF Restart, TypeOK
  <2>4. crashes' \in 0..MaxCrashes
    BY <1>4, RetentionAssumption DEF Restart, TypeOK
  <2>5. written' \in [Writes -> {"no", "landed", "lost", "cut"}]
    BY <1>4 DEF Restart, TypeOK
  <2> QED
    BY <1>4, <2>2, <2>3, <2>4, <2>5 DEF Restart, TypeOK, PruneRec
<1> QED
  BY <1>1, <1>2, <1>3, <1>4

LEMMA TypeKept ==
  ASSUME TypeOK, \A p \in Pruners : PruneTrue(p), [Next]_vars
  PROVE  TypeOK'
<1>1. CASE Next
  <2>1. ASSUME NEW p \in Pruners,
               Start(p) \/ Screened(p) \/ Closed(p) \/ GraceEnds(p) \/ Rebuild(p)
               \/ CheckThrows(p) \/ DeleteThrows(p) \/ Finish(p)
        PROVE  TypeOK'
    BY <2>1, TypePruning
  <2>2. ASSUME NEW p \in Pruners, NEW s \in Sessions,
               Screen(p, s) \/ CloseSession(p, s) \/ Check(p, s) \/ Delete(p, s) \/ Remove(p, s)
        PROVE  TypeOK'
    BY <2>2, TypeSession
  <2> QED
    BY <1>1, <2>1, <2>2, TypeOthers DEF Next
<1>2. CASE UNCHANGED vars
  BY <1>2 DEF vars, TypeOK
<1> QED
  BY <1>1, <1>2

-----------------------------------------------------------------------------
(* A step of a prune.                                                      *)

\* A row that has gone never comes back.
LEMMA GoneStays ==
  ASSUME TypeOK, [Next]_vars, NEW s \in Sessions, status[s] = "gone"
  PROVE  status'[s] = "gone"
<1>1. CASE Next
  <2>1. ASSUME NEW p \in Pruners,
               Start(p) \/ Screened(p) \/ Closed(p) \/ GraceEnds(p) \/ Rebuild(p)
               \/ CheckThrows(p) \/ DeleteThrows(p) \/ Finish(p)
        PROVE  status' = status
    BY <2>1 DEF Start, Screened, Closed, GraceEnds, Rebuild, CheckThrows, DeleteThrows, Finish,
                sessionVars
  <2>2. ASSUME NEW p \in Pruners, NEW t \in Sessions,
               Screen(p, t) \/ CloseSession(p, t) \/ Check(p, t) \/ Delete(p, t) \/ Remove(p, t)
        PROVE  status'[s] = "gone"
    BY <2>2 DEF Screen, CloseSession, Check, Delete, Remove, Reopen, RowUnmoved, sessionVars, TypeOK
  <2>3. ASSUME \/ \E w \in Writes : Resolve(w) \/ Land(w)
               \/ \E t \in Sessions : Create(t) \/ Hold(t) \/ Answer(t)
               \/ Restart
        PROVE  status'[s] = "gone"
    BY <2>3 DEF Resolve, Land, Create, Hold, Answer, Restart, sessionVars, TypeOK
  <2> QED
    BY <1>1, <2>1, <2>2, <2>3 DEF Next
<1>2. CASE UNCHANGED vars
  BY <1>2 DEF vars
<1> QED
  BY <1>1, <1>2

\* What a step of one prune has to show of it, for all of them.
LEMMA PruneStep ==
  ASSUME TypeOK, GivenBack, \A q \in Pruners : PruneTrue(q),
         \A s \in Sessions : status[s] = "gone" => status'[s] = "gone",
         NEW p \in Pruners, NEW new \in PruneRec, Prune(p, new), PruneTrue(p)',
         spent' = spent, left \subseteq left',
         \A s \in Sessions :
           status'[s] = "closed" /\ s \notin left' /\ (status[s] # "closed" \/ s \in InHand(p))
             => s \in InHand(p)'
  PROVE  (\A q \in Pruners : PruneTrue(q)') /\ GivenBack'
<1>1. \A q \in Pruners : q # p => prunes'[q] = prunes[q]
  BY PruneType
<1>2. ASSUME NEW q \in Pruners, q # p PROVE PruneTrue(q)' /\ InHand(q)' = InHand(q)
  BY <1>1, <1>2 DEF PruneTrue, Stage, InHand, TypeOK
<1>3. ASSUME NEW s \in Sessions, status'[s] = "closed", s \notin spent' \cup left'
      PROVE  \E q \in Pruners : s \in InHand(q)'
  <2>1. CASE status[s] # "closed"
    BY <1>3, <2>1
  <2>2. CASE status[s] = "closed"
    <3>1. PICK q \in Pruners : s \in InHand(q)
      BY <1>3, <2>2 DEF GivenBack
    <3> QED
      BY <1>2, <1>3, <3>1
  <2> QED
    BY <2>1, <2>2
<1> QED
  BY <1>2, <1>3 DEF GivenBack

\* The hypotheses of PruneStep that hold of every step.
Before(p) == /\ TypeOK /\ GivenBack /\ \A q \in Pruners : PruneTrue(q)
             /\ \A s \in Sessions : status[s] = "gone" => status'[s] = "gone"
             /\ prunes[p] \in PruneRec
After == (\A q \in Pruners : PruneTrue(q)') /\ GivenBack'

\* The steps of a run from its start to its second context.
LEMMA ScreensTrue ==
  ASSUME NEW p \in Pruners, Before(p),
         Start(p) \/ Screened(p) \/ Closed(p) \/ GraceEnds(p) \/ Rebuild(p)
  PROVE  After
<1> USE PruneType DEF Before
<1>1. PruneTrue(p)
  OBVIOUS
<1>2. CASE Start(p)
  <2> DEFINE new == [Idle EXCEPT !.stage = "screening", !.held = held, !.keep = Continuation,
                                 !.todo = {s \in Sessions : status[s] \in {"active", "closed"}}]
  <2>1. new \in PruneRec
    BY ContinuationType DEF TypeOK, Idle, PruneRec, Stages
  <2>2. new.stage = "screening" /\ new.closedHere = {} /\ new.cur = {} /\ new.eligible = {}
    BY DEF Idle
  <2>3. Prune(p, new) /\ UNCHANGED sessionVars
    BY <1>2 DEF Start
  <2> HIDE DEF new
  <2>4. prunes'[p] = new
    BY <2>1, <2>3
  <2>5. PruneTrue(p)'
    BY <2>2, <2>4 DEF PruneTrue, Stage
  <2>6. InHand(p) = {}
    BY <1>1, <1>2 DEF Start, PruneTrue, InHand
  <2> QED
    BY <2>1, <2>3, <2>5, <2>6, PruneStep DEF sessionVars, After
<1>3. CASE Screened(p)
  <2> DEFINE new == [prunes[p] EXCEPT !.stage = "closing", !.todo = prunes[p].eligible]
  <2>1. new \in PruneRec
    BY DEF PruneRec, Stages
  <2>2. /\ new.stage = "closing" /\ new.closedHere = prunes[p].closedHere /\ new.cur = prunes[p].cur
        /\ new.eligible = prunes[p].eligible /\ new.todo = prunes[p].eligible
    BY DEF PruneRec
  <2>3. Prune(p, new) /\ UNCHANGED sessionVars /\ Stage(p) = "screening"
    BY <1>3 DEF Screened
  <2> HIDE DEF new
  <2>4. prunes'[p] = new
    BY <2>1, <2>3
  <2>5. PruneTrue(p)'
    BY <1>1, <2>2, <2>3, <2>4 DEF PruneTrue, Stage
  <2>6. InHand(p) = {}
    BY <1>1, <2>3 DEF PruneTrue, InHand
  <2> QED
    BY <2>1, <2>3, <2>5, <2>6, PruneStep DEF sessionVars, After
<1>4. CASE Closed(p)
  <2> DEFINE new == [prunes[p] EXCEPT !.stage = IF prunes[p].closedHere = {} THEN "rebuild" ELSE "grace"]
  <2>1. new \in PruneRec
    BY DEF PruneRec, Stages
  <2>2. /\ new.stage \in {"rebuild", "grace"}
        /\ new.closedHere = prunes[p].closedHere /\ new.cur = prunes[p].cur
        /\ new.eligible = prunes[p].eligible
    BY DEF PruneRec
  <2>3. Prune(p, new) /\ UNCHANGED sessionVars /\ Stage(p) = "closing"
    BY <1>4 DEF Closed
  <2> HIDE DEF new
  <2>4. prunes'[p] = new
    BY <2>1, <2>3
  <2>5. PruneTrue(p)' /\ InHand(p) \subseteq InHand(p)'
    BY <1>1, <2>2, <2>3, <2>4 DEF PruneTrue, Stage, InHand
  <2> QED
    BY <2>1, <2>3, <2>5, PruneStep DEF sessionVars, After
<1>5. CASE GraceEnds(p)
  <2> DEFINE new == [prunes[p] EXCEPT !.stage = "rebuild"]
  <2>1. new \in PruneRec
    BY DEF PruneRec, Stages
  <2>2. /\ new.stage = "rebuild"
        /\ new.closedHere = prunes[p].closedHere /\ new.cur = prunes[p].cur
        /\ new.eligible = prunes[p].eligible
    BY DEF PruneRec
  <2>3. Prune(p, new) /\ UNCHANGED sessionVars /\ Stage(p) = "grace"
    BY <1>5 DEF GraceEnds
  <2> HIDE DEF new
  <2>4. prunes'[p] = new
    BY <2>1, <2>3
  <2>5. PruneTrue(p)' /\ InHand(p) \subseteq InHand(p)'
    BY <1>1, <2>2, <2>3, <2>4 DEF PruneTrue, Stage, InHand
  <2> QED
    BY <2>1, <2>3, <2>5, PruneStep DEF sessionVars, After
<1>6. CASE Rebuild(p)
  <2> DEFINE new == [prunes[p] EXCEPT !.stage = "checking", !.held = held, !.keep = Continuation,
                                      !.todo = prunes[p].eligible]
  <2>1. new \in PruneRec
    BY ContinuationType DEF TypeOK, PruneRec, Stages
  <2>2. /\ new.stage = "checking" /\ new.todo = prunes[p].eligible
        /\ new.closedHere = prunes[p].closedHere /\ new.cur = prunes[p].cur
        /\ new.eligible = prunes[p].eligible
    BY DEF PruneRec
  <2>3. Prune(p, new) /\ UNCHANGED sessionVars /\ Stage(p) = "rebuild"
    BY <1>6 DEF Rebuild
  <2> HIDE DEF new
  <2>4. prunes'[p] = new
    BY <2>1, <2>3
  <2>5. PruneTrue(p)' /\ InHand(p) \subseteq InHand(p)'
    BY <1>1, <2>2, <2>3, <2>4 DEF PruneTrue, Stage, InHand
  <2> QED
    BY <2>1, <2>3, <2>5, PruneStep DEF sessionVars, After
<1> QED
  BY <1>2, <1>3, <1>4, <1>5, <1>6

\* A run that ends or fails.
LEMMA EndsTrue ==
  ASSUME NEW p \in Pruners, Before(p),
         CheckThrows(p) \/ DeleteThrows(p) \/ Finish(p)
  PROVE  After
<1> USE PruneType DEF Before
<1>1. PruneTrue(p) /\ left \subseteq Sessions
  BY DEF TypeOK
<1>2. CASE CheckThrows(p) \/ Finish(p)
  <2>1. Idle \in PruneRec
    BY DEF Idle, PruneRec, Stages
  <2>2. Idle.stage = "off" /\ Idle.closedHere = {} /\ Idle.cur = {} /\ Idle.eligible = {}
    BY DEF Idle
  <2>3. Prune(p, Idle) /\ status' = status /\ spent' = spent /\ left \subseteq left'
    BY <1>2 DEF CheckThrows, Finish, sessionVars
  <2>4. prunes'[p] = Idle
    BY <2>1, <2>3
  <2>5. PruneTrue(p)'
    BY <2>2, <2>4 DEF PruneTrue, Stage
  <2>6. InHand(p) \subseteq left'
    BY <1>1, <1>2 DEF CheckThrows, Finish, PruneTrue, InHand
  <2> QED
    BY <2>1, <2>3, <2>5, <2>6, PruneStep DEF After
<1>3. CASE DeleteThrows(p)
  <2> DEFINE new == [prunes[p] EXCEPT !.stage = "checking", !.cur = {}]
  <2>1. new \in PruneRec
    BY DEF PruneRec, Stages
  <2>2. /\ new.stage = "checking" /\ new.todo = prunes[p].todo /\ new.cur = {}
        /\ new.closedHere = prunes[p].closedHere /\ new.eligible = prunes[p].eligible
    BY DEF PruneRec
  <2>3. /\ Prune(p, new) /\ status' = status /\ spent' = spent /\ Stage(p) = "deleting"
        /\ left' = left \cup (prunes[p].cur \cap prunes[p].closedHere)
    BY <1>3 DEF DeleteThrows
  <2> HIDE DEF new
  <2>4. prunes'[p] = new
    BY <2>1, <2>3
  <2>5. PruneTrue(p)' /\ InHand(p) \ left' \subseteq InHand(p)'
    BY <1>1, <2>2, <2>3, <2>4 DEF PruneTrue, Stage, InHand
  <2> QED
    BY <2>1, <2>3, <2>5, PruneStep DEF After
<1> QED
  BY <1>2, <1>3

\* A session is screened, or closed.
LEMMA ClosesTrue ==
  ASSUME NEW p \in Pruners, NEW s \in Sessions, Before(p),
         Screen(p, s) \/ CloseSession(p, s)
  PROVE  After
<1> USE PruneType DEF Before
<1>1. PruneTrue(p) /\ status \in [Sessions -> {"none", "active", "closed", "gone"}]
  BY DEF TypeOK
<1>2. CASE Screen(p, s)
  <2>1. PICK eligible \in BOOLEAN :
          Prune(p, [prunes[p] EXCEPT !.todo = @ \ {s},
                                     !.eligible = IF eligible THEN @ \cup {s} ELSE @])
    BY <1>2 DEF Screen, MayGo
  <2> DEFINE new == [prunes[p] EXCEPT !.todo = @ \ {s},
                                      !.eligible = IF eligible THEN @ \cup {s} ELSE @]
  <2>2. new \in PruneRec
    BY DEF PruneRec
  <2>3. new.stage = prunes[p].stage /\ new.closedHere = prunes[p].closedHere /\ new.cur = prunes[p].cur
    BY DEF PruneRec
  <2>4. Prune(p, new) /\ UNCHANGED sessionVars /\ Stage(p) = "screening"
    BY <1>2, <2>1 DEF Screen
  <2> HIDE DEF new
  <2>5. prunes'[p] = new
    BY <2>2, <2>4
  <2>6. PruneTrue(p)' /\ InHand(p) = {}
    BY <1>1, <2>3, <2>4, <2>5 DEF PruneTrue, Stage, InHand
  <2> QED
    BY <2>2, <2>4, <2>6, PruneStep DEF sessionVars, After
<1>3. CASE CloseSession(p, s)
  <2> DEFINE closes == status[s] = "active" /\ s \notin touched
             new == [prunes[p] EXCEPT !.todo = @ \ {s},
                                      !.closedHere = IF closes THEN @ \cup {s} ELSE @]
  <2>1. new \in PruneRec
    BY DEF PruneRec
  <2>2. /\ new.stage = prunes[p].stage /\ new.cur = prunes[p].cur /\ new.todo = prunes[p].todo \ {s}
        /\ new.closedHere = IF closes THEN prunes[p].closedHere \cup {s} ELSE prunes[p].closedHere
        /\ new.eligible = prunes[p].eligible
    BY DEF PruneRec
  <2>3. /\ Prune(p, new) /\ Stage(p) = "closing" /\ s \in prunes[p].todo
        /\ status' = IF closes THEN [status EXCEPT ![s] = "closed"] ELSE status
        /\ UNCHANGED <<spent, left>>
    BY <1>3 DEF CloseSession
  <2> HIDE DEF new
  <2>4. prunes'[p] = new
    BY <2>1, <2>3
  <2>5. PruneTrue(p)' /\ InHand(p) \subseteq InHand(p)'
    BY <1>1, <2>2, <2>3, <2>4 DEF PruneTrue, Stage, InHand
  <2>6. ASSUME NEW t \in Sessions, status'[t] = "closed", status[t] # "closed"
        PROVE  t \in InHand(p)'
    <3>1. t = s /\ closes
      BY <1>1, <2>3, <2>6
    <3> QED
      BY <2>2, <2>3, <2>4, <3>1 DEF Stage, InHand
  <2> QED
    BY <2>1, <2>3, <2>5, <2>6, PruneStep DEF After
<1> QED
  BY <1>2, <1>3

\* A session is looked at again, deleted or given back.
LEMMA ChecksTrue ==
  ASSUME NEW p \in Pruners, NEW s \in Sessions, Before(p), Check(p, s)
  PROVE  After
<1> USE PruneType DEF Before
<1>1. /\ PruneTrue(p) /\ Stage(p) = "checking" /\ s \in prunes[p].todo
      /\ status \in [Sessions -> {"none", "active", "closed", "gone"}]
      /\ UNCHANGED <<spent, left>>
  BY DEF TypeOK, Check
<1>2. CASE ~(status[s] = "closed" /\ MayGo(p, s))
  <2> DEFINE new == [prunes[p] EXCEPT !.todo = @ \ {s}]
  <2>1. new \in PruneRec
    BY DEF PruneRec
  <2>2. /\ new.stage = prunes[p].stage /\ new.cur = prunes[p].cur /\ new.todo = prunes[p].todo \ {s}
        /\ new.closedHere = prunes[p].closedHere /\ new.eligible = prunes[p].eligible
    BY DEF PruneRec
  <2>3. Prune(p, new) /\ (status' = status \/ Reopen(p, s))
    BY <1>2 DEF Check
  <2> HIDE DEF new
  <2>4. prunes'[p] = new
    BY <2>1, <2>3
  <2>5. PruneTrue(p)' /\ InHand(p) \ {s} \subseteq InHand(p)'
    BY <1>1, <2>2, <2>4 DEF PruneTrue, Stage, InHand
  <2>6. \A t \in Sessions : status'[t] = "closed" => status[t] = "closed"
    BY <1>1, <2>3, ReopenType
  <2>7. status'[s] = "closed" => s \notin prunes[p].closedHere
    <3>1. CASE status[s] # "closed"
      BY <2>6, <3>1
    <3>2. CASE status[s] = "closed"
      BY <1>1, <1>2, <3>2, ReopenType DEF Check
    <3> QED
      BY <3>1, <3>2
  <2>8. \A t \in Sessions : status'[t] = "closed" /\ t \in InHand(p) => t \in InHand(p)'
    BY <2>5, <2>7 DEF InHand
  <2> QED
    BY <1>1, <2>1, <2>3, <2>5, <2>6, <2>8, PruneStep DEF After
<1>3. CASE status[s] = "closed" /\ MayGo(p, s)
  <2> DEFINE new == [prunes[p] EXCEPT !.stage = "deleting", !.todo = @ \ {s}, !.cur = {s}]
  <2>1. new \in PruneRec
    BY DEF PruneRec, Stages
  <2>2. /\ new.stage = "deleting" /\ new.cur = {s} /\ new.todo = prunes[p].todo \ {s}
        /\ new.closedHere = prunes[p].closedHere /\ new.eligible = prunes[p].eligible
        /\ new.held = prunes[p].held
    BY DEF PruneRec
  <2>3. Prune(p, new) /\ status' = status /\ s \notin prunes[p].held
    BY <1>3 DEF Check, MayGo
  <2> HIDE DEF new
  <2>4. prunes'[p] = new
    BY <2>1, <2>3
  <2>5. PruneTrue(p)' /\ InHand(p) \subseteq InHand(p)'
    BY <1>1, <2>2, <2>3, <2>4 DEF PruneTrue, Stage, InHand
  <2> QED
    BY <1>1, <2>1, <2>3, <2>5, PruneStep DEF After
<1> QED
  BY <1>2, <1>3

LEMMA DeletesTrue ==
  ASSUME NEW p \in Pruners, NEW s \in Sessions, Before(p), Delete(p, s) \/ Remove(p, s)
  PROVE  After
<1> USE PruneType DEF Before
<1>1. /\ PruneTrue(p) /\ prunes[p].cur = {s}
      /\ status \in [Sessions -> {"none", "active", "closed", "gone"}]
      /\ UNCHANGED <<spent, left>>
  BY DEF TypeOK, Delete, Remove
<1> DEFINE back == [prunes[p] EXCEPT !.stage = "checking", !.cur = {}]
<1>2. back \in PruneRec
  BY DEF PruneRec, Stages
<1>3. /\ back.stage = "checking" /\ back.cur = {} /\ back.todo = prunes[p].todo
      /\ back.closedHere = prunes[p].closedHere /\ back.eligible = prunes[p].eligible
  BY DEF PruneRec
<1> HIDE DEF back
<1>4. ASSUME Prune(p, back), Stage(p) \in {"deleting", "removing"}
      PROVE  PruneTrue(p)' /\ InHand(p) \ {s} \subseteq InHand(p)'
  <2>1. prunes'[p] = back
    BY <1>2, <1>4
  <2> QED
    BY <1>1, <1>3, <1>4, <2>1 DEF PruneTrue, Stage, InHand
<1>5. CASE Delete(p, s) /\ RowUnmoved(s)
  <2> DEFINE new == [prunes[p] EXCEPT !.stage = "removing"]
  <2>1. new \in PruneRec
    BY DEF PruneRec, Stages
  <2>2. /\ new.stage = "removing" /\ new.cur = {s} /\ new.todo = prunes[p].todo
        /\ new.closedHere = prunes[p].closedHere /\ new.eligible = prunes[p].eligible
    BY <1>1 DEF PruneRec
  <2>3. Prune(p, new) /\ status' = [status EXCEPT ![s] = "gone"] /\ Stage(p) = "deleting"
    BY <1>5 DEF Delete
  <2> HIDE DEF new
  <2>4. prunes'[p] = new
    BY <2>1, <2>3
  <2>5. PruneTrue(p)' /\ InHand(p) \subseteq InHand(p)'
    BY <1>1, <2>2, <2>3, <2>4 DEF PruneTrue, Stage, InHand
  <2>6. \A t \in Sessions : status'[t] = "closed" => status[t] = "closed"
    BY <1>1, <2>3
  <2> QED
    BY <1>1, <2>1, <2>3, <2>5, <2>6, PruneStep DEF After
<1>6. CASE Delete(p, s) /\ ~RowUnmoved(s)
  <2>1. Prune(p, back) /\ Stage(p) = "deleting" /\ Reopen(p, s)
    BY <1>6 DEF Delete, back
  <2>2. /\ \A t \in Sessions : status'[t] = "closed" => status[t] = "closed"
        /\ status'[s] = "closed" => s \notin prunes[p].closedHere
    BY <2>1, ReopenType
  <2>3. \A t \in Sessions : status'[t] = "closed" /\ t \in InHand(p) => t \in InHand(p)'
    BY <1>4, <2>1, <2>2 DEF InHand
  <2> QED
    BY <1>1, <1>2, <1>4, <2>1, <2>2, <2>3, PruneStep DEF After
<1>7. CASE Remove(p, s)
  <2>1. Prune(p, back) /\ Stage(p) = "removing" /\ status' = status
    BY <1>7 DEF Remove, back
  <2>2. status[s] = "gone"
    BY <1>1, <2>1 DEF PruneTrue
  <2>3. \A t \in Sessions : status'[t] = "closed" /\ t \in InHand(p) => t \in InHand(p)'
    BY <1>4, <2>1, <2>2
  <2> QED
    BY <1>1, <1>2, <1>4, <2>1, <2>3, PruneStep DEF After
<1> QED
  BY <1>5, <1>6, <1>7

\* The rest of the host: no prune moves, and no row is closed.
LEMMA OthersTrue ==
  ASSUME TypeOK, GivenBack, \A q \in Pruners : PruneTrue(q),
         \/ \E w \in Writes : Resolve(w) \/ Land(w)
         \/ \E s \in Sessions : Create(s) \/ Hold(s) \/ Answer(s)
  PROVE  After
<1>1. /\ UNCHANGED <<prunes, spent, left>>
      /\ \A s \in Sessions : status'[s] = "closed" => status[s] = "closed"
      /\ \A s \in Sessions : status[s] = "gone" => status'[s] = "gone"
  BY DEF Resolve, Land, Create, Hold, Answer, sessionVars, TypeOK
<1>2. ASSUME NEW q \in Pruners PROVE PruneTrue(q)' /\ InHand(q)' = InHand(q)
  BY <1>1 DEF PruneTrue, Stage, InHand, TypeOK
<1>3. GivenBack'
  BY <1>1, <1>2 DEF GivenBack
<1> QED
  BY <1>2, <1>3 DEF After

\* A restart forgets the prunes; what they had in hand is left.
LEMMA RestartTrue ==
  ASSUME TypeOK, GivenBack, \A q \in Pruners : PruneTrue(q), Restart
  PROVE  After
<1>1. \A q \in Pruners : prunes'[q] = Idle
  BY DEF Restart
<1>2. ASSUME NEW q \in Pruners PROVE PruneTrue(q)'
  BY <1>1 DEF PruneTrue, Stage, Idle
<1>3. GivenBack'
  BY DEF Restart, GivenBack
<1> QED
  BY <1>2, <1>3 DEF After

-----------------------------------------------------------------------------
(* The invariant, and what follows from it.                                *)

LEMMA InvariantStarts == Init => IInv
<1> SUFFICES ASSUME Init PROVE IInv
  OBVIOUS
<1> USE RetentionAssumption DEF Init
<1>1. Idle \in PruneRec
  BY DEF Idle, PruneRec, Stages
<1>2. prunes \in [Pruners -> PruneRec]
  BY <1>1
<1>3. \A p \in Pruners : prunes[p] = Idle
  OBVIOUS
<1>4. TypeOK
  BY <1>2 DEF TypeOK, PruneRec
<1>5. \A p \in Pruners : PruneTrue(p)
  BY <1>3 DEF PruneTrue, Stage, Idle
<1>6. GivenBack
  BY DEF GivenBack
<1> QED
  BY <1>4, <1>5, <1>6 DEF IInv

LEMMA InvariantKept ==
  ASSUME IInv, [Next]_vars
  PROVE  IInv'
<1>1. TypeOK'
  BY TypeKept DEF IInv
<1>2. ASSUME NEW p \in Pruners PROVE Before(p)
  BY GoneStays DEF IInv, Before, TypeOK, PruneRec
<1>3. CASE Next
  <2>1. ASSUME NEW p \in Pruners,
               Start(p) \/ Screened(p) \/ Closed(p) \/ GraceEnds(p) \/ Rebuild(p)
        PROVE  After
    BY <1>2, <2>1, ScreensTrue
  <2>2. ASSUME NEW p \in Pruners, CheckThrows(p) \/ DeleteThrows(p) \/ Finish(p)
        PROVE  After
    BY <1>2, <2>2, EndsTrue
  <2>3. ASSUME NEW p \in Pruners, NEW s \in Sessions,
               Screen(p, s) \/ CloseSession(p, s) \/ Check(p, s) \/ Delete(p, s) \/ Remove(p, s)
        PROVE  After
    BY <1>2, <2>3, ClosesTrue, ChecksTrue, DeletesTrue
  <2>4. ASSUME \/ \E w \in Writes : Resolve(w) \/ Land(w)
               \/ \E s \in Sessions : Create(s) \/ Hold(s) \/ Answer(s)
        PROVE  After
    BY <2>4, OthersTrue DEF IInv
  <2>5. ASSUME Restart PROVE After
    BY <2>5, RestartTrue DEF IInv
  <2>6. After
    BY <1>3, <2>1, <2>2, <2>3, <2>4, <2>5 DEF Next
  <2> QED
    BY <1>1, <2>6 DEF IInv, After
<1>4. CASE UNCHANGED vars
  <2>1. \A q \in Pruners : PruneTrue(q)' /\ InHand(q)' = InHand(q)
    BY <1>4 DEF vars, IInv, PruneTrue, Stage, InHand
  <2>2. GivenBack'
    BY <1>4, <2>1 DEF vars, IInv, GivenBack
  <2> QED
    BY <1>1, <2>1, <2>2 DEF IInv
<1> QED
  BY <1>3, <1>4

\* Each reachable state of sessions, writes and prunes is well typed, and a
\* row's files are there as long as the row is.
THEOREM RetentionTypeCorrect == Spec => []TypeOK
<1>1. IInv => TypeOK
  BY DEF IInv
<1> QED
  BY <1>1, InvariantStarts, InvariantKept, PTL DEF Spec

\* Whatever prunes overlap, fail or are cut short, a session that is closed was
\* spent, is in the hand of a run that will give it back or delete it, or was
\* left by one that failed on it (reopenSession, session-retention.ts:370, 492).
THEOREM AlwaysGivenBack == Spec => []GivenBack
<1>1. IInv => GivenBack
  BY DEF IInv
<1> QED
  BY <1>1, InvariantStarts, InvariantKept, PTL DEF Spec

\* A row goes only by a run that has it in hand, that saw nothing waiting on it
\* in its second context, and only if nobody used it since (deleteCentralRows,
\* session-retention.ts:375).
THEOREM OnlyIdleRemoved == Spec => RemovedIdle
<1>1. ASSUME IInv, Next, NEW s \in Sessions, status[s] # "gone", status'[s] = "gone"
      PROVE  /\ s \notin touched
             /\ \E p \in Pruners : prunes[p].cur = {s} /\ s \notin prunes[p].held
  <2>1. TypeOK /\ \A p \in Pruners : PruneTrue(p)
    BY <1>1 DEF IInv
  <2>2. ASSUME NEW p \in Pruners,
               Start(p) \/ Screened(p) \/ Closed(p) \/ GraceEnds(p) \/ Rebuild(p)
               \/ CheckThrows(p) \/ DeleteThrows(p) \/ Finish(p)
        PROVE  status' = status
    BY <2>2 DEF Start, Screened, Closed, GraceEnds, Rebuild, CheckThrows, DeleteThrows, Finish,
                sessionVars
  <2>3. ASSUME \/ \E w \in Writes : Resolve(w) \/ Land(w)
               \/ \E t \in Sessions : Create(t) \/ Hold(t) \/ Answer(t)
               \/ Restart
        PROVE  FALSE
    BY <1>1, <2>1, <2>3 DEF Resolve, Land, Create, Hold, Answer, Restart, sessionVars, TypeOK
  <2>4. ASSUME NEW p \in Pruners, NEW t \in Sessions, Screen(p, t) \/ CloseSession(p, t) \/ Remove(p, t)
        PROVE  FALSE
    BY <1>1, <2>1, <2>4 DEF Screen, CloseSession, Remove, sessionVars, TypeOK
  <2>5. ASSUME NEW p \in Pruners, NEW t \in Sessions, Check(p, t)
        PROVE  FALSE
    BY <1>1, <2>1, <2>5, ReopenType DEF Check
  <2>6. ASSUME NEW p \in Pruners, NEW t \in Sessions, Delete(p, t)
        PROVE  /\ s = t /\ s \notin touched
               /\ prunes[p].cur = {s} /\ s \notin prunes[p].held
    <3>1. CASE ~RowUnmoved(t)
      BY <1>1, <2>1, <2>6, <3>1, ReopenType DEF Delete
    <3>2. CASE RowUnmoved(t)
      <4>1. s = t
        BY <1>1, <2>1, <2>6, <3>2 DEF Delete, TypeOK
      <4> QED
        BY <2>1, <2>6, <3>2, <4>1 DEF Delete, RowUnmoved, PruneTrue
    <3> QED
      BY <3>1, <3>2
  <2> QED
    BY <1>1, <2>2, <2>3, <2>4, <2>5, <2>6 DEF Next
<1>2. IInv /\ [Next]_vars => [\A s \in Sessions :
        (status[s] # "gone" /\ status'[s] = "gone") =>
          /\ s \notin touched
          /\ \E p \in Pruners : prunes[p].cur = {s} /\ s \notin prunes[p].held]_vars
  BY <1>1
<1> QED
  BY <1>2, InvariantStarts, InvariantKept, PTL DEF Spec, RemovedIdle

-----------------------------------------------------------------------------
(* The writes.                                                             *)

\* A session another prune waits for.
AwaitedBesides(p, s) ==
  \E q \in Pruners \ {p} : s \in prunes[q].closedHere /\ Stage(q) \in {"closing", "grace"}

LEMMA OthersWait ==
  ASSUME TypeOK, NEW p \in Pruners, NEW new, Prune(p, new),
         NEW s, status'[s] = "closed", AwaitedBesides(p, s)
  PROVE  Safe(s)'
<1>1. PICK q \in Pruners \ {p} : s \in prunes[q].closedHere /\ Stage(q) \in {"closing", "grace"}
  BY DEF AwaitedBesides
<1>2. prunes'[q] = prunes[q]
  BY DEF Prune, TypeOK
<1> QED
  BY <1>1, <1>2 DEF Safe, Awaited, Stage

\* The steps of a prune that close and open no session: the prune waits for
\* what it waited for, or has waited.
LEMMA SafeWaiting ==
  ASSUME TypeOK, NEW p \in Pruners, NEW new, Prune(p, new), status' = status,
         NEW s, Safe(s),
         s \in prunes[p].closedHere /\ Stage(p) \in {"closing", "grace"} =>
           s \in new.closedHere /\ new.stage \in {"closing", "grace"}
  PROVE  Safe(s)'
<1>1. prunes'[p] = new
  BY DEF Prune, TypeOK
<1>2. CASE status[s] = "active"
  BY <1>2 DEF Safe
<1>3. CASE status[s] # "active"
  <2>1. status[s] = "closed" /\ status'[s] = "closed"
    BY <1>3 DEF Safe, Awaited
  <2>2. CASE AwaitedBesides(p, s)
    BY <2>1, <2>2, OthersWait
  <2>3. CASE s \in prunes[p].closedHere /\ Stage(p) \in {"closing", "grace"}
    BY <1>1, <2>1, <2>3 DEF Safe, Awaited, Stage
  <2> QED
    BY <1>3, <2>2, <2>3 DEF Safe, Awaited, AwaitedBesides
<1> QED
  BY <1>2, <1>3

LEMMA PrunesSafe ==
  ASSUME TypeOK, NEW p \in Pruners, PruneTrue(p), NEW s \in Sessions, Pending(s), Safe(s),
         Start(p) \/ Screened(p) \/ Closed(p) \/ GraceEnds(p) \/ Rebuild(p)
         \/ CheckThrows(p) \/ DeleteThrows(p) \/ Finish(p)
  PROVE  Safe(s)'
<1>1. prunes[p] \in PruneRec
  BY DEF TypeOK, PruneRec
<1>2. status' = status
  BY DEF Start, Screened, Closed, GraceEnds, Rebuild, CheckThrows, DeleteThrows, Finish, sessionVars
<1>3. CASE Closed(p)
  <2> DEFINE new == [prunes[p] EXCEPT !.stage = IF prunes[p].closedHere = {} THEN "rebuild" ELSE "grace"]
  <2>1. /\ new \in PruneRec /\ new.closedHere = prunes[p].closedHere
        /\ new.stage = IF prunes[p].closedHere = {} THEN "rebuild" ELSE "grace"
    BY <1>1 DEF PruneRec, Stages
  <2>2. Prune(p, new)
    BY <1>3 DEF Closed
  <2> HIDE DEF new
  <2> QED
    BY <1>2, <2>1, <2>2, SafeWaiting
<1>4. CASE ~Closed(p)
  <2>1. ~(s \in prunes[p].closedHere /\ Stage(p) \in {"closing", "grace"})
    BY <1>4 DEF Start, Screened, GraceEnds, Rebuild, CheckThrows, DeleteThrows, Finish,
                PruneTrue, Landed, Pending
  <2>2. \E new : Prune(p, new)
    BY <1>4 DEF Start, Screened, GraceEnds, Rebuild, CheckThrows, DeleteThrows, Finish
  <2> QED
    BY <1>2, <2>1, <2>2, SafeWaiting
<1> QED
  BY <1>3, <1>4

\* Screens and removals close nothing; a close is by a prune that will wait;
\* a check gives back; a deletion is of a session that nobody waits for.
LEMMA SessionsSafe ==
  ASSUME TypeOK, OneAtATime, NEW p \in Pruners, NEW t \in Sessions, PruneTrue(p),
         Screen(p, t) \/ CloseSession(p, t) \/ Check(p, t) \/ Delete(p, t) \/ Remove(p, t),
         NEW s \in Sessions, Safe(s)
  PROVE  Safe(s)'
<1>1. prunes[p] \in PruneRec /\ status \in [Sessions -> {"none", "active", "closed", "gone"}]
  BY DEF TypeOK, PruneRec
<1>2. CASE Screen(p, t) \/ Remove(p, t)
  <2>1. Stage(p) \notin {"closing", "grace"} /\ status' = status /\ \E new : Prune(p, new)
    BY <1>2 DEF Screen, Remove, sessionVars
  <2> QED
    BY <2>1, SafeWaiting
<1>3. CASE CloseSession(p, t)
  <2> DEFINE closes == status[t] = "active" /\ t \notin touched
             new == [prunes[p] EXCEPT !.todo = @ \ {t},
                                      !.closedHere = IF closes THEN @ \cup {t} ELSE @]
  <2>1. /\ new.stage = prunes[p].stage
        /\ new.closedHere = IF closes THEN prunes[p].closedHere \cup {t} ELSE prunes[p].closedHere
    BY <1>1 DEF PruneRec
  <2>2. /\ Prune(p, new) /\ Stage(p) = "closing"
        /\ status' = IF closes THEN [status EXCEPT ![t] = "closed"] ELSE status
    BY <1>3 DEF CloseSession
  <2> HIDE DEF new
  <2>3. CASE ~closes
    BY <2>1, <2>2, <2>3, SafeWaiting DEF Stage
  <2>4. CASE closes /\ s = t
    <3>1. prunes'[p] = new /\ status'[t] = "closed"
      BY <1>1, <2>2, <2>4 DEF Prune, TypeOK
    <3> QED
      BY <2>1, <2>2, <2>4, <3>1 DEF Safe, Awaited, Stage
  <2>5. CASE closes /\ s # t
    <3>1. prunes'[p] = new /\ status'[s] = status[s] /\ \A q \in Pruners : q # p => prunes'[q] = prunes[q]
      BY <1>1, <2>2, <2>5 DEF Prune, TypeOK
    <3> QED
      BY <2>1, <2>2, <3>1 DEF Safe, Awaited, Stage
  <2> QED
    BY <2>3, <2>4, <2>5
<1>4. CASE Check(p, t) \/ Delete(p, t)
  <2>1. Stage(p) \notin {"closing", "grace"} /\ \E new : Prune(p, new)
    BY <1>4 DEF Check, Delete
  <2>2. CASE status' = status
    BY <2>1, <2>2, SafeWaiting
  <2>3. CASE Reopen(p, t)
    <3>1. status'[s] = status[s] \/ status'[s] = "active"
      BY <2>3, ReopenType
    <3>2. CASE status'[s] = "active"
      BY <3>2 DEF Safe
    <3>3. CASE status'[s] # "active"
      BY <2>1, <3>1, <3>3, OthersWait DEF Safe, Awaited, AwaitedBesides
    <3> QED
      BY <3>2, <3>3
  <2>4. CASE Delete(p, t) /\ RowUnmoved(t)
    <3>1. status' = [status EXCEPT ![t] = "gone"] /\ Stage(p) = "deleting" /\ status[t] = "closed"
      BY <2>4 DEF Delete, RowUnmoved
    <3>2. ~Awaited(t)
      BY <3>1 DEF Awaited, OneAtATime
    <3>3. s # t
      BY <3>1, <3>2 DEF Safe
    <3>4. status'[s] = status[s]
      BY <1>1, <3>1, <3>3
    <3> QED
      BY <2>1, <3>4, OthersWait DEF Safe, Awaited, AwaitedBesides
  <2> QED
    BY <1>4, <2>2, <2>3, <2>4 DEF Check, Delete
<1> QED
  BY <1>2, <1>3, <1>4

\* What may happen to a session and a write.
SafeState == WritesSafe /\ NothingLost

LEMMA OthersSafe ==
  ASSUME TypeOK, SafeState,
         \/ \E w \in Writes : Resolve(w) \/ Land(w)
         \/ \E s \in Sessions : Create(s) \/ Hold(s) \/ Answer(s)
  PROVE  SafeState'
<1>1. prunes' = prunes
  BY DEF Resolve, Land, Create, Hold, Answer
<1>2. ASSUME NEW s, Safe(s), status'[s] = status[s] PROVE Safe(s)'
  BY <1>1, <1>2 DEF Safe, Awaited, Stage
<1>3. ASSUME NEW w \in Writes, Resolve(w) PROVE SafeState'
  <2>1. Max(Active) \in Active /\ status' = status /\ written' = written
        /\ target' = [target EXCEPT ![w] = Max(Active)]
    BY <1>3, NewestActive DEF Resolve, sessionVars
  <2>2. PICK m : m = Max(Active)
    OBVIOUS
  <2>3. ASSUME NEW s \in Sessions, Pending(s)' PROVE Pending(s) \/ s = m
    BY <2>1, <2>2, <2>3 DEF Pending, TypeOK
  <2>4. Safe(m)
    BY <2>1, <2>2 DEF Active, Safe
  <2>5. \A s \in Sessions : Pending(s)' => Safe(s)'
    BY <1>2, <2>1, <2>3, <2>4 DEF SafeState, WritesSafe
  <2> QED
    BY <2>1, <2>5 DEF SafeState, WritesSafe, NothingLost
<1>4. ASSUME NEW w \in Writes, Land(w) PROVE SafeState'
  <2>1. status' = status /\ target' = target /\ written[w] = "no" /\ target[w] \in Sessions
    BY <1>4 DEF Land, TypeOK
  <2>2. status[target[w]] # "gone"
    BY <2>1 DEF SafeState, WritesSafe, Pending, Safe, Awaited
  <2>3. written' = [written EXCEPT ![w] = "landed"]
    BY <1>4, <2>2 DEF Land
  <2>4. \A s \in Sessions : Pending(s)' => Pending(s)
    BY <2>1, <2>3 DEF Pending, TypeOK
  <2>5. \A s \in Sessions : Pending(s)' => Safe(s)'
    BY <1>2, <2>1, <2>4 DEF SafeState, WritesSafe
  <2> QED
    BY <2>3, <2>5 DEF SafeState, WritesSafe, NothingLost, TypeOK
<1>5. ASSUME NEW t \in Sessions, Create(t) \/ Hold(t) \/ Answer(t) PROVE SafeState'
  <2>1. UNCHANGED writeVars /\ \A s \in Sessions : status[s] # "none" => status'[s] = status[s]
    BY <1>5 DEF Create, Hold, Answer, TypeOK
  <2>2. \A s \in Sessions : Pending(s)' => Safe(s)'
    BY <1>2, <2>1 DEF SafeState, WritesSafe, Pending, Safe, Awaited, writeVars
  <2> QED
    BY <2>1, <2>2 DEF SafeState, WritesSafe, NothingLost, writeVars
<1> QED
  BY <1>3, <1>4, <1>5

LEMMA SafeKept ==
  ASSUME IInv, SafeState, OneAtATime, [Next]_vars
  PROVE  SafeState'
<1>1. TypeOK /\ \A p \in Pruners : PruneTrue(p)
  BY DEF IInv
<1>2. ASSUME UNCHANGED writeVars, \A s \in Sessions : Pending(s) /\ Safe(s) => Safe(s)'
      PROVE  SafeState'
  <2>1. \A s \in Sessions : Pending(s)' => Pending(s)
    BY <1>2 DEF Pending, writeVars
  <2> QED
    BY <1>2, <2>1 DEF SafeState, WritesSafe, NothingLost, writeVars
<1>3. CASE Next
  <2>1. ASSUME NEW p \in Pruners,
               Start(p) \/ Screened(p) \/ Closed(p) \/ GraceEnds(p) \/ Rebuild(p)
               \/ CheckThrows(p) \/ DeleteThrows(p) \/ Finish(p)
        PROVE  SafeState'
    <3>1. UNCHANGED writeVars
      BY <2>1 DEF Start, Screened, Closed, GraceEnds, Rebuild, CheckThrows, DeleteThrows, Finish
    <3> QED
      BY <1>1, <1>2, <2>1, <3>1, PrunesSafe
  <2>2. ASSUME NEW p \in Pruners, NEW s \in Sessions,
               Screen(p, s) \/ CloseSession(p, s) \/ Check(p, s) \/ Delete(p, s) \/ Remove(p, s)
        PROVE  SafeState'
    <3>1. UNCHANGED writeVars
      BY <2>2 DEF Screen, CloseSession, Check, Delete, Remove
    <3> QED
      BY <1>1, <1>2, <2>2, <3>1, SessionsSafe
  <2>3. ASSUME Restart PROVE SafeState'
    <3>1. \A s \in Sessions : ~Pending(s)'
      BY <1>1, <2>3, RetentionAssumption DEF Restart, Pending, TypeOK
    <3> QED
      BY <2>3, <3>1 DEF Restart, SafeState, WritesSafe, NothingLost
  <2> QED
    BY <1>1, <1>3, <2>1, <2>2, <2>3, OthersSafe DEF Next
<1>4. CASE UNCHANGED vars
  <2>1. UNCHANGED writeVars /\ \A s \in Sessions : Safe(s) => Safe(s)'
    BY <1>4 DEF vars, writeVars, Safe, Awaited, Stage
  <2> QED
    BY <1>2, <2>1
<1> QED
  BY <1>3, <1>4

\* While prunes do not overlap, no write that had resolved a session finds it
\* deleted: the prune that closes the session first waits for it, and its
\* second screen keeps what the write touched.
THEOREM WritesLand == Spec /\ []OneAtATime => []NothingLost
<1>1. Init => SafeState
  BY RetentionAssumption DEF Init, SafeState, WritesSafe, NothingLost, Pending
<1>2. IInv /\ SafeState /\ OneAtATime /\ [Next]_vars => SafeState'
  BY SafeKept
<1>3. SafeState => NothingLost
  BY DEF SafeState
<1> QED
  BY <1>1, <1>2, <1>3, InvariantStarts, InvariantKept, PTL DEF Spec

\* In particular with a single pruner, the tick.
THEOREM OnePrunerLosesNothing ==
  ASSUME \A p, q \in Pruners : p = q
  PROVE  Spec => []NothingLost
<1>1. OneAtATime
  BY DEF OneAtATime
<1> QED
  BY <1>1, WritesLand, PTL

=============================================================================

--------------------------- MODULE DeliveryProofs ---------------------------
(***************************************************************************)
(* The invariants of Delivery, for any number of rows, sessions, rooms,    *)
(* contents, attempts and restarts.                                        *)
(*                                                                         *)
(* Rows of the same content share an entry, so nothing can be said of one  *)
(* row's messages: everything is counted by key.  Base says what holds of  *)
(* each row, entry, call and pass by itself.  NeverLost and Complete       *)
(* follow from Enough: there is a message of each part for every row that  *)
(* deliver answered for, and one more while some call or entry says that   *)
(* the part is stored.  RetrySafe follows from NotTwice, the same count    *)
(* from above: a message for every row marked and every crash, and one     *)
(* more only while it is remembered for a row still tried.  To keep it     *)
(* through a replay, Before counts what a probe overlooks because it was   *)
(* stored before the row, and Wanting what a pass about to store may add.  *)
(***************************************************************************)
EXTENDS Delivery, FiniteSetTheorems, SequenceTheorems, TLAPS

Texts == {c.text : c \in Contents} \cup {NoText}
Keys  == Sessions \X Rooms \X Texts \X (0..MaxFiles)
Entry == [key : Keys, text : BOOLEAN, files : 0..MaxFiles]
Stages == {"idle", "room", "begin", "text", "file", "return"}
Call   == [row : Rows \cup {NoRow}, stage : Stages, text : BOOLEAN, files : 0..MaxFiles]
PassStages == {"idle", "sessions", "rows", "probe", "store"}
Pass   == [stage : PassStages, listed : SUBSET Sessions, old : SUBSET Rows,
           todo : SUBSET Rows, settled : SUBSET Rows, row : Rows \cup {NoRow}]

Types ==
  /\ status \in [Rows -> {"none", "due", "delivered", "failed"}]
  /\ content \in [Rows -> [text : Texts, files : 0..MaxFiles]]
  /\ age \in [Rows -> {"fresh", "recent", "old"}] /\ tries \in [Rows -> 0..MaxTries]
  /\ texts \in [Rows -> Nat] /\ early \in [Rows -> [Rows -> Nat]]
  /\ files \in [Rows -> [1..MaxFiles -> Nat]]
  /\ rooms \in [Rooms -> {"there", "going", "gone"}]
  /\ pending \in Seq(Entry)
  /\ call \in [Sessions -> Call] /\ pass \in [Passes -> Pass]
  /\ seen \subseteq Rows /\ missed \subseteq Rows /\ crashes \in 0..MaxUpsets

\* A row that is not written says nothing and has nothing stored; a row that
\* is still tried has a call left.
RowTrue(r) ==
  /\ status[r] = "none" =>
       /\ content[r] = [text |-> NoText, files |-> 0] /\ texts[r] = 0
       /\ \A i \in 1..MaxFiles : files[r][i] = 0
       /\ \A q \in Rows : early[q][r] = 0
  /\ status[r] \in {"none", "due"} => tries[r] < MaxTries

\* At most one entry of a key, which is that of some row.
Single(p) == \A i, j \in DOMAIN p : p[i].key = p[j].key => i = j
Known(k)  == \E r \in Rows : status[r] # "none" /\ Key(r) = k
EntriesTrue == Single(pending) /\ \A e \in Range(pending) : Known(e.key)

\* No entry, and what a record of progress has stored: the text (0), an attachment.
Absent(k) == \A e \in Range(pending) : e.key # k
Has(x, i) == IF i = 0 THEN x.text ELSE i <= x.files
\* What the rows of a key say.
Says(k, i) == IF i = 0 THEN k[3] # NoText ELSE i <= k[4]

\* A call is of a row its session still has to deliver; what it has at each
\* stage.  It returns with all stored and no entry left, or its room is gone.
CallTrue(s) ==
  LET c == call[s]  r == call[s].row IN
  /\ c.stage = "idle" => c = Idle
  /\ c.stage # "idle" => r \in Rows /\ Session[r] = s /\ status[r] = "due"
  /\ c.stage \in {"room", "begin"} => ~c.text /\ c.files = 0
  /\ c.stage = "text" => ~c.text /\ Text(r) # NoText
  /\ c.stage = "file" => (Text(r) = NoText \/ c.text) /\ c.files < Files(r)
  /\ c.stage = "return" /\ rooms[Room[r]] # "gone" =>
       Absent(Key(r)) /\ \A i \in 0..Files(r) : Says(Key(r), i) => Has(c, i)

\* A pass has in hand only rows that were marked delivered.
PassTrue(p) ==
  /\ \A r \in pass[p].settled : status[r] = "delivered"
  /\ pass[p].stage \in {"probe", "store"} =>
       pass[p].row \in Rows /\ status[pass[p].row] = "delivered" /\ Text(pass[p].row) # NoText

Base == /\ Types /\ EntriesTrue
        /\ \A r \in Rows : RowTrue(r)
        /\ \A s \in Sessions : CallTrue(s)
        /\ \A p \in Passes : PassTrue(p)
        /\ \A r \in seen : status[r] = "delivered"

\* The rows of a key: those written, those trunk is done with, and those that
\* deliver itself answered for.
Kin(k)    == {q \in Rows : status[q] # "none" /\ Key(q) = k}
Marked(k) == {q \in Kin(k) : status[q] \in {"delivered", "failed"}}
Done(k)   == {q \in Kin(k) : status[q] = "delivered" /\ q \notin missed}
Total(rows, stored) == Cardinality(Messages(rows, stored))

\* Somebody remembers that a part of the key is stored.
Held(k, i) ==
  \/ \E e \in Range(pending) : e.key = k /\ Has(e, i)
  \/ \E s \in Sessions : /\ call[s].stage # "idle" /\ Key(call[s].row) = k
                         /\ Has(call[s], i)
One(b) == IF b THEN 1 ELSE 0

\* While the room is there: a message of each part for each row marked, and one
\* more if a part is remembered for a row that is not.
Enough == \A k \in Keys : \A i \in 0..k[4] :
  rooms[k[2]] = "there" /\ Says(k, i) =>
    Cardinality(Done(k)) + One(Held(k, i)) <= Total(Kin(k), Part(i))

\* A call under way and its entry agree.
Progress(c) == [key |-> Key(c.row), text |-> c.text, files |-> c.files]
InStep == \A s \in Sessions : call[s].stage \in {"text", "file"} =>
  Progress(call[s]) \in Range(pending)

\* One more than there are rows marked and crashes, only while it is remembered
\* for a row still tried.
Over(k, i) == Held(k, i) /\ \E q \in Kin(k) : status[q] = "due" /\ Part(i)[q] > 0
Allowed(k, i) == Cardinality(Marked(k)) + crashes + One(Over(k, i))
AtMost(k, i, n) == Total(Kin(k), Part(i)) + n <= Allowed(k, i)
NotTwice == \A k \in Keys : \A i \in 0..k[4] : AtMost(k, i, 0)

\* What was stored before a row was written is for the other rows.
Before == \A r \in Rows : status[r] # "none" =>
  Total(Kin(Key(r)), early[r]) <= Cardinality(Marked(Key(r)) \ {r}) + crashes

\* A pass that is about to store has found that one is wanting.
Wanting == \A p \in Passes : pass[p].stage = "store" => AtMost(Key(pass[p].row), 0, 1)

\* What RetrySafe depends on.  Over its bound the map drops the oldest entry, and
\* a row still tried begins anew; and nothing keeps two passes apart
\* (reconcile.ts:57, a setInterval that waits for none), so that both may find
\* the same message wanting and store it.
InBound == Len(pending) <= PendingBound
OnePass == \A p, q \in Passes : pass[p].stage # "idle" /\ pass[q].stage # "idle" => p = q

\* What is left to do of a call, and what a step of it leaves of the entries:
\* its own, unless all is stored, and no other is changed.
NextStage(c) == IF Text(c.row) # NoText /\ ~c.text THEN "text"
                ELSE IF c.files < Files(c.row) THEN "file" ELSE "return"
Advance(s, c) ==
  /\ c \in Call /\ c.row = call[s].row
  /\ call' = [call EXCEPT ![s] = [c EXCEPT !.stage = NextStage(c)]]
  /\ pending' \in Seq(Entry) /\ Single(pending')
  /\ \A x \in Range(pending') : \/ x \in Range(pending) /\ x.key # Key(c.row)
                                \/ x = Progress(c) /\ NextStage(c) # "return"
\* None that matters is lost.
Keeps(c) ==
  /\ NextStage(c) # "return" => Progress(c) \in Range(pending')
  /\ \A x \in Range(pending) : x.key # Key(c.row) /\ ~GivenUp(x) => x \in Range(pending')

-----------------------------------------------------------------------------
(* Counting messages.                                                      *)

\* The messages of finitely many rows are finitely many.
LEMMA MessagesFinite ==
  ASSUME NEW S, IsFiniteSet(S), NEW f, \A q \in S : f[q] \in Nat
  PROVE  IsFiniteSet(Messages(S, f)) /\ Total(S, f) \in Nat
<1> DEFINE pile == [q \in S |-> {q} \X (1..f[q])]
           piles == {{q} \X (1..f[q]) : q \in S}
<1>1. pile \in Surjection(S, piles)
  BY DEF Surjection
<1>2. IsFiniteSet(piles)
  BY <1>1, FS_Surjection
<1>3. \A q \in S : IsFiniteSet({q} \X (1..f[q]))
  <2> TAKE q \in S
  <2>1. IsFiniteSet({q})
    BY FS_Singleton
  <2>2. IsFiniteSet(1..f[q])
    <3>1. f[q] \in Int /\ 1 \in Int
      OBVIOUS
    <3> QED
      BY <3>1, FS_Interval
  <2> QED
    BY <2>1, <2>2, FS_Product
<1>4. IsFiniteSet(UNION piles)
  BY <1>2, <1>3, FS_UNION
<1> QED
  BY <1>4, FS_CardinalityType DEF Messages, Total

\* What a message is.
LEMMA InMessages ==
  ASSUME NEW S, NEW f, NEW m, \A q \in S : f[q] \in Nat
  PROVE  m \in Messages(S, f) <=> \E q \in S, n \in Nat \ {0} : n <= f[q] /\ m = <<q, n>>
  BY DEF Messages

\* More rows and more of each is more messages.
LEMMA TotalGrows ==
  ASSUME NEW S, IsFiniteSet(S), NEW R \in SUBSET S, NEW f, NEW g,
         \A q \in S : g[q] \in Nat, \A q \in R : f[q] \in Nat /\ f[q] <= g[q]
  PROVE  Total(R, f) <= Total(S, g)
<1>1. Messages(R, f) \subseteq Messages(S, g)
  <2> SUFFICES ASSUME NEW m \in Messages(R, f) PROVE m \in Messages(S, g)
    OBVIOUS
  <2>1. PICK q \in R, n \in Nat \ {0} : n <= f[q] /\ m = <<q, n>>
    BY InMessages
  <2>2. q \in S /\ n <= g[q]
    BY <2>1
  <2> QED
    BY <2>1, <2>2, InMessages
<1> QED
  BY <1>1, MessagesFinite, FS_Subset DEF Total

\* Rows of which there is as much, and others of which there is nothing.
LEMMA TotalSame ==
  ASSUME NEW S, NEW R \in SUBSET S, NEW f, NEW g,
         \A q \in R : f[q] = g[q] /\ f[q] \in Nat, \A q \in S \ R : g[q] = 0
  PROVE  Total(R, f) = Total(S, g)
<1>1. ASSUME NEW m PROVE m \in Messages(R, f) <=> m \in Messages(S, g)
  BY InMessages
<1>2. Messages(R, f) = Messages(S, g)
  BY <1>1
<1> QED
  BY <1>2 DEF Total

\* One more message.
LEMMA TotalOneMore ==
  ASSUME NEW S, IsFiniteSet(S), NEW f, NEW g, NEW x \in S, \A q \in S : f[q] \in Nat,
         g[x] = f[x] + 1, \A q \in S \ {x} : g[q] = f[q]
  PROVE  Total(S, g) = Total(S, f) + 1
<1> DEFINE m == <<x, g[x]>>
<1>1. m \notin Messages(S, f)
  <2> SUFFICES ASSUME m \in Messages(S, f) PROVE FALSE
    OBVIOUS
  <2>1. PICK q \in S, n \in Nat \ {0} : n <= f[q] /\ m = <<q, n>>
    BY InMessages
  <2> QED
    BY <2>1
<1>2. ASSUME NEW y PROVE y \in Messages(S, g) <=> y \in Messages(S, f) \cup {m}
  <2>1. ASSUME y \in Messages(S, g) PROVE y \in Messages(S, f) \cup {m}
    <3>1. PICK q \in S, n \in Nat \ {0} : n <= g[q] /\ y = <<q, n>>
      BY <2>1, InMessages
    <3>2. CASE q # x \/ n # g[x]
      <4>1. n <= f[q]
        BY <3>1, <3>2
      <4> QED
        BY <3>1, <4>1, InMessages
    <3>3. CASE q = x /\ n = g[x]
      BY <3>1, <3>3
    <3> QED
      BY <3>2, <3>3
  <2>2. ASSUME y \in Messages(S, f) PROVE y \in Messages(S, g)
    <3>1. PICK q \in S, n \in Nat \ {0} : n <= f[q] /\ y = <<q, n>>
      BY <2>2, InMessages
    <3>2. n <= g[q]
      BY <3>1
    <3> QED
      BY <3>1, <3>2, InMessages
  <2>3. m \in Messages(S, g)
    <3>1. g[x] \in Nat \ {0} /\ g[x] <= g[x]
      OBVIOUS
    <3> QED
      BY <3>1, InMessages
  <2> QED
    BY <2>1, <2>2, <2>3
<1>3. Messages(S, g) = Messages(S, f) \cup {m}
  BY <1>2
<1> QED
  BY <1>1, <1>3, MessagesFinite, FS_AddElement DEF Total

\* Nothing of any row.
LEMMA TotalNone ==
  ASSUME NEW S, NEW f, \A q \in S : f[q] = 0
  PROVE  Total(S, f) = 0
<1>1. \A m : m \notin Messages(S, f)
  BY InMessages
<1>2. Messages(S, f) = {}
  BY <1>1
<1> QED
  BY <1>2, FS_EmptySet DEF Total
-----------------------------------------------------------------------------
(* The entries of part-done deliveries.                                    *)

\* The entries of a sequence.
LEMMA EntriesOf ==
  ASSUME NEW p \in Seq(Entry)
  PROVE  /\ DOMAIN p = 1..Len(p) /\ Len(p) \in Nat
         /\ \A i \in 1..Len(p) : p[i] \in Entry
         /\ \A x : x \in Range(p) <=> \E i \in 1..Len(p) : x = p[i]
         /\ Range(p) \subseteq Entry
  BY DEF Range

\* prune leaves the end of the sequence.
LEMMA Shortened ==
  ASSUME NEW p \in Seq(Entry), Single(p), NEW n \in 0..Len(p)
  PROVE  LET q == SubSeq(p, n + 1, Len(p)) IN
         /\ q \in Seq(Entry) /\ Single(q) /\ Range(q) \subseteq Range(p)
         /\ \A i \in 1..Len(p) : i \in 1..n \/ p[i] \in Range(q)
<1> DEFINE q == SubSeq(p, n + 1, Len(p))
<1>1. /\ q \in Seq(Entry) /\ Len(q) = Len(p) - n
      /\ \A j \in 1..(Len(p) - n) : q[j] = p[n + j]
  BY EntriesOf
<1> HIDE DEF q
<1>2. DOMAIN q = 1..Len(q)
  BY <1>1, EntriesOf
<1>3. Single(q)
  <2> SUFFICES ASSUME NEW i \in 1..Len(q), NEW j \in 1..Len(q), q[i].key = q[j].key
               PROVE  i = j
    BY <1>2 DEF Single
  <2>1. n + i \in 1..Len(p) /\ n + j \in 1..Len(p) /\ p[n + i].key = p[n + j].key
    BY <1>1, EntriesOf
  <2>2. n + i = n + j
    BY <2>1, EntriesOf DEF Single
  <2> QED
    BY <1>1, <2>2, EntriesOf
<1>4. Range(q) \subseteq Range(p)
  <2> SUFFICES ASSUME NEW x \in Range(q) PROVE x \in Range(p)
    OBVIOUS
  <2>1. PICK j \in 1..Len(q) : x = q[j]
    BY <1>1, EntriesOf
  <2>2. n + j \in 1..Len(p) /\ x = p[n + j]
    BY <1>1, <2>1, EntriesOf
  <2> QED
    BY <2>2, EntriesOf
<1>5. \A i \in 1..Len(p) : i \in 1..n \/ p[i] \in Range(q)
  <2> TAKE i \in 1..Len(p)
  <2>1. CASE i > n
    <3>1. i - n \in 1..Len(q) /\ q[i - n] = p[i]
      BY <1>1, <2>1, EntriesOf
    <3> QED
      BY <1>1, <3>1, EntriesOf
  <2> QED
    BY <2>1, EntriesOf
<1> QED
  BY <1>1, <1>3, <1>4, <1>5 DEF q

\* The entry of a key, and only that, goes.
LEMMA EntryGone ==
  ASSUME NEW p \in Seq(Entry), Single(p), NEW k
  PROVE  /\ Without(p, k) \in Seq(Entry) /\ Single(Without(p, k))
         /\ Range(Without(p, k)) = {x \in Range(p) : x.key # k}
<1>1. CASE \A i \in DOMAIN p : p[i].key # k
  BY <1>1, EntriesOf DEF Without
<1>2. CASE \E i \in DOMAIN p : p[i].key = k
  <2> DEFINE n == CHOOSE i \in DOMAIN p : p[i].key = k
             q == SubSeq(p, 1, n - 1) \o SubSeq(p, n + 1, Len(p))
  <2>1. n \in 1..Len(p) /\ p[n].key = k
    BY <1>2, EntriesOf
  <2>2. Without(p, k) = q
    BY <1>2 DEF Without
  <2> HIDE DEF n
  <2>3. /\ SubSeq(p, 1, n - 1) \in Seq(Entry) /\ SubSeq(p, n + 1, Len(p)) \in Seq(Entry)
        /\ Len(SubSeq(p, 1, n - 1)) = n - 1 /\ Len(SubSeq(p, n + 1, Len(p))) = Len(p) - n
        /\ \A j \in 1..(n - 1) : SubSeq(p, 1, n - 1)[j] = p[j]
        /\ \A j \in 1..(Len(p) - n) : SubSeq(p, n + 1, Len(p))[j] = p[n + j]
    BY <2>1, EntriesOf
  <2>4. /\ q \in Seq(Entry) /\ Len(q) = Len(p) - 1
        /\ \A j \in 1..(Len(p) - 1) : q[j] = IF j < n THEN p[j] ELSE p[j + 1]
    <3> DEFINE u == SubSeq(p, 1, n - 1)
               v == SubSeq(p, n + 1, Len(p))
    <3>1. /\ u \in Seq(Entry) /\ v \in Seq(Entry) /\ Len(u) = n - 1 /\ Len(v) = Len(p) - n
          /\ \A j \in 1..(n - 1) : u[j] = p[j]
          /\ \A j \in 1..(Len(p) - n) : v[j] = p[n + j]
      BY <2>3
    <3>2. q = u \o v
      OBVIOUS
    <3> HIDE DEF u, v, q, Entry
    <3>3. q \in Seq(Entry) /\ Len(q) = Len(u) + Len(v)
      BY <3>1, <3>2, ConcatProperties
    <3>4. \A j \in 1..Len(q) : q[j] = IF j <= Len(u) THEN u[j] ELSE v[j - Len(u)]
      BY <3>1, <3>2, <3>3, ConcatProperties
    <3>5. Len(q) = Len(p) - 1
      BY <2>1, <3>1, <3>3, EntriesOf
    <3>6. ASSUME NEW j \in 1..(Len(p) - 1) PROVE q[j] = IF j < n THEN p[j] ELSE p[j + 1]
      <4>1. CASE j < n
        <5>1. j \in 1..(n - 1) /\ j <= Len(u) /\ j \in 1..Len(q)
          BY <2>1, <3>1, <3>5, <4>1, EntriesOf
        <5> QED
          BY <3>1, <3>4, <4>1, <5>1
      <4>2. CASE ~(j < n)
        <5>1. /\ j - (n - 1) \in 1..(Len(p) - n) /\ ~(j <= Len(u)) /\ j \in 1..Len(q)
              /\ n + (j - (n - 1)) = j + 1
          BY <2>1, <3>1, <3>5, <4>2, EntriesOf
        <5>2. v[j - (n - 1)] = p[j + 1]
          BY <3>1, <5>1
        <5>3. q[j] = v[j - (n - 1)]
          BY <3>1, <3>4, <5>1
        <5> QED
          BY <4>2, <5>2, <5>3
      <4> QED
        BY <4>1, <4>2
    <3> QED
      BY <3>3, <3>5, <3>6
  <2> HIDE DEF q
  <2>5. DOMAIN q = 1..(Len(p) - 1)
    BY <2>4, EntriesOf
  <2>6. Single(q)
    <3> DEFINE at(j) == IF j < n THEN j ELSE j + 1
    <3> SUFFICES ASSUME NEW i \in 1..(Len(p) - 1), NEW j \in 1..(Len(p) - 1),
                        q[i].key = q[j].key
                 PROVE  i = j
      BY <2>5 DEF Single
    <3>1. at(i) \in 1..Len(p) /\ at(j) \in 1..Len(p) /\ p[at(i)].key = p[at(j)].key
      <4>1. Len(p) \in Nat /\ n \in 1..Len(p)
        BY <2>1, EntriesOf
      <4>2. q[i] = p[at(i)] /\ q[j] = p[at(j)]
        BY <2>4
      <4> QED
        BY <4>1, <4>2
    <3>2. at(i) = at(j)
      <4> HIDE DEF at
      <4> QED
        BY <3>1, EntriesOf DEF Single
    <3> QED
      BY <2>1, <3>2, EntriesOf
  <2>7. ASSUME NEW x \in Range(q) PROVE x \in Range(p) /\ x.key # k
    <3>1. PICK j \in 1..(Len(p) - 1) : x = q[j]
      BY <2>4, <2>7, EntriesOf
    <3>2. PICK i \in 1..Len(p) : x = p[i] /\ i # n
      BY <2>1, <2>4, <3>1, EntriesOf
    <3> QED
      BY <2>1, <3>2, EntriesOf DEF Single
  <2>8. ASSUME NEW x \in Range(p), x.key # k PROVE x \in Range(q)
    <3>1. PICK i \in 1..Len(p) : x = p[i] /\ i # n
      BY <2>1, <2>8, EntriesOf
    <3>2. CASE i < n
      <4>1. i \in 1..(Len(p) - 1) /\ q[i] = x
        BY <2>1, <2>4, <3>1, <3>2, EntriesOf
      <4> QED
        BY <2>4, <4>1, EntriesOf
    <3>3. CASE i > n
      <4>1. i - 1 \in 1..(Len(p) - 1) /\ q[i - 1] = x
        BY <2>1, <2>4, <3>1, <3>3, EntriesOf
      <4> QED
        BY <2>4, <4>1, EntriesOf
    <3> QED
      BY <2>1, <3>1, <3>2, <3>3, EntriesOf
  <2> QED
    BY <2>2, <2>4, <2>6, <2>7, <2>8
<1> QED
  BY <1>1, <1>2

\* The entry of a key is brought up to date.
LEMMA EntryPut ==
  ASSUME NEW p \in Seq(Entry), Single(p), NEW e \in Entry
  PROVE  LET q == [i \in DOMAIN p |-> IF p[i].key = e.key THEN e ELSE p[i]] IN
         /\ q \in Seq(Entry) /\ Single(q)
         /\ \A x : x \in Range(q) <=> \/ x \in Range(p) /\ x.key # e.key
                                      \/ x = e /\ \E y \in Range(p) : y.key = e.key
<1> DEFINE q == [i \in DOMAIN p |-> IF p[i].key = e.key THEN e ELSE p[i]]
<1>1. q \in Seq(Entry) /\ Len(q) = Len(p) /\ DOMAIN q = 1..Len(p)
  <2> HIDE DEF Entry
  <2> QED
    BY EntriesOf
<1>2. Single(q)
  BY <1>1, EntriesOf DEF Single
<1>3. ASSUME NEW x
      PROVE  x \in Range(q) <=> \/ x \in Range(p) /\ x.key # e.key
                                \/ x = e /\ \E y \in Range(p) : y.key = e.key
  <2>1. x \in Range(q) <=> \E i \in 1..Len(p) : x = q[i]
    <3> HIDE DEF q
    <3> QED
      BY <1>1, EntriesOf
  <2>2. \A i \in 1..Len(p) : q[i] = IF p[i].key = e.key THEN e ELSE p[i]
    BY EntriesOf
  <2> HIDE DEF q
  <2> QED
    BY <2>1, <2>2, EntriesOf
<1> QED
  BY <1>1, <1>2, <1>3

\* An entry of a key that had none is added.
LEMMA EntryAdded ==
  ASSUME NEW p \in Seq(Entry), Single(p), NEW e \in Entry, \A x \in Range(p) : x.key # e.key
  PROVE  /\ Append(p, e) \in Seq(Entry) /\ Single(Append(p, e))
         /\ \A x : x \in Range(Append(p, e)) <=> x \in Range(p) \/ x = e
<1> DEFINE q == Append(p, e)
<1>1. /\ q \in Seq(Entry) /\ Len(q) = Len(p) + 1 /\ q[Len(p) + 1] = e
      /\ \A i \in 1..Len(p) : q[i] = p[i]
  <2> HIDE DEF Entry
  <2> QED
    BY EntriesOf
<1> HIDE DEF q
<1>2. DOMAIN q = 1..(Len(p) + 1)
  BY <1>1, EntriesOf
<1>3. \A i \in 1..Len(p) : p[i].key # e.key
  BY EntriesOf
<1>4. Single(q)
  BY <1>1, <1>2, <1>3, EntriesOf DEF Single
<1>5. ASSUME NEW x PROVE x \in Range(q) <=> x \in Range(p) \/ x = e
  <2>1. x \in Range(q) <=> \E i \in 1..(Len(p) + 1) : x = q[i]
    BY <1>1, EntriesOf
  <2>2. Len(p) + 1 \in 1..(Len(p) + 1) /\ \A i \in 1..(Len(p) + 1) : i = Len(p) + 1 \/ i \in 1..Len(p)
    BY EntriesOf
  <2> QED
    BY <1>1, <2>1, <2>2, EntriesOf
<1> QED
  BY <1>1, <1>4, <1>5 DEF q
-----------------------------------------------------------------------------
(* What a step of deliver does to the entries.                             *)

\* A row's key, and what it is made of.
LEMMA KeyFacts ==
  ASSUME Types, NEW r \in Rows
  PROVE  /\ Key(r) \in Keys /\ Key(r)[1] = Session[r] /\ Key(r)[2] = Room[r]
         /\ Key(r)[3] = Text(r) /\ Key(r)[4] = Files(r)
         /\ Text(r) \in Texts /\ Files(r) \in 0..MaxFiles
         /\ Session[r] \in Sessions /\ Room[r] \in Rooms
<1>1. content[r] \in [text : Texts, files : 0..MaxFiles]
  BY DEF Types
<1>2. Text(r) \in Texts /\ Files(r) \in 0..MaxFiles
  BY <1>1 DEF Text, Files
<1>3. Session[r] \in Sessions /\ Room[r] \in Rooms
  BY DeliveryAssumption
<1> QED
  BY <1>2, <1>3 DEF Key, Keys

\* Rows of different sessions have different keys.
LEMMA OneSession ==
  ASSUME Types, NEW r \in Rows, NEW q \in Rows, Key(r) = Key(q)
  PROVE  /\ Session[r] = Session[q] /\ Room[r] = Room[q] /\ Text(r) = Text(q)
         /\ Files(r) = Files(q)
  BY DEF Key

\* The entry of a call.
LEMMA ProgressIs ==
  ASSUME Types, NEW c \in Call, c.row \in Rows
  PROVE  /\ Progress(c) \in Entry /\ Progress(c).key = Key(c.row)
         /\ Progress(c).text = c.text /\ Progress(c).files = c.files
         /\ \A i : Has(Progress(c), i) <=> Has(c, i)
  BY KeyFacts DEF Progress, Entry, Call, Has

\* A call goes on with some entries: what becomes of them.
LEMMA ProceedDoes ==
  ASSUME Types, NEW s, NEW c \in Call, c.row \in Rows, NEW p \in Seq(Entry), Single(p),
         Proceed(s, c, p)
  PROVE  /\ call' = [call EXCEPT ![s] = [c EXCEPT !.stage = NextStage(c)]]
         /\ pending' \in Seq(Entry) /\ Single(pending')
         /\ \A x : x \in Range(pending') <=>
              \/ x \in Range(p) /\ x.key # Key(c.row)
              \/ /\ x = Progress(c) /\ NextStage(c) # "return"
                 /\ \E y \in Range(p) : y.key = Key(c.row)
<1> DEFINE k == Key(c.row)
           put == [i \in DOMAIN p |-> IF p[i].key = k THEN Progress(c) ELSE p[i]]
<1>1. /\ call' = [call EXCEPT ![s] = [c EXCEPT !.stage = NextStage(c)]]
      /\ pending' = IF NextStage(c) = "return" THEN Without(p, k) ELSE put
  BY DEF Proceed, NextStage, Progress
<1>2. CASE NextStage(c) = "return"
  BY <1>1, <1>2, EntryGone
<1>3. CASE NextStage(c) # "return"
  <2>1. Progress(c) \in Entry /\ Progress(c).key = k
    BY ProgressIs
  <2>2. /\ put \in Seq(Entry) /\ Single(put)
        /\ \A x : x \in Range(put) <=> \/ x \in Range(p) /\ x.key # k
                                       \/ x = Progress(c) /\ \E y \in Range(p) : y.key = k
    <3> HIDE DEF Entry, Progress
    <3> DEFINE e == Progress(c)
    <3>1. e \in Entry /\ e.key = k
      BY <2>1
    <3> HIDE DEF e, k
    <3>2. LET q == [i \in DOMAIN p |-> IF p[i].key = e.key THEN e ELSE p[i]] IN
          /\ q \in Seq(Entry) /\ Single(q)
          /\ \A x : x \in Range(q) <=> \/ x \in Range(p) /\ x.key # e.key
                                       \/ x = e /\ \E y \in Range(p) : y.key = e.key
      BY <3>1, EntryPut
    <3> QED
      BY <3>1, <3>2 DEF e
  <2> HIDE DEF put
  <2> QED
    BY <1>1, <1>3, <2>2
<1> QED
  BY <1>1, <1>2, <1>3

\* prune forgets, within its bound, only what no row is tried for.
LEMMA PrunedIs ==
  ASSUME Types, EntriesTrue, NEW p \in Pruned
  PROVE  /\ p \in Seq(Entry) /\ Single(p) /\ Range(p) \subseteq Range(pending)
         /\ InBound => \A x \in Range(pending) : x \in Range(p) \/ GivenUp(x)
<1>1. pending \in Seq(Entry) /\ Single(pending) /\ PendingBound \in Nat
  BY DeliveryAssumption DEF Types, EntriesTrue
<1>2. PICK n \in 0..Len(pending) :
        /\ p = SubSeq(pending, n + 1, Len(pending))
        /\ \A i \in 1..n : i <= Len(pending) - PendingBound \/ GivenUp(pending[i])
  BY DEF Pruned
<1>3. /\ p \in Seq(Entry) /\ Single(p) /\ Range(p) \subseteq Range(pending)
      /\ \A i \in 1..Len(pending) : i \in 1..n \/ pending[i] \in Range(p)
  BY <1>1, <1>2, Shortened
<1>4. ASSUME InBound, NEW x \in Range(pending) PROVE x \in Range(p) \/ GivenUp(x)
  <2>1. PICK i \in 1..Len(pending) : x = pending[i]
    BY <1>1, EntriesOf
  <2>2. ~(i <= Len(pending) - PendingBound)
    BY <1>1, <1>4, EntriesOf DEF InBound
  <2> QED
    BY <1>2, <1>3, <2>1, <2>2
<1> QED
  BY <1>3, <1>4

\* A call begins with what its entry says, if there is one.
LEMMA BeginDoes ==
  ASSUME Types, EntriesTrue, NEW s \in Sessions, CallTrue(s), Begin(s)
  PROVE  \E c \in Call :
           /\ Advance(s, c)
           /\ Progress(c) \in Range(pending) \/ (~c.text /\ c.files = 0)
           /\ InBound => /\ Keeps(c)
                         /\ \A x \in Range(pending) : x.key = Key(c.row) => x = Progress(c)
<1> DEFINE r == call[s].row
           k == Key(r)
<1>1. r \in Rows /\ status[r] = "due" /\ ~call[s].text /\ call[s].files = 0 /\ call[s] \in Call
  BY DEF Types, CallTrue, Begin
<1>2. PICK p \in Pruned :
        IF \E i \in DOMAIN p : p[i].key = k
        THEN LET e == CHOOSE e \in {p[i] : i \in DOMAIN p} : e.key = k
             IN  Proceed(s, [call[s] EXCEPT !.text = e.text, !.files = e.files], p)
        ELSE Proceed(s, call[s], Append(p, [key |-> k, text |-> FALSE, files |-> 0]))
  BY DEF Begin
<1>3. /\ p \in Seq(Entry) /\ Single(p) /\ Range(p) \subseteq Range(pending)
      /\ InBound => \A x \in Range(pending) : x \in Range(p) \/ GivenUp(x)
  BY PrunedIs
<1>4. \A x : x \in Range(p) <=> \E i \in DOMAIN p : x = p[i]
  BY DEF Range
<1>5. ~\E x : x.key = k /\ GivenUp(x)
  BY <1>1 DEF GivenUp
<1>6. CASE \E i \in DOMAIN p : p[i].key = k
  <2> DEFINE e == CHOOSE e \in {p[i] : i \in DOMAIN p} : e.key = k
             d == [call[s] EXCEPT !.text = e.text, !.files = e.files]
  <2>1. e \in Range(p) /\ e.key = k
    BY <1>4, <1>6
  <2>2. Proceed(s, d, p)
    BY <1>2, <1>6
  <2> HIDE DEF e
  <2>3. e \in Entry
    BY <1>3, <2>1, EntriesOf
  <2>4. PICK c \in Call : /\ c.row = r /\ c.text = e.text /\ c.files = e.files
                         /\ Proceed(s, c, p)
    <3>1. d \in Call /\ d.row = r /\ d.text = e.text /\ d.files = e.files
      BY <1>1, <2>3 DEF Call, Entry
    <3> HIDE DEF d
    <3> QED
      BY <2>2, <3>1
  <2>5. Progress(c) = e
    BY <2>1, <2>3, <2>4 DEF Progress, Entry
  <2>6. /\ call' = [call EXCEPT ![s] = [c EXCEPT !.stage = NextStage(c)]]
        /\ pending' \in Seq(Entry) /\ Single(pending')
        /\ \A x : x \in Range(pending') <=>
             \/ x \in Range(p) /\ x.key # k
             \/ x = Progress(c) /\ NextStage(c) # "return" /\ \E y \in Range(p) : y.key = k
    <3>1. c.row \in Rows /\ Key(c.row) = k
      BY <1>1, <2>4
    <3>0. p \in Seq(Entry) /\ Single(p) /\ Proceed(s, c, p)
      BY <1>3, <2>4
    <3>2. /\ call' = [call EXCEPT ![s] = [c EXCEPT !.stage = NextStage(c)]]
          /\ pending' \in Seq(Entry) /\ Single(pending')
          /\ \A x : x \in Range(pending') <=>
               \/ x \in Range(p) /\ x.key # Key(c.row)
               \/ /\ x = Progress(c) /\ NextStage(c) # "return"
                  /\ \E y \in Range(p) : y.key = Key(c.row)
      BY <3>0, <3>1, ProceedDoes
    <3> HIDE DEF k
    <3> QED
      BY <3>1, <3>2
  <2>7. Advance(s, c)
    BY <1>3, <2>4, <2>6 DEF Advance
  <2>8. Progress(c) \in Range(pending)
    BY <1>3, <2>1, <2>5
  <2>9. InBound => Keeps(c)
    BY <1>3, <2>1, <2>4, <2>6 DEF Keeps
  <2>10. \A x \in Range(pending) : x.key = k => x = Progress(c)
    <3> SUFFICES ASSUME NEW x \in Range(pending), x.key = k PROVE x = e
      BY <2>5
    <3>1. e \in Range(pending) /\ pending \in Seq(Entry) /\ Single(pending)
      BY <2>5, <2>8 DEF Types, EntriesTrue
    <3> QED
      BY <2>1, <3>1, EntriesOf DEF Single
  <2> QED
    BY <2>4, <2>7, <2>8, <2>9, <2>10
<1>7. CASE ~\E i \in DOMAIN p : p[i].key = k
  <2> DEFINE c == call[s]
             new == [key |-> k, text |-> FALSE, files |-> 0]
             p1 == Append(p, new)
  <2>1. Proceed(s, c, p1)
    BY <1>2, <1>7
  <2>2. Progress(c) = new
    BY <1>1 DEF Progress, Call
  <2>3. new \in Entry /\ new.key = k
    BY <1>1, <2>2, ProgressIs
  <2>4. \A x \in Range(p) : x.key # k
    BY <1>4, <1>7
  <2> HIDE DEF new
  <2>5. /\ p1 \in Seq(Entry) /\ Single(p1)
        /\ \A x : x \in Range(p1) <=> x \in Range(p) \/ x = new
    BY <1>3, <2>3, <2>4, EntryAdded
  <2> HIDE DEF p1
  <2>6. /\ call' = [call EXCEPT ![s] = [c EXCEPT !.stage = NextStage(c)]]
        /\ pending' \in Seq(Entry) /\ Single(pending')
        /\ \A x : x \in Range(pending') <=>
             \/ x \in Range(p1) /\ x.key # k
             \/ x = Progress(c) /\ NextStage(c) # "return" /\ \E y \in Range(p1) : y.key = k
    <3>1. c \in Call /\ c.row \in Rows /\ Key(c.row) = k
      BY <1>1
    <3> HIDE DEF c, k
    <3> QED
      BY <2>1, <2>5, <3>1, ProceedDoes
  <2>7. Advance(s, c)
    <3>1. c \in Call /\ k = Key(c.row)
      BY <1>1
    <3>2. ASSUME NEW x \in Range(pending'), x # Progress(c)
          PROVE  x \in Range(pending) /\ x.key # k
      <4>1. x \in Range(p1) /\ x.key # k
        BY <2>6, <3>2
      <4> QED
        BY <1>3, <2>3, <2>5, <4>1
    <3>3. \A x \in Range(pending') : x = Progress(c) => NextStage(c) # "return"
      <4> SUFFICES ASSUME NextStage(c) = "return", Progress(c) \in Range(pending') PROVE FALSE
        OBVIOUS
      <4>1. Progress(c).key # k
        BY <2>6
      <4> QED
        BY <2>2, <2>3, <4>1
    <3> QED
      BY <2>6, <3>1, <3>2, <3>3 DEF Advance
  <2>8. InBound => Keeps(c)
    BY <1>3, <2>2, <2>3, <2>5, <2>6 DEF Keeps
  <2>9. InBound => \A x \in Range(pending) : x.key = k => x = Progress(c)
    BY <1>3, <1>5, <2>4
  <2> QED
    BY <1>1, <2>7, <2>8, <2>9
<1> QED
  BY <1>2, <1>6, <1>7

\* A store that succeeds: what the call has then.
After(s) == IF call[s].stage = "text" THEN [call[s] EXCEPT !.text = TRUE]
            ELSE [call[s] EXCEPT !.files = @ + 1]

\* A call goes on from a store that succeeded.
LEMMA StoreDoes ==
  ASSUME Types, EntriesTrue, NEW s \in Sessions, CallTrue(s), StoreText(s) \/ StoreFile(s)
  PROVE  Advance(s, After(s)) /\ (Progress(call[s]) \in Range(pending) => Keeps(After(s)))
<1> DEFINE c == After(s)
           k == Key(c.row)
<1>1. /\ call[s] \in Call /\ call[s].row \in Rows
      /\ call[s].stage = "file" => call[s].files < Files(call[s].row)
  BY DEF Types, CallTrue, StoreText, StoreFile
<1>2. Files(call[s].row) \in 0..MaxFiles
  BY <1>1, KeyFacts
<1>3. c \in Call /\ c.row = call[s].row
  <2>1. CASE StoreText(s)
    BY <1>1, <2>1 DEF StoreText, After, Call
  <2>2. CASE StoreFile(s)
    <3>1. call[s].files + 1 \in 0..MaxFiles
      BY <1>1, <1>2, <2>2, DeliveryAssumption DEF StoreFile, Call
    <3> QED
      BY <1>1, <2>2, <3>1 DEF StoreFile, After, Call
  <2> QED
    BY <2>1, <2>2
<1>4. Proceed(s, c, pending)
  BY DEF StoreText, StoreFile, After
<1>5. pending \in Seq(Entry) /\ Single(pending)
  BY DEF Types, EntriesTrue
<1> HIDE DEF c
<1>6. /\ call' = [call EXCEPT ![s] = [c EXCEPT !.stage = NextStage(c)]]
      /\ pending' \in Seq(Entry) /\ Single(pending')
      /\ \A x : x \in Range(pending') <=>
           \/ x \in Range(pending) /\ x.key # k
           \/ x = Progress(c) /\ NextStage(c) # "return" /\ \E y \in Range(pending) : y.key = k
  BY <1>1, <1>3, <1>4, <1>5, ProceedDoes
<1>7. Advance(s, c)
  BY <1>3, <1>6 DEF Advance
<1>8. Progress(call[s]) \in Range(pending) => Keeps(c)
  BY <1>1, <1>3, <1>6, ProgressIs DEF Keeps
<1> QED
  BY <1>7, <1>8 DEF c
-----------------------------------------------------------------------------
(* The types, and what is true of each row, entry, call and pass.          *)

\* The types hold at first, and each step keeps them.
LEMMA TypesInit ==
  ASSUME Init
  PROVE  Types
<1> USE DeliveryAssumption DEF Init
<1>1. [text |-> NoText, files |-> 0] \in [text : Texts, files : 0..MaxFiles]
  BY DEF Texts
<1>2. Idle \in Call /\ Resting \in Pass
  BY DEF Idle, Call, Stages, Resting, Pass, PassStages
<1>3. pending \in Seq(Entry)
  OBVIOUS
<1> QED
  BY <1>1, <1>2, <1>3 DEF Types

\* What a container may write.
LEMMA ContentTypes ==
  ASSUME NEW c \in Contents
  PROVE  c \in [text : Texts, files : 0..MaxFiles]
<1>1. c \in [text : {d.text : d \in Contents}, files : 0..MaxFiles]
  BY DeliveryAssumption
<1>2. c.text \in Texts /\ c.files \in 0..MaxFiles /\ c = [text |-> c.text, files |-> c.files]
  BY <1>1 DEF Texts
<1> QED
  BY <1>2

\* A row is written.
LEMMA WriteTypes ==
  ASSUME Types, NEW r \in Rows, Write(r)
  PROVE  Types'
<1>1. early' \in [Rows -> [Rows -> Nat]]
  <2>1. PICK long \in BOOLEAN : early' = [early EXCEPT ![r] =
           [q \in Rows |-> IF long /\ status[q] # "due" THEN texts[q] ELSE 0]]
    BY DEF Write
  <2>2. [q \in Rows |-> IF long /\ status[q] # "due" THEN texts[q] ELSE 0] \in [Rows -> Nat]
    BY DEF Types
  <2> QED
    BY <2>1, <2>2 DEF Types
<1>2. content' \in [Rows -> [text : Texts, files : 0..MaxFiles]]
  BY ContentTypes DEF Write, Types
<1> QED
  BY <1>1, <1>2 DEF Write, Types

\* Trunk hands out a row, marks it or has its call fail.
LEMMA TrunkTypes ==
  ASSUME Types, \A r \in Rows : RowTrue(r), \A s \in Sessions : CallTrue(s),
         \/ \E r \in Rows : Age(r) \/ Deliver(r) \/ Miss(r)
         \/ \E s \in Sessions : Throw(s) \/ Mark(s) \/ LookUp(s)
  PROVE  Types'
<1>0. Idle \in Call
  BY DeliveryAssumption DEF Idle, Call, Stages
<1>1. CASE \E r \in Rows : Age(r)
  BY <1>1 DEF Age, Types, trunkVars, storeVars
<1>2. CASE \E r \in Rows : Deliver(r)
  <2>1. PICK r \in Rows : Deliver(r)
    BY <1>2
  <2>2. [Idle EXCEPT !.row = r, !.stage = "room"] \in Call
    <3>1. "room" \in Stages /\ r \in Rows \cup {NoRow}
      BY DEF Stages
    <3> QED
      BY <1>0, <3>1 DEF Call
  <2> QED
    BY <2>1, <2>2 DEF Deliver, Types, trunkVars, rowVars, storeVars
<1>3. CASE \E r \in Rows : Miss(r)
  BY <1>3 DEF Miss, Types, rowVars, storeVars
<1>4. CASE \E s \in Sessions : Throw(s)
  <2>1. PICK s \in Sessions : Throw(s)
    BY <1>4
  <2> DEFINE r == call[s].row
  <2>2. r \in Rows /\ tries[r] < MaxTries
    BY <2>1 DEF Throw, CallTrue, RowTrue
  <2>3. tries' \in [Rows -> 0..MaxTries]
    <3>1. tries[r] + 1 \in 0..MaxTries
      <4>1. tries[r] \in 0..MaxTries
        BY <2>2 DEF Types
      <4>2. MaxTries \in Nat
        BY DeliveryAssumption
      <4> QED
        BY <2>2, <4>1, <4>2
    <3>2. tries' = [tries EXCEPT ![r] = tries[r] + 1]
      BY <2>1 DEF Throw
    <3> QED
      BY <3>1, <3>2 DEF Types
  <2>4. s \in Sessions /\ status' \in [Rows -> {"none", "due", "delivered", "failed"}]
    BY <2>1 DEF Throw, Types
  <2>5. call' \in [Sessions -> Call]
    BY <1>0, <2>1 DEF Throw, Types
  <2> QED
    BY <2>1, <2>3, <2>4, <2>5 DEF Throw, Types, rowVars, storeVars
<1>5. CASE \E s \in Sessions : Mark(s)
  <2>1. PICK s \in Sessions : Mark(s)
    BY <1>5
  <2>2. status' \in [Rows -> {"none", "due", "delivered", "failed"}]
    BY <2>1 DEF Mark, Types
  <2>3. call' \in [Sessions -> Call]
    BY <1>0, <2>1 DEF Mark, Types
  <2> QED
    BY <2>1, <2>2, <2>3 DEF Mark, Types, rowVars, storeVars
<1>6. CASE \E s \in Sessions : LookUp(s)
  <2>1. PICK s \in Sessions, g \in Stages : call' = [call EXCEPT ![s].stage = g]
    BY <1>6 DEF LookUp, Stages
  <2>2. [call[s] EXCEPT !.stage = g] \in Call
    BY DEF Types, Call
  <2>3. call' \in [Sessions -> Call]
    BY <2>1, <2>2 DEF Types
  <2> QED
    BY <1>6, <2>3 DEF LookUp, Types, trunkVars, rowVars, storeVars
<1> QED
  BY <1>1, <1>2, <1>3, <1>4, <1>5, <1>6

\* A call that goes on is a call.
LEMMA AdvanceTypes ==
  ASSUME Types, NEW s \in Sessions, NEW c, Advance(s, c)
  PROVE  call' \in [Sessions -> Call] /\ pending' \in Seq(Entry)
<1>1. [c EXCEPT !.stage = NextStage(c)] \in Call
  BY DEF Advance, Call, NextStage, Stages
<1> QED
  BY <1>1 DEF Advance, Types

\* deliver begins or stores.
LEMMA DeliverTypes ==
  ASSUME Types, EntriesTrue, NEW s \in Sessions, CallTrue(s),
         Begin(s) \/ StoreText(s) \/ StoreFile(s)
  PROVE  Types'
<1>1. call' \in [Sessions -> Call] /\ pending' \in Seq(Entry)
  BY BeginDoes, StoreDoes, AdvanceTypes
<1>2. CASE Begin(s)
  BY <1>1, <1>2 DEF Begin, Types, trunkVars, rowVars, storeVars
<1>3. CASE StoreText(s)
  <2>1. texts' \in [Rows -> Nat]
    BY <1>3 DEF StoreText, Types, CallTrue
  <2> QED
    BY <1>1, <1>3, <2>1 DEF StoreText, Types, trunkVars, rowVars
<1>4. CASE StoreFile(s)
  <2> DEFINE r == call[s].row  i == call[s].files + 1
  <2>1. r \in Rows /\ i \in 1..MaxFiles
    <3>1. r \in Rows /\ call[s].files < Files(r) /\ call[s].files \in 0..MaxFiles
      BY <1>4 DEF StoreFile, CallTrue, Types, Call
    <3> QED
      BY <3>1, KeyFacts, DeliveryAssumption
  <2>2. files' = [files EXCEPT ![r][i] = @ + 1]
    BY <1>4 DEF StoreFile
  <2> HIDE DEF r, i
  <2>3. [files[r] EXCEPT ![i] = @ + 1] \in [1..MaxFiles -> Nat]
    <3> DEFINE f == files[r]
    <3>1. f \in [1..MaxFiles -> Nat]
      BY <2>1 DEF Types
    <3> HIDE DEF f
    <3>2. [f EXCEPT ![i] = @ + 1] \in [1..MaxFiles -> Nat]
      BY <2>1, <3>1
    <3> QED
      BY <3>2 DEF f
  <2>4. files' \in [Rows -> [1..MaxFiles -> Nat]]
    BY <2>1, <2>2, <2>3 DEF Types
  <2> QED
    BY <1>1, <1>4, <2>4 DEF StoreFile, Types, trunkVars, rowVars
<1> QED
  BY <1>2, <1>3, <1>4

\* A room is deleted.
LEMMA RoomTypes ==
  ASSUME Types, NEW m \in Rooms, DropMessages(m) \/ DropRoom(m)
  PROVE  Types'
<1>1. CASE DropMessages(m)
  <2>1. early' \in [Rows -> [Rows -> Nat]]
    BY <1>1 DEF DropMessages, Types
  <2>2. texts' \in [Rows -> Nat] /\ files' \in [Rows -> [1..MaxFiles -> Nat]]
    BY <1>1 DEF DropMessages, Types
  <2> QED
    BY <1>1, <2>1, <2>2 DEF DropMessages, Types, trunkVars, rowVars
<1>2. CASE DropRoom(m)
  BY <1>2 DEF DropRoom, Types, trunkVars, rowVars
<1> QED
  BY <1>1, <1>2

\* The host restarts.
LEMMA CrashTypes ==
  ASSUME Types, Crash
  PROVE  Types'
<1>1. Idle \in Call /\ Resting \in Pass
  BY DeliveryAssumption DEF Idle, Call, Stages, Resting, Pass, PassStages
<1>2. crashes' \in 0..MaxUpsets
  <2> DEFINE n == Cardinality({m \in Rooms : rooms[m] # "there"})
  <2>1. n \in Nat
    BY FS_Subset, FS_CardinalityType, DeliveryAssumption
  <2>2. crashes + n < MaxUpsets /\ crashes' = crashes + 1
    BY DEF Crash, Upsets
  <2> HIDE DEF n
  <2> QED
    BY <2>1, <2>2, DeliveryAssumption DEF Types
<1>3. pending' \in Seq(Entry)
  BY DEF Crash
<1> QED
  BY <1>1, <1>2, <1>3, DeliveryAssumption DEF Crash, Types, rowVars, storeVars

\* A pass takes a step.
LEMMA PassTypes ==
  ASSUME Types, \A q \in Passes : PassTrue(q), NEW p \in Passes,
         \/ PassList(p) \/ PassRead(p) \/ PassRow(p) \/ Probe(p) \/ Replay(p) \/ PassNext(p)
  PROVE  Types'
<1> DEFINE f == pass[p]
<1>0. f \in Pass /\ Resting \in Pass
  BY DeliveryAssumption DEF Types, Resting, Pass, PassStages
<1>1. CASE PassList(p)
  <2>1. [Resting EXCEPT !.stage = "sessions",
                        !.listed = {s \in Sessions : rooms[Home[s]] # "gone"},
                        !.old = {r \in Rows : age[r] = "old"}] \in Pass
    BY <1>0 DEF Pass, PassStages
  <2> QED
    BY <1>1, <2>1 DEF PassList, passOnly, Types, trunkVars, rowVars
<1>2. CASE PassRead(p)
  <2>1. PICK s \in f.listed :
          LET rows == {r \in Rows \ f.old : Session[r] = s /\ status[r] # "none"} IN
          pass' = [pass EXCEPT ![p] =
                    [f EXCEPT !.stage = "rows", !.listed = @ \ {s}, !.todo = rows,
                              !.settled = {r \in rows : status[r] = "delivered"}]]
    BY <1>2 DEF PassRead
  <2> DEFINE rows == {r \in Rows \ f.old : Session[r] = s /\ status[r] # "none"}
  <2>2. [f EXCEPT !.stage = "rows", !.listed = @ \ {s}, !.todo = rows,
                  !.settled = {r \in rows : status[r] = "delivered"}] \in Pass
    BY <1>0 DEF Pass, PassStages
  <2>3. pass' \in [Passes -> Pass]
    BY <2>1, <2>2 DEF Types
  <2> QED
    BY <1>2, <2>3 DEF PassRead, passOnly, Types, trunkVars, rowVars
<1>3. CASE PassRow(p)
  <2>1. PICK r \in f.todo :
          LET skip == r \in seen \/ age[r] = "fresh" \/ r \notin f.settled
              next == [f EXCEPT !.todo = @ \ {r}]
          IN  /\ seen' = IF ~skip /\ Text(r) = NoText THEN seen \cup {r} ELSE seen
              /\ pass' = [pass EXCEPT ![p] =
                            IF skip \/ Text(r) = NoText THEN next
                            ELSE [next EXCEPT !.stage = "probe", !.row = r]]
    BY <1>3 DEF PassRow
  <2>2. r \in Rows
    BY <1>0 DEF Pass
  <2> DEFINE next == [f EXCEPT !.todo = @ \ {r}]
  <2>3. next \in Pass /\ [next EXCEPT !.stage = "probe", !.row = r] \in Pass
    BY <1>0, <2>2 DEF Pass, PassStages
  <2>4. pass' \in [Passes -> Pass] /\ seen' \subseteq Rows
    BY <2>1, <2>2, <2>3 DEF Types
  <2> QED
    BY <1>3, <2>4 DEF PassRow, passOnly, Types, trunkVars, rowVars
<1>4. CASE Probe(p) \/ Replay(p)
  <2>1. f.row \in Rows
    BY <1>4 DEF Probe, Replay, PassTrue
  <2>2. /\ [f EXCEPT !.stage = "rows", !.row = NoRow] \in Pass
        /\ [f EXCEPT !.stage = "store"] \in Pass
    BY <1>0 DEF Pass, PassStages
  <2>3. pass' \in [Passes -> Pass] /\ seen' \subseteq Rows
    <3> HIDE DEF Pass
    <3>1. CASE Probe(p)
      <4>1. seen' \subseteq Rows
        BY <2>1, <3>1 DEF Probe, Types
      <4>2. \E x \in Pass : pass' = [pass EXCEPT ![p] = x]
        BY <2>2, <3>1 DEF Probe
      <4> QED
        BY <4>1, <4>2 DEF Types
    <3>2. CASE Replay(p)
      BY <2>1, <2>2, <3>2 DEF Replay, Types
    <3> QED
      BY <1>4, <3>1, <3>2
  <2>4. texts' \in [Rows -> Nat]
    <3>1. CASE Probe(p)
      BY <3>1 DEF Probe, Types
    <3>2. CASE Replay(p)
      <4>1. texts' = [texts EXCEPT ![f.row] = @ + 1] \/ texts' = texts
        BY <3>2 DEF Replay
      <4>2. texts \in [Rows -> Nat]
        BY DEF Types
      <4> HIDE DEF f
      <4> QED
        BY <2>1, <4>1, <4>2
    <3> QED
      BY <1>4, <3>1, <3>2
  <2> QED
    BY <1>4, <2>3, <2>4 DEF Probe, Replay, passOnly, Types, trunkVars, rowVars
<1>5. CASE PassNext(p)
  <2>1. [f EXCEPT !.stage = "sessions"] \in Pass
    BY <1>0 DEF Pass, PassStages
  <2>2. pass' \in [Passes -> Pass]
    BY <1>0, <1>5, <2>1 DEF PassNext, Types
  <2> QED
    BY <1>5, <2>2 DEF PassNext, passOnly, Types, trunkVars, rowVars
<1> QED
  BY <1>1, <1>2, <1>3, <1>4, <1>5

\* The types, of every step.
LEMMA TypesStep ==
  ASSUME Base, [Next]_vars
  PROVE  Types'
<1>1. Types /\ EntriesTrue /\ (\A r \in Rows : RowTrue(r)) /\ (\A s \in Sessions : CallTrue(s))
      /\ \A p \in Passes : PassTrue(p)
  BY DEF Base
<1>2. CASE UNCHANGED vars
  BY <1>1, <1>2 DEF vars, trunkVars, rowVars, storeVars, Types
<1> QED
  BY <1>1, <1>2, WriteTypes, TrunkTypes, DeliverTypes, RoomTypes, CrashTypes, PassTypes DEF Next
\* A row once written keeps its content; its status only goes on.
LEMMA RowMoves ==
  ASSUME Base, [Next]_vars, NEW r \in Rows
  PROVE  /\ \/ status'[r] = status[r]
            \/ status[r] = "none" /\ status'[r] = "due"
            \/ status[r] = "due" /\ status'[r] \in {"delivered", "failed"}
         /\ content'[r] = content[r] \/ (status[r] = "none" /\ status'[r] = "due")
<1> USE DEF Base, Types
<1>1. CASE \E q \in Rows : Write(q)
  BY <1>1 DEF Write
<1>2. CASE \E q \in Rows : Age(q) \/ Deliver(q) \/ Miss(q)
  BY <1>2 DEF Age, Deliver, Miss, trunkVars, rowVars
<1>3. CASE \E s \in Sessions : Throw(s)
  <2>1. PICK s \in Sessions : Throw(s)
    BY <1>3
  <2>2. status[call[s].row] = "due"
    BY <2>1 DEF Throw, CallTrue
  <2>3. content' = content
    BY <2>1 DEF Throw, rowVars
  <2>4. \E g \in {"due", "failed"} : status' = [status EXCEPT ![call[s].row] = g]
    BY <2>1 DEF Throw
  <2> QED
    BY <2>2, <2>3, <2>4
<1>4. CASE \E s \in Sessions : Mark(s)
  <2>1. PICK s \in Sessions : Mark(s)
    BY <1>4
  <2>2. status[call[s].row] = "due"
    BY <2>1 DEF Mark, CallTrue
  <2> QED
    BY <2>1, <2>2 DEF Mark, rowVars
<1>5. CASE \E s \in Sessions : LookUp(s) \/ Begin(s) \/ StoreText(s) \/ StoreFile(s)
  BY <1>5 DEF LookUp, Begin, StoreText, StoreFile, trunkVars, rowVars
<1>6. CASE \E m \in Rooms : DropMessages(m) \/ DropRoom(m)
  BY <1>6 DEF DropMessages, DropRoom, trunkVars, rowVars
<1>7. CASE \E p \in Passes : PassList(p) \/ PassRead(p) \/ PassRow(p)
  BY <1>7 DEF PassList, PassRead, PassRow, passOnly, trunkVars, rowVars
<1>8. CASE \E p \in Passes : Probe(p) \/ Replay(p) \/ PassNext(p)
  BY <1>8 DEF Probe, Replay, PassNext, passOnly, trunkVars, rowVars
<1>9. CASE Crash
  BY <1>9 DEF Crash, rowVars
<1>10. CASE UNCHANGED vars
  BY <1>10 DEF vars, trunkVars, rowVars
<1> QED
  BY <1>1, <1>2, <1>3, <1>4, <1>5, <1>6, <1>7, <1>8, <1>9, <1>10 DEF Next

\* And so its key.
LEMMA KeyKept ==
  ASSUME Base, [Next]_vars, NEW r \in Rows, status[r] # "none"
  PROVE  /\ status'[r] # "none" /\ content'[r] = content[r] /\ Key(r)' = Key(r)
         /\ Text(r)' = Text(r) /\ Files(r)' = Files(r)
<1>1. status'[r] # "none" /\ content'[r] = content[r]
  BY RowMoves
<1> QED
  BY <1>1 DEF Key, Text, Files

\* Rooms do not come back.
LEMMA RoomMoves ==
  ASSUME Base, [Next]_vars, NEW m \in Rooms
  PROVE  /\ rooms[m] = "gone" => rooms'[m] = "gone"
         /\ rooms'[m] = "there" => rooms[m] = "there"
<1> USE DEF Base, Types
<1>1. CASE \E q \in Rows : Write(q) \/ Age(q) \/ Deliver(q) \/ Miss(q)
  BY <1>1 DEF Write, Age, Deliver, Miss, storeVars
<1>2. CASE \E s \in Sessions : Throw(s) \/ Mark(s) \/ LookUp(s)
  BY <1>2 DEF Throw, Mark, LookUp, storeVars
<1>3. CASE \E s \in Sessions : Begin(s) \/ StoreText(s) \/ StoreFile(s)
  BY <1>3 DEF Begin, StoreText, StoreFile, storeVars
<1>4. CASE \E n \in Rooms : DropMessages(n) \/ DropRoom(n)
  BY <1>4 DEF DropMessages, DropRoom
<1>5. CASE \E p \in Passes : PassList(p) \/ PassRead(p) \/ PassRow(p)
  BY <1>5 DEF PassList, PassRead, PassRow, passOnly
<1>6. CASE \E p \in Passes : Probe(p) \/ Replay(p) \/ PassNext(p)
  BY <1>6 DEF Probe, Replay, PassNext, passOnly
<1>7. CASE Crash
  BY <1>7 DEF Crash, storeVars
<1>8. CASE UNCHANGED vars
  BY <1>8 DEF vars, storeVars
<1> QED
  BY <1>1, <1>2, <1>3, <1>4, <1>5, <1>6, <1>7, <1>8 DEF Next

\* A row that is not written has nothing stored.
LEMMA UnwrittenEmpty ==
  ASSUME Base, [Next]_vars, NEW r \in Rows, status'[r] = "none"
  PROVE  /\ texts'[r] = 0 /\ \A i \in 1..MaxFiles : files'[r][i] = 0
         /\ \A q \in Rows : early'[q][r] = 0
<1> USE DEF Base, Types
<1>1. status[r] = "none"
  BY RowMoves
<1>2. texts[r] = 0 /\ (\A i \in 1..MaxFiles : files[r][i] = 0) /\ \A q \in Rows : early[q][r] = 0
  BY <1>1 DEF RowTrue
<1>3. CASE \E q \in Rows : Write(q)
  <2>1. PICK q \in Rows, long \in BOOLEAN : early' = [early EXCEPT ![q] =
           [x \in Rows |-> IF long /\ status[x] # "due" THEN texts[x] ELSE 0]]
    BY <1>3 DEF Write
  <2>2. texts' = texts /\ files' = files
    BY <1>3 DEF Write
  <2> QED
    BY <1>2, <2>1, <2>2
<1>4. CASE \E q \in Rows : Age(q) \/ Deliver(q) \/ Miss(q)
  BY <1>2, <1>4 DEF Age, Deliver, Miss, storeVars
<1>5. CASE \E s \in Sessions : Throw(s) \/ Mark(s) \/ LookUp(s) \/ Begin(s)
  BY <1>2, <1>5 DEF Throw, Mark, LookUp, Begin, storeVars
<1>6. CASE \E s \in Sessions : StoreText(s) \/ StoreFile(s)
  <2>1. PICK s \in Sessions : StoreText(s) \/ StoreFile(s)
    BY <1>6
  <2>2. call[s].row \in Rows /\ call[s].row # r
    BY <1>1, <2>1 DEF StoreText, StoreFile, CallTrue
  <2>3. /\ texts' = texts \/ texts' = [texts EXCEPT ![call[s].row] = @ + 1]
        /\ files' = files \/ files' = [files EXCEPT ![call[s].row][call[s].files + 1] = @ + 1]
        /\ early' = early
    BY <2>1 DEF StoreText, StoreFile
  <2> QED
    BY <1>2, <2>2, <2>3
<1>7. CASE \E m \in Rooms : DropMessages(m)
  BY <1>2, <1>7 DEF DropMessages
<1>8. CASE \E m \in Rooms : DropRoom(m)
  BY <1>2, <1>8 DEF DropRoom
<1>9. CASE \E p \in Passes : PassList(p) \/ PassRead(p) \/ PassRow(p) \/ Probe(p) \/ PassNext(p)
  BY <1>2, <1>9 DEF PassList, PassRead, PassRow, Probe, PassNext, passOnly
<1>10. CASE \E p \in Passes : Replay(p)
  <2>1. PICK p \in Passes : Replay(p)
    BY <1>10
  <2>2. pass[p].row # r
    BY <1>1, <2>1 DEF Replay, PassTrue
  <2>3. /\ texts' = texts \/ texts' = [texts EXCEPT ![pass[p].row] = @ + 1]
        /\ files' = files /\ early' = early
    BY <2>1 DEF Replay, passOnly
  <2> QED
    BY <1>2, <2>2, <2>3
<1>11. CASE Crash
  BY <1>2, <1>11 DEF Crash, storeVars
<1>12. CASE UNCHANGED vars
  BY <1>2, <1>12 DEF vars, storeVars
<1> QED
  BY <1>3, <1>4, <1>5, <1>6, <1>7, <1>8, <1>9, <1>10, <1>11, <1>12 DEF Next

\* A row that may be tried has a call left.
LEMMA TriesLeft ==
  ASSUME Base, [Next]_vars, NEW r \in Rows, status'[r] \in {"none", "due"}
  PROVE  tries'[r] < MaxTries
<1> USE DeliveryAssumption DEF Base, Types
<1>0. status[r] \in {"none", "due"} /\ tries[r] < MaxTries
  BY RowMoves DEF RowTrue
<1>1. CASE \E q \in Rows : Write(q)
  BY <1>0, <1>1 DEF Write
<1>2. CASE \E q \in Rows : Age(q) \/ Deliver(q) \/ Miss(q)
  BY <1>0, <1>2 DEF Age, Deliver, Miss, trunkVars
<1>3. CASE \E s \in Sessions : Throw(s)
  <2>1. PICK s \in Sessions : Throw(s)
    BY <1>3
  <2> QED
    BY <1>0, <2>1 DEF Throw
<1>4. CASE \E s \in Sessions : Mark(s)
  BY <1>0, <1>4 DEF Mark
<1>5. CASE \E s \in Sessions : LookUp(s) \/ Begin(s) \/ StoreText(s) \/ StoreFile(s)
  BY <1>0, <1>5 DEF LookUp, Begin, StoreText, StoreFile, trunkVars
<1>6. CASE \E m \in Rooms : DropMessages(m) \/ DropRoom(m)
  BY <1>0, <1>6 DEF DropMessages, DropRoom, trunkVars
<1>7. CASE \E p \in Passes : PassList(p) \/ PassRead(p) \/ PassRow(p)
  BY <1>0, <1>7 DEF PassList, PassRead, PassRow, passOnly, trunkVars
<1>8. CASE \E p \in Passes : Probe(p) \/ Replay(p) \/ PassNext(p)
  BY <1>0, <1>8 DEF Probe, Replay, PassNext, passOnly, trunkVars
<1>9. CASE Crash
  BY <1>9 DEF Crash
<1>10. CASE UNCHANGED vars
  BY <1>0, <1>10 DEF vars, trunkVars
<1> QED
  BY <1>1, <1>2, <1>3, <1>4, <1>5, <1>6, <1>7, <1>8, <1>9, <1>10 DEF Next
\* What is true of a row stays true.
LEMMA RowsStep ==
  ASSUME Base, [Next]_vars, NEW r \in Rows
  PROVE  RowTrue(r)'
<1>1. status'[r] = "none" => content'[r] = [text |-> NoText, files |-> 0]
  BY RowMoves DEF Base, RowTrue
<1> QED
  BY <1>1, UnwrittenEmpty, TriesLeft DEF RowTrue

\* A key once known stays known.
LEMMA KnownKept ==
  ASSUME Base, [Next]_vars, NEW k, Known(k)
  PROVE  Known(k)'
<1>1. PICK r \in Rows : status[r] # "none" /\ Key(r) = k
  BY DEF Known
<1>2. status'[r] # "none" /\ Key(r)' = k
  BY <1>1, KeyKept
<1> QED
  BY <1>2 DEF Known

\* Only a call's own progress and a crash change the entries.
LEMMA PendingKept ==
  ASSUME [Next]_vars, ~Crash, \A s \in Sessions : ~(Begin(s) \/ StoreText(s) \/ StoreFile(s))
  PROVE  pending' = pending
<1>1. CASE \E r \in Rows : Write(r) \/ Age(r) \/ Deliver(r) \/ Miss(r)
  BY <1>1 DEF Write, Age, Deliver, Miss
<1>2. CASE \E s \in Sessions : Throw(s) \/ Mark(s) \/ LookUp(s)
  BY <1>2 DEF Throw, Mark, LookUp
<1>3. CASE \E m \in Rooms : DropMessages(m) \/ DropRoom(m)
  BY <1>3 DEF DropMessages, DropRoom
<1>4. CASE \E p \in Passes : PassList(p) \/ PassRead(p) \/ PassRow(p)
  BY <1>4 DEF PassList, PassRead, PassRow, passOnly
<1>5. CASE \E p \in Passes : Probe(p) \/ Replay(p) \/ PassNext(p)
  BY <1>5 DEF Probe, Replay, PassNext, passOnly
<1>6. CASE UNCHANGED vars
  BY <1>6 DEF vars
<1> QED
  BY <1>1, <1>2, <1>3, <1>4, <1>5, <1>6 DEF Next

\* What is true of the entries stays true.
LEMMA EntriesStep ==
  ASSUME Base, [Next]_vars
  PROVE  EntriesTrue'
<1>1. Types /\ EntriesTrue
  BY DEF Base
<1>2. CASE \E s \in Sessions : Begin(s) \/ StoreText(s) \/ StoreFile(s)
  <2>1. PICK s \in Sessions : Begin(s) \/ StoreText(s) \/ StoreFile(s)
    BY <1>2
  <2>2. CallTrue(s) /\ call[s].row \in Rows /\ status[call[s].row] = "due"
    BY <2>1 DEF Base, CallTrue, Begin, StoreText, StoreFile
  <2>3. PICK c \in Call : Advance(s, c)
    BY <1>1, <2>1, <2>2, BeginDoes, StoreDoes DEF Advance
  <2>4. Single(pending')
    BY <2>3 DEF Advance
  <2>5. c.row \in Rows /\ Known(Key(c.row)) /\ Progress(c).key = Key(c.row)
    BY <1>1, <2>2, <2>3, ProgressIs DEF Advance, Known
  <2>6. \A x \in Range(pending') : Known(x.key)
    BY <1>1, <2>3, <2>5 DEF Advance, EntriesTrue
  <2>7. \A x \in Range(pending') : Known(x.key)'
    BY <2>6, KnownKept
  <2> QED
    BY <2>4, <2>7 DEF EntriesTrue, Single
<1>3. CASE Crash
  <2>1. pending' = <<>>
    BY <1>3 DEF Crash
  <2>2. DOMAIN pending' = {} /\ Range(pending') = {}
    BY <2>1 DEF Range
  <2> QED
    BY <2>2 DEF EntriesTrue, Single
<1>4. CASE ~Crash /\ \A s \in Sessions : ~(Begin(s) \/ StoreText(s) \/ StoreFile(s))
  <2>1. pending' = pending
    BY <1>4, PendingKept
  <2>2. \A x \in Range(pending) : Known(x.key)'
    BY <1>1, KnownKept DEF EntriesTrue
  <2> QED
    BY <1>1, <2>1, <2>2 DEF EntriesTrue, Single
<1> QED
  BY <1>2, <1>3, <1>4

\* A call that is not touched stays true, if it is still its row's turn and no
\* entry of its key has come.
LEMMA CallStays ==
  ASSUME Base, [Next]_vars, NEW s \in Sessions, CallTrue(s), call'[s] = call[s],
         call[s].stage # "idle" => status'[call[s].row] = "due",
         \A x \in Range(pending') : \/ x \in Range(pending)
                                    \/ ~\E r \in Rows : Session[r] = s /\ x.key = Key(r)
  PROVE  CallTrue(s)'
<1> DEFINE c == call[s]  r == call[s].row
<1>1. CASE c.stage = "idle"
  BY <1>1 DEF CallTrue
<1>2. CASE c.stage # "idle"
  <2>1. r \in Rows /\ Session[r] = s /\ status[r] = "due" /\ Types
    BY <1>2 DEF CallTrue, Base
  <2>2. Key(r)' = Key(r) /\ Text(r)' = Text(r) /\ Files(r)' = Files(r)
    BY <2>1, KeyKept
  <2>3. (rooms[Room[r]] = "gone" => rooms'[Room[r]] = "gone")
    BY <2>1, KeyFacts, RoomMoves
  <2>4. Absent(Key(r)) => Absent(Key(r))'
    BY <2>1, <2>2 DEF Absent
  <2> QED
    BY <1>2, <2>1, <2>2, <2>3, <2>4 DEF CallTrue
<1> QED
  BY <1>1, <1>2

\* A call that has gone on is true.
LEMMA CallGoesOn ==
  ASSUME Base, [Next]_vars, NEW s \in Sessions, NEW r \in Rows, call[s].row = r,
         Session[r] = s, status[r] = "due", status'[r] = "due", NEW c, Advance(s, c)
  PROVE  CallTrue(s)'
<1> DEFINE d == [c EXCEPT !.stage = NextStage(c)]
<1>1. c \in Call /\ c.row = r /\ Types
  BY DEF Advance, Base
<1>2. d.row = r /\ d.text = c.text /\ d.files = c.files /\ d.stage = NextStage(c)
  BY <1>1 DEF Call
<1>3. call'[s] = d
  BY DEF Advance, Base, Types
<1>4. Key(r)' = Key(r) /\ Text(r)' = Text(r) /\ Files(r)' = Files(r)
  BY <1>1, KeyKept
<1>5. Key(r)[3] = Text(r) /\ Key(r)[4] = Files(r) /\ Files(r) \in Nat /\ c.files \in Nat
  BY <1>1, KeyFacts DEF Call
<1>6. NextStage(c) = "return" =>
        /\ \A x \in Range(pending') : x.key # Key(r)
        /\ \A i \in 0..Files(r) : Says(Key(r), i) => Has(d, i)
  <2> SUFFICES ASSUME NextStage(c) = "return"
               PROVE  /\ \A x \in Range(pending') : x.key # Key(r)
                      /\ \A i \in 0..Files(r) : Says(Key(r), i) => Has(d, i)
    OBVIOUS
  <2>1. \A x \in Range(pending') : x.key # Key(r)
    BY <1>1 DEF Advance
  <2>2. (Text(r) = NoText \/ c.text) /\ ~(c.files < Files(r))
    BY <1>1 DEF NextStage
  <2> HIDE DEF d
  <2>3. \A i \in 0..Files(r) : Says(Key(r), i) => Has(d, i)
    BY <1>2, <1>5, <2>2 DEF Says, Has
  <2> QED
    BY <2>1, <2>3
<1>7. NextStage(c) \in {"text", "file", "return"}
      /\ (NextStage(c) = "text" => ~c.text /\ Text(r) # NoText)
      /\ (NextStage(c) = "file" => (Text(r) = NoText \/ c.text) /\ c.files < Files(r))
  BY <1>1 DEF NextStage
<1> QED
  BY <1>1, <1>2, <1>3, <1>4, <1>6, <1>7 DEF CallTrue, Absent
\* What the others do leaves a call alone.
LEMMA Untouched ==
  ASSUME Base, [Next]_vars, ~Crash, NEW s \in Sessions,
         ~(LookUp(s) \/ Begin(s) \/ StoreText(s) \/ StoreFile(s) \/ Throw(s) \/ Mark(s)),
         \A r \in Rows : Session[r] = s => ~Deliver(r)
  PROVE  /\ call'[s] = call[s]
         /\ call[s].stage # "idle" => status'[call[s].row] = "due"
         /\ \A x \in Range(pending') : \/ x \in Range(pending)
                                       \/ ~\E r \in Rows : Session[r] = s /\ x.key = Key(r)
<1>0. /\ Types /\ EntriesTrue /\ \A t \in Sessions : CallTrue(t)
      /\ call \in [Sessions -> Call] /\ status \in [Rows -> {"none", "due", "delivered", "failed"}]
  BY DEF Base, Types
<1>1. call[s].stage # "idle" =>
        call[s].row \in Rows /\ Session[call[s].row] = s /\ status[call[s].row] = "due"
  BY <1>0 DEF CallTrue
<1>2. CASE \E r \in Rows : Write(r) \/ Age(r)
  BY <1>0, <1>1, <1>2 DEF Write, Age, trunkVars
<1>3. CASE \E r \in Rows : Deliver(r)
  BY <1>0, <1>1, <1>3, DeliveryAssumption DEF Deliver, trunkVars
<1>4. CASE \E r \in Rows : Miss(r)
  <2>1. PICK r \in Rows : Miss(r)
    BY <1>4
  <2>2. Session[r] = s => call[s].stage = "idle"
    BY <2>1 DEF Miss, Idle
  <2> QED
    BY <1>0, <1>1, <2>1, <2>2 DEF Miss
<1>5. CASE \E t \in Sessions : LookUp(t)
  BY <1>0, <1>1, <1>5 DEF LookUp, trunkVars
<1>6. CASE \E t \in Sessions : Throw(t) \/ Mark(t)
  <2>1. PICK t \in Sessions : Throw(t) \/ Mark(t)
    BY <1>6
  <2>2. t # s
    BY <2>1
  <2>3. call[t].row \in Rows /\ Session[call[t].row] = t
    BY <1>0, <2>1 DEF Throw, Mark, CallTrue
  <2>4. call' = [call EXCEPT ![t] = Idle] /\ pending' = pending
    BY <2>1 DEF Throw, Mark
  <2>5. \E g : status' = [status EXCEPT ![call[t].row] = g]
    BY <2>1 DEF Throw, Mark
  <2> QED
    BY <1>0, <1>1, <2>2, <2>3, <2>4, <2>5
<1>7. CASE \E t \in Sessions : Begin(t) \/ StoreText(t) \/ StoreFile(t)
  <2>1. PICK t \in Sessions : Begin(t) \/ StoreText(t) \/ StoreFile(t)
    BY <1>7
  <2>2. t # s
    BY <2>1
  <2>3. PICK r \in Rows : r = call[t].row /\ Session[r] = t
    BY <1>0, <2>1 DEF Begin, StoreText, StoreFile, CallTrue
  <2>4. PICK c \in Call : Advance(t, c)
    BY <1>0, <2>1, BeginDoes, StoreDoes DEF Advance
  <2>5. status' = status
    BY <2>1 DEF Begin, StoreText, StoreFile, trunkVars
  <2>6. call'[s] = call[s]
    BY <1>0, <2>2, <2>4 DEF Advance
  <2>7. \A x \in Range(pending') : x \in Range(pending) \/ x.key = Key(r)
    BY <1>0, <2>3, <2>4, ProgressIs DEF Advance
  <2>8. \A q \in Rows : Key(q) = Key(r) => Session[q] = t
    BY <1>0, <2>3, OneSession
  <2> QED
    BY <1>1, <2>2, <2>5, <2>6, <2>7, <2>8
<1>8. CASE \E m \in Rooms : DropMessages(m) \/ DropRoom(m)
  BY <1>1, <1>8 DEF DropMessages, DropRoom, trunkVars
<1>9. CASE \E p \in Passes : PassList(p) \/ PassRead(p) \/ PassRow(p)
  BY <1>1, <1>9 DEF PassList, PassRead, PassRow, passOnly, trunkVars
<1>10. CASE \E p \in Passes : Probe(p) \/ Replay(p) \/ PassNext(p)
  BY <1>1, <1>10 DEF Probe, Replay, PassNext, passOnly, trunkVars
<1>11. CASE UNCHANGED vars
  BY <1>1, <1>11 DEF vars, trunkVars
<1> QED
  BY <1>2, <1>3, <1>4, <1>5, <1>6, <1>7, <1>8, <1>9, <1>10, <1>11 DEF Next

\* What is true of a call stays true.
LEMMA CallsStep ==
  ASSUME Base, [Next]_vars, NEW s \in Sessions
  PROVE  CallTrue(s)'
<1>0. /\ Types /\ EntriesTrue /\ CallTrue(s) /\ call \in [Sessions -> Call]
      /\ status \in [Rows -> {"none", "due", "delivered", "failed"}]
  BY DEF Base, Types
<1>1. ASSUME call'[s] = Idle PROVE CallTrue(s)'
  BY <1>1 DEF CallTrue, Idle
<1>2. CASE Crash \/ Throw(s) \/ Mark(s)
  <2>1. call'[s] = Idle
    BY <1>0, <1>2 DEF Crash, Throw, Mark
  <2> QED
    BY <1>1, <2>1
<1>3. CASE \E r \in Rows : Session[r] = s /\ Deliver(r)
  <2>1. PICK r \in Rows : Session[r] = s /\ Deliver(r)
    BY <1>3
  <2>2. call'[s] = [Idle EXCEPT !.row = r, !.stage = "room"] /\ status'[r] = "due"
    BY <1>0, <2>1 DEF Deliver, trunkVars
  <2> QED
    BY <2>1, <2>2 DEF CallTrue, Idle
<1>4. CASE LookUp(s)
  <2>1. PICK r \in Rows : r = call[s].row /\ Session[r] = s /\ status[r] = "due"
    BY <1>0, <1>4 DEF LookUp, CallTrue
  <2>2. ~call[s].text /\ call[s].files = 0
    BY <1>0, <1>4 DEF LookUp, CallTrue
  <2>3. PICK g \in Stages : /\ g = IF rooms[Room[r]] = "gone" THEN "return" ELSE "begin"
                            /\ call' = [call EXCEPT ![s].stage = g]
    BY <1>4, <2>1 DEF LookUp, Stages
  <2>4. call'[s] = [call[s] EXCEPT !.stage = g]
    BY <1>0, <2>3
  <2>5. call'[s].row = r /\ call'[s].stage = g /\ ~call'[s].text /\ call'[s].files = 0
    BY <1>0, <2>1, <2>2, <2>4 DEF Call
  <2>6. status'[r] = "due" /\ rooms' = rooms
    BY <1>4, <2>1 DEF LookUp, trunkVars, storeVars
  <2> QED
    BY <2>1, <2>3, <2>5, <2>6 DEF CallTrue
<1>5. CASE Begin(s) \/ StoreText(s) \/ StoreFile(s)
  <2>1. PICK r \in Rows : call[s].row = r /\ Session[r] = s /\ status[r] = "due"
    BY <1>0, <1>5 DEF Begin, StoreText, StoreFile, CallTrue
  <2>2. PICK c \in Call : Advance(s, c)
    BY <1>0, <1>5, BeginDoes, StoreDoes DEF Advance
  <2>3. status'[r] = "due"
    BY <1>5, <2>1 DEF Begin, StoreText, StoreFile, trunkVars
  <2> QED
    BY <2>1, <2>2, <2>3, CallGoesOn
<1>6. CASE /\ ~(LookUp(s) \/ Begin(s) \/ StoreText(s) \/ StoreFile(s) \/ Throw(s) \/ Mark(s))
           /\ ~Crash /\ \A r \in Rows : Session[r] = s => ~Deliver(r)
  BY <1>0, <1>6, Untouched, CallStays
<1> QED
  BY <1>2, <1>3, <1>4, <1>5, <1>6

\* What is true of a pass stays true.
LEMMA PassesStep ==
  ASSUME Base, [Next]_vars, NEW p \in Passes
  PROVE  PassTrue(p)'
<1>0. /\ Types /\ PassTrue(p) /\ pass \in [Passes -> Pass]
      /\ status \in [Rows -> {"none", "due", "delivered", "failed"}]
  BY DEF Base, Types
<1>1. \A r \in Rows : status[r] = "delivered" => status'[r] = "delivered" /\ Text(r)' = Text(r)
  BY RowMoves, KeyKept
<1>2. pass[p].settled \subseteq Rows /\ pass[p].todo \subseteq Rows
  BY <1>0 DEF Pass
<1>3. ASSUME pass'[p].settled \subseteq pass[p].settled, 
             pass'[p].stage \in {"probe", "store"} =>
               pass[p].stage \in {"probe", "store"} /\ pass'[p].row = pass[p].row
      PROVE  PassTrue(p)'
  BY <1>0, <1>1, <1>2, <1>3 DEF PassTrue
<1>4. CASE pass' = pass
  BY <1>3, <1>4
<1>5. CASE \E q \in Passes : PassList(q) \/ PassRead(q) \/ PassRow(q) \/ Probe(q) \/ Replay(q) \/ PassNext(q)
  <2>1. PICK q \in Passes : PassList(q) \/ PassRead(q) \/ PassRow(q) \/ Probe(q) \/ Replay(q) \/ PassNext(q)
    BY <1>5
  <2>2. CASE q # p
    <3>1. pass'[p] = pass[p]
      BY <1>0, <2>1, <2>2 DEF PassList, PassRead, PassRow, Probe, Replay, PassNext
    <3> QED
      BY <1>3, <3>1
  <2>3. CASE q = p /\ PassList(p)
    <3>1. pass'[p].stage = "sessions" /\ pass'[p].settled = {}
      BY <1>0, <2>3 DEF PassList, Resting
    <3> QED
      BY <1>3, <3>1
  <2>4. CASE q = p /\ PassRead(p)
    <3>1. PICK s \in pass[p].listed :
            LET rows == {r \in Rows \ pass[p].old : Session[r] = s /\ status[r] # "none"} IN
            pass' = [pass EXCEPT ![p] =
                      [pass[p] EXCEPT !.stage = "rows", !.listed = @ \ {s}, !.todo = rows,
                                !.settled = {r \in rows : status[r] = "delivered"}]]
      BY <2>4 DEF PassRead
    <3>2. /\ pass'[p].stage = "rows"
          /\ pass'[p].settled \subseteq {r \in Rows : status[r] = "delivered"}
      BY <1>0, <3>1 DEF Pass
    <3> QED
      BY <1>1, <3>2 DEF PassTrue
  <2>5. CASE q = p /\ PassRow(p)
    <3>1. pass[p] \in Pass /\ pass[p].stage = "rows"
      BY <1>0, <2>5 DEF PassRow
    <3>2. PICK r \in pass[p].todo :
            LET skip == r \in seen \/ age[r] = "fresh" \/ r \notin pass[p].settled
                next == [pass[p] EXCEPT !.todo = @ \ {r}]
            IN  pass' = [pass EXCEPT ![p] =
                            IF skip \/ Text(r) = NoText THEN next
                            ELSE [next EXCEPT !.stage = "probe", !.row = r]]
      BY <2>5 DEF PassRow
    <3>3. \E x \in Pass :
             /\ pass'[p] = x /\ x.settled = pass[p].settled
             /\ \/ x.stage = "rows"
                \/ x.stage = "probe" /\ x.row = r /\ r \in x.settled /\ Text(r) # NoText
      <4> DEFINE f == pass[p]  x1 == [f EXCEPT !.todo = @ \ {r}]
                 x2 == [f EXCEPT !.todo = @ \ {r}, !.stage = "probe", !.row = r]
      <4>1. x1 \in Pass /\ x1.settled = f.settled /\ x1.stage = "rows"
        BY <3>1 DEF Pass
      <4>2. x2 \in Pass /\ x2.settled = f.settled /\ x2.stage = "probe" /\ x2.row = r
        BY <1>2, <3>1 DEF Pass, PassStages
      <4>3. \/ pass'[p] = x1
            \/ pass'[p] = x2 /\ r \in f.settled /\ Text(r) # NoText
        BY <1>0, <3>2
      <4> HIDE DEF x1, x2
      <4> QED
        BY <4>1, <4>2, <4>3
    <3>4. CASE r \in pass[p].settled /\ Text(r) # NoText
      <4>1. status[r] = "delivered" /\ r \in Rows
        BY <1>0, <1>2, <3>4 DEF PassTrue
      <4>2. /\ pass'[p].settled = pass[p].settled
            /\ pass'[p].stage \in {"probe", "store"} => pass'[p].row = r
        BY <3>1, <3>3
      <4> QED
        BY <1>0, <1>1, <1>2, <3>4, <4>1, <4>2 DEF PassTrue
    <3>5. CASE ~(r \in pass[p].settled /\ Text(r) # NoText)
      <4>1. pass'[p].settled = pass[p].settled /\ pass'[p].stage = "rows"
        BY <3>1, <3>3, <3>5
      <4> QED
        BY <1>3, <4>1
    <3> QED
      BY <3>4, <3>5
  <2>6. CASE q = p /\ Probe(p)
    <3>1. \E g \in {"rows", "store"} : \E r : /\ pass'[p] = [pass[p] EXCEPT !.stage = g, !.row = r]
                                              /\ g = "store" => r = pass[p].row
      <4>1. pass'[p] = [pass[p] EXCEPT !.stage = "rows", !.row = NoRow]
            \/ pass'[p] = [pass[p] EXCEPT !.stage = "store", !.row = pass[p].row]
        BY <1>0, <2>6 DEF Probe, Pass
      <4> QED
        BY <4>1
    <3>2. /\ pass'[p].settled = pass[p].settled
          /\ pass'[p].stage = "store" => pass'[p].row = pass[p].row
          /\ pass'[p].stage \in {"rows", "store"}
      BY <1>0, <3>1 DEF Pass
    <3> QED
      BY <1>3, <2>6, <3>2 DEF Probe
  <2>7. CASE q = p /\ Replay(p)
    <3>1. pass'[p].settled = pass[p].settled /\ pass'[p].stage = "rows"
      BY <1>0, <2>7 DEF Replay, Pass
    <3> QED
      BY <1>3, <3>1
  <2>8. CASE q = p /\ PassNext(p)
    <3>1. pass'[p] = Resting \/ pass'[p] = [pass[p] EXCEPT !.stage = "sessions"]
      BY <1>0, <2>8 DEF PassNext
    <3>2. pass'[p].settled \subseteq pass[p].settled /\ pass'[p].stage \in {"idle", "sessions"}
      BY <1>0, <3>1 DEF Pass, Resting
    <3> QED
      BY <1>3, <3>2
  <2> QED
    BY <2>1, <2>2, <2>3, <2>4, <2>5, <2>6, <2>7, <2>8
<1>6. CASE Crash
  <2>1. pass'[p] = Resting
    BY <1>6 DEF Crash
  <2> QED
    BY <1>3, <2>1 DEF Resting
<1>7. CASE \E r \in Rows : Write(r) \/ Age(r) \/ Deliver(r) \/ Miss(r)
  BY <1>4, <1>7 DEF Write, Age, Deliver, Miss
<1>8. CASE \E s \in Sessions : Throw(s) \/ Mark(s) \/ LookUp(s)
  BY <1>4, <1>8 DEF Throw, Mark, LookUp
<1>9. CASE \E s \in Sessions : Begin(s) \/ StoreText(s) \/ StoreFile(s)
  BY <1>4, <1>9 DEF Begin, StoreText, StoreFile
<1>10. CASE \E m \in Rooms : DropMessages(m) \/ DropRoom(m)
  BY <1>4, <1>10 DEF DropMessages, DropRoom
<1>11. CASE UNCHANGED vars
  BY <1>4, <1>11 DEF vars
<1> QED
  BY <1>5, <1>6, <1>7, <1>8, <1>9, <1>10, <1>11 DEF Next

\* A row newly seen is one a pass has in hand: it has no text, it has just been
\* found or it has just been stored.
LEMMA SeenGrows ==
  ASSUME Base, [Next]_vars, NEW r \in seen', r \notin seen
  PROVE  /\ r \in Rows /\ status[r] = "delivered"
         /\ \/ Text(r) = NoText
            \/ Found(r) /\ texts' = texts
            \/ texts' = [texts EXCEPT ![r] = @ + 1]
<1>0. /\ Types /\ (\A p \in Passes : PassTrue(p)) /\ pass \in [Passes -> Pass]
  BY DEF Base, Types
<1>1. CASE \E p \in Passes : PassRow(p)
  <2>1. PICK p \in Passes : PassRow(p)
    BY <1>1
  <2>2. PICK q \in pass[p].todo :
          LET skip == q \in seen \/ age[q] = "fresh" \/ q \notin pass[p].settled
          IN  seen' = IF ~skip /\ Text(q) = NoText THEN seen \cup {q} ELSE seen
    BY <2>1 DEF PassRow
  <2>3. r = q /\ q \in pass[p].settled /\ Text(q) = NoText
    BY <2>2
  <2>4. pass[p].settled \subseteq Rows
    BY <1>0 DEF Pass
  <2> QED
    BY <1>0, <2>3, <2>4 DEF PassTrue
<1>2. CASE \E p \in Passes : Probe(p)
  BY <1>0, <1>2 DEF Probe, PassTrue
<1>3. CASE \E p \in Passes : Replay(p)
  BY <1>0, <1>3 DEF Replay, PassTrue
<1>4. CASE \E p \in Passes : PassList(p) \/ PassRead(p) \/ PassNext(p)
  BY <1>4 DEF PassList, PassRead, PassNext
<1>5. CASE Crash
  BY <1>5 DEF Crash
<1>6. CASE \E q \in Rows : Write(q) \/ Age(q) \/ Deliver(q) \/ Miss(q)
  BY <1>6 DEF Write, Age, Deliver, Miss
<1>7. CASE \E s \in Sessions : Throw(s) \/ Mark(s) \/ LookUp(s)
  BY <1>7 DEF Throw, Mark, LookUp
<1>8. CASE \E s \in Sessions : Begin(s) \/ StoreText(s) \/ StoreFile(s)
  BY <1>8 DEF Begin, StoreText, StoreFile
<1>9. CASE \E m \in Rooms : DropMessages(m) \/ DropRoom(m)
  BY <1>9 DEF DropMessages, DropRoom
<1>10. CASE UNCHANGED vars
  BY <1>10 DEF vars
<1> QED
  BY <1>1, <1>2, <1>3, <1>4, <1>5, <1>6, <1>7, <1>8, <1>9, <1>10 DEF Next

\* Base holds at first.
LEMMA BaseInit ==
  ASSUME Init
  PROVE  Base
<1>1. Types
  BY TypesInit
<1>2. EntriesTrue
  BY DEF Init, EntriesTrue, Single, Range
<1>3. \A r \in Rows : RowTrue(r)
  BY DeliveryAssumption DEF Init, RowTrue
<1>4. \A s \in Sessions : CallTrue(s)
  BY DEF Init, CallTrue, Idle
<1>5. \A p \in Passes : PassTrue(p)
  BY DEF Init, PassTrue, Resting
<1> QED
  BY <1>1, <1>2, <1>3, <1>4, <1>5 DEF Base, Init

\* Every step keeps Base.
LEMMA BaseStep ==
  ASSUME Base, [Next]_vars
  PROVE  Base'
<1>1. Types'
  BY TypesStep
<1>2. \A r \in seen' : status'[r] = "delivered"
  BY SeenGrows, RowMoves DEF Base, Types
<1> QED
  BY <1>1, <1>2, EntriesStep, RowsStep, CallsStep, PassesStep DEF Base

\* Base is an invariant.
LEMMA BaseHolds == Spec => []Base
  BY BaseInit, BaseStep, PTL DEF Spec

\* And the type invariant follows from it.
LEMMA BaseIsTyped ==
  ASSUME Base
  PROVE  TypeOK
<1>1. Types /\ EntriesTrue
  BY DEF Base
<1>2. ASSUME NEW i \in DOMAIN pending
      PROVE  (\E r \in Rows : pending[i].key = Key(r)) /\ Places(pending[i].key) = {i}
  <2>1. pending \in Seq(Entry) /\ i \in 1..Len(pending) /\ pending[i] \in Range(pending)
    BY <1>1, <1>2, EntriesOf DEF Types, Range
  <2>2. Known(pending[i].key)
    BY <1>1, <2>1 DEF EntriesTrue
  <2>3. \A j \in 1..Len(pending) : pending[j].key = pending[i].key => j = i
    BY <1>1, <2>1, EntriesOf DEF EntriesTrue, Single
  <2> QED
    BY <2>1, <2>2, <2>3 DEF Known, Places
<1>3. ASSUME NEW s \in Sessions
      PROVE  /\ call[s].stage \in {"idle", "room", "begin", "text", "file", "return"}
             /\ call[s].stage # "idle" => Session[call[s].row] = s /\ status[call[s].row] = "due"
  BY <1>1 DEF Base, Types, Call, Stages, CallTrue
<1>4. ASSUME NEW p \in Passes
      PROVE  /\ pass[p].stage \in {"idle", "sessions", "rows", "probe", "store"}
             /\ pass[p].todo \cup pass[p].settled \cup pass[p].old \subseteq Rows
  <2>1. pass[p] \in Pass
    BY <1>1 DEF Types
  <2> QED
    BY <2>1 DEF Pass, PassStages
<1> QED
  BY <1>1, <1>2, <1>3, <1>4 DEF Types, TypeOK, Texts

\* The types of rows, messages, calls and passes; a content has one entry.
THEOREM DeliveryTypeCorrect == Spec => []TypeOK
  BY BaseHolds, BaseIsTyped, PTL

-----------------------------------------------------------------------------
(* What a step does to the messages.                                       *)

\* deliver, or a replay, stores a part of a row.
Stored(r, i) == \E s \in Sessions :
  /\ r = call[s].row
  /\ (StoreText(s) /\ i = 0) \/ (StoreFile(s) /\ i = call[s].files + 1)
Replayed(r, i) == i = 0 /\ \E p \in Passes : Replay(p) /\ r = pass[p].row

\* The messages with a part of a row.
LEMMA PartIs ==
  ASSUME Types, NEW i \in 0..MaxFiles
  PROVE  /\ \A q \in Rows : /\ Part(i)[q] \in Nat
                            /\ Part(i)[q] = IF i = 0 THEN texts[q] ELSE files[q][i]
  BY DeliveryAssumption DEF Types, Part

\* And after a step.
LEMMA PartIsThen ==
  ASSUME Types', NEW i \in 0..MaxFiles
  PROVE  /\ \A q \in Rows : /\ Part(i)'[q] \in Nat
                            /\ Part(i)'[q] = IF i = 0 THEN texts'[q] ELSE files'[q][i]
  BY DeliveryAssumption DEF Types, Part

\* A room whose messages are deleted is going.
LEMMA RoomDropped ==
  ASSUME NEW m \in Rooms, Types, DropMessages(m)
  PROVE  rooms'[m] = "going"
  BY DEF DropMessages, Types

\* That row has one more of that part, and the room is not dropped meanwhile.
LEMMA StoredAdds ==
  ASSUME Base, [Next]_vars, NEW i \in 0..MaxFiles, NEW r \in Rows, Stored(r, i)
  PROVE  /\ status[r] = "due" /\ \A m \in Rooms : ~DropMessages(m)
         /\ \A q \in Rows : Part(i)'[q] = IF q = r THEN Part(i)[q] + 1 ELSE Part(i)[q]
<1>0. /\ Types /\ Types' /\ \A s \in Sessions : CallTrue(s)
      /\ texts \in [Rows -> Nat] /\ files \in [Rows -> [1..MaxFiles -> Nat]]
  BY TypesStep DEF Base, Types
<1>1. PICK s \in Sessions : 
        r = call[s].row /\ ((StoreText(s) /\ i = 0) \/ (StoreFile(s) /\ i = call[s].files + 1))
  BY DEF Stored
<1>2. status[r] = "due"
  BY <1>0, <1>1 DEF StoreText, StoreFile, CallTrue
<1>3. \A m \in Rooms : ~DropMessages(m)
  <2>1. rooms' = rooms
    BY <1>1 DEF StoreText, StoreFile
  <2> QED
    BY <1>0, <2>1, RoomDropped DEF DropMessages
<1>4. CASE StoreText(s) /\ i = 0
  <2>1. texts' = [texts EXCEPT ![r] = @ + 1]
    BY <1>1, <1>4 DEF StoreText
  <2>2. \A q \in Rows : Part(i)'[q] = IF q = r THEN Part(i)[q] + 1 ELSE Part(i)[q]
    BY <1>0, <1>4, <2>1, PartIs, PartIsThen
  <2> QED
    BY <1>2, <1>3, <2>2
<1>5. CASE StoreFile(s) /\ i = call[s].files + 1
  <2> DEFINE F == [1..MaxFiles -> Nat]  f == files[r]
  <2>1. files \in [Rows -> F] /\ i \in 1..MaxFiles
    <3>1. call[s].files \in 0..MaxFiles
      BY <1>0 DEF Types, Call
    <3> QED
      BY <1>0, <1>5, <3>1, DeliveryAssumption
  <2>2. files' = [files EXCEPT ![r][i] = @ + 1]
    BY <1>1, <1>5 DEF StoreFile
  <2> HIDE DEF F
  <2>3. f \in F
    BY <2>1
  <2>4. files'[r] = [f EXCEPT ![i] = @ + 1]
    BY <2>1, <2>2
  <2>5. \A q \in Rows \ {r} : files'[q] = files[q]
    BY <2>1, <2>2
  <2> USE DEF F
  <2> HIDE DEF f
  <2>6. files'[r][i] = f[i] + 1
    BY <2>1, <2>3, <2>4
  <2>7. \A q \in Rows : files'[q][i] = IF q = r THEN files[q][i] + 1 ELSE files[q][i]
    BY <2>5, <2>6 DEF f
  <2>8. i # 0 /\ i \in 0..MaxFiles
    BY <2>1
  <2>9. \A q \in Rows : Part(i)'[q] = IF q = r THEN Part(i)[q] + 1 ELSE Part(i)[q]
    BY <1>0, <2>7, <2>8, PartIs, PartIsThen
  <2> QED
    BY <1>2, <1>3, <2>9
<1> QED
  BY <1>1, <1>4, <1>5

\* A part of a row is stored, goes with its room, or stays.
LEMMA PartStep ==
  ASSUME Base, [Next]_vars, NEW i \in 0..MaxFiles
  PROVE  \/ \A q \in Rows : Part(i)'[q] = Part(i)[q]
         \/ \E m \in Rooms :
              /\ DropMessages(m)
              /\ \A q \in Rows : Part(i)'[q] = IF Room[q] = m THEN 0 ELSE Part(i)[q]
         \/ \E r \in Rows :
              /\ status[r] # "none" /\ (Stored(r, i) \/ Replayed(r, i))
              /\ \A q \in Rows : Part(i)'[q] = IF q = r THEN Part(i)[q] + 1 ELSE Part(i)[q]
<1>0. /\ Types /\ Types' /\ \A s \in Sessions : CallTrue(s)
      /\ \A p \in Passes : PassTrue(p)
      /\ texts \in [Rows -> Nat] /\ files \in [Rows -> [1..MaxFiles -> Nat]]
      /\ i = 0 \/ i \in 1..MaxFiles
  <2>1. i = 0 \/ i \in 1..MaxFiles
    BY DeliveryAssumption
  <2> QED
    BY <2>1, BaseStep DEF Base, Types
<1>1. ASSUME texts' = texts, files' = files PROVE \A q \in Rows : Part(i)'[q] = Part(i)[q]
  BY <1>0, <1>1, PartIs, PartIsThen
<1>2. CASE \E q \in Rows : Write(q) \/ Age(q) \/ Deliver(q) \/ Miss(q)
  BY <1>1, <1>2 DEF Write, Age, Deliver, Miss, storeVars
<1>3. CASE \E s \in Sessions : Throw(s) \/ Mark(s) \/ LookUp(s) \/ Begin(s)
  BY <1>1, <1>3 DEF Throw, Mark, LookUp, Begin, storeVars
<1>4. CASE \E s \in Sessions : StoreText(s)
  <2>1. PICK s \in Sessions : StoreText(s)
    BY <1>4
  <2>2. PICK r \in Rows : r = call[s].row /\ status[r] # "none"
    BY <1>0, <2>1 DEF StoreText, CallTrue
  <2>3. texts' = [texts EXCEPT ![r] = @ + 1] /\ files' = files
    BY <2>1, <2>2 DEF StoreText
  <2>4. CASE i = 0
    <3>1. Stored(r, i)
      BY <2>1, <2>2, <2>4 DEF Stored
    <3> QED
      BY <2>2, <3>1, StoredAdds
  <2>5. CASE i # 0
    BY <1>0, <2>3, <2>5, PartIs, PartIsThen
  <2> QED
    BY <2>4, <2>5
<1>5. CASE \E s \in Sessions : StoreFile(s)
  <2>1. PICK s \in Sessions : StoreFile(s)
    BY <1>5
  <2>2. PICK r \in Rows : r = call[s].row /\ status[r] # "none"
    BY <1>0, <2>1 DEF StoreFile, CallTrue
  <2>3. PICK n \in Nat : n = call[s].files + 1
    BY <1>0 DEF Types, Call
  <2>4. texts' = texts /\ files' = [files EXCEPT ![r][n] = @ + 1]
    BY <2>1, <2>2, <2>3 DEF StoreFile
  <2>5. CASE i = n
    <3>1. Stored(r, i)
      BY <2>1, <2>2, <2>3, <2>5 DEF Stored
    <3> QED
      BY <2>2, <3>1, StoredAdds
  <2>6. CASE i # n
    <3>1. i # 0 => \A q \in Rows : files'[q][i] = files[q][i]
      BY <1>0, <2>4, <2>6
    <3> QED
      BY <1>0, <2>4, <3>1, PartIs, PartIsThen
  <2> QED
    BY <2>5, <2>6
<1>6. CASE \E m \in Rooms : DropMessages(m)
  <2>1. PICK m \in Rooms : DropMessages(m)
    BY <1>6
  <2>2. /\ texts' = [r \in Rows |-> IF Room[r] = m THEN 0 ELSE texts[r]]
        /\ files' = [r \in Rows |-> IF Room[r] = m THEN [j \in 1..MaxFiles |-> 0] ELSE files[r]]
    BY <2>1 DEF DropMessages
  <2>3. \A q \in Rows : Part(i)'[q] = IF Room[q] = m THEN 0 ELSE Part(i)[q]
    BY <1>0, <2>2, PartIs, PartIsThen
  <2> QED
    BY <2>1, <2>3
<1>7. CASE \E m \in Rooms : DropRoom(m)
  BY <1>1, <1>7 DEF DropRoom
<1>8. CASE \E p \in Passes : PassList(p) \/ PassRead(p) \/ PassRow(p) \/ Probe(p) \/ PassNext(p)
  BY <1>1, <1>8 DEF PassList, PassRead, PassRow, Probe, PassNext, passOnly
<1>9. CASE \E p \in Passes : Replay(p)
  <2>1. PICK p \in Passes : Replay(p)
    BY <1>9
  <2>2. PICK r \in Rows : r = pass[p].row /\ status[r] # "none"
    BY <1>0, <2>1 DEF Replay, PassTrue
  <2>3. files' = files /\ (texts' = texts \/ texts' = [texts EXCEPT ![r] = @ + 1])
    BY <2>1, <2>2 DEF Replay, passOnly
  <2>4. CASE i = 0 /\ texts' = [texts EXCEPT ![r] = @ + 1]
    <3>1. Replayed(r, i)
      BY <2>1, <2>2, <2>4 DEF Replayed
    <3>2. \A q \in Rows : Part(i)'[q] = IF q = r THEN Part(i)[q] + 1 ELSE Part(i)[q]
      BY <1>0, <2>3, <2>4, PartIs, PartIsThen
    <3> QED
      BY <2>2, <3>1, <3>2
  <2>5. CASE i # 0 \/ texts' = texts
    BY <1>0, <2>3, <2>5, PartIs, PartIsThen
  <2> QED
    BY <2>3, <2>4, <2>5
<1>10. CASE Crash
  BY <1>1, <1>10 DEF Crash, storeVars
<1>11. CASE UNCHANGED vars
  BY <1>1, <1>11 DEF vars, storeVars
<1> QED
  BY <1>2, <1>3, <1>4, <1>5, <1>6, <1>7, <1>8, <1>9, <1>10, <1>11 DEF Next

\* While its room is there, nothing of a row goes.
LEMMA PartGrows ==
  ASSUME Base, [Next]_vars, NEW i \in 0..MaxFiles, NEW q \in Rows, ~DropMessages(Room[q])
  PROVE  Part(i)'[q] >= Part(i)[q]
<1>1. Part(i)[q] \in Nat
  BY PartIs DEF Base
<1> QED
  BY <1>1, PartStep

-----------------------------------------------------------------------------
(* A row reconcile will not look at again.                                 *)

\* SeenStoredAlone is inductive given Base.
LEMMA SeenStep ==
  ASSUME Base, SeenStoredAlone, [Next]_vars
  PROVE  SeenStoredAlone'
<1> SUFFICES ASSUME NEW r \in seen', There(r)', Text(r)' # NoText,
                    \A q \in Rows : Room[q] = Room[r] /\ Text(q)' = Text(r)' => q = r
             PROVE  texts'[r] > 0
  BY DEF SeenStoredAlone
<1>0. Types /\ texts \in [Rows -> Nat] /\ \A q \in Rows : RowTrue(q)
  BY DEF Base, Types
<1>1. r \in Rows /\ status[r] = "delivered"
  BY SeenGrows DEF Base, Types
<1>2. Text(r)' = Text(r)
  BY <1>1, KeyKept
<1>3. \A q \in Rows : Room[q] = Room[r] /\ Text(q) = Text(r) => q = r
  <2> SUFFICES ASSUME NEW q \in Rows, Room[q] = Room[r], Text(q) = Text(r) PROVE q = r
    OBVIOUS
  <2>1. status[q] # "none"
    BY <1>0, <1>2 DEF RowTrue, Text
  <2>2. Text(q)' = Text(q)
    BY <2>1, KeyKept
  <2> QED
    BY <1>2, <2>2
<1>4. rooms[Room[r]] = "there" /\ ~DropMessages(Room[r])
  <2>1. Room[r] \in Rooms /\ rooms'[Room[r]] = "there"
    BY <1>1, DeliveryAssumption DEF There
  <2> QED
    BY <1>0, <2>1, RoomMoves, RoomDropped
<1>5. CASE r \in seen
  <2>1. texts[r] > 0
    BY <1>2, <1>3, <1>4, <1>5 DEF SeenStoredAlone, There
  <2>2. 0 \in 0..MaxFiles
    BY DeliveryAssumption
  <2>3. /\ Part(0)'[r] >= Part(0)[r] /\ Part(0)[r] = texts[r] /\ Part(0)'[r] = texts'[r]
        /\ Part(0)'[r] \in Nat
    BY <1>0, <1>1, <1>4, <2>2, PartGrows, PartIs, PartIsThen, TypesStep
  <2> QED
    BY <1>0, <1>1, <2>1, <2>3
<1>6. CASE r \notin seen
  <2>1. CASE Found(r) /\ texts' = texts
    <3>1. PICK q \in Rows : Room[q] = Room[r] /\ Text(q) = Text(r) /\ texts[q] > early[r][q]
      BY <2>1 DEF Found
    <3>2. q = r /\ early[r][q] \in Nat
      BY <1>1, <1>3, <3>1 DEF Base, Types
    <3> QED
      BY <1>0, <1>1, <2>1, <3>1, <3>2
  <2>2. CASE texts' = [texts EXCEPT ![r] = @ + 1]
    BY <1>0, <1>1, <2>2
  <2> QED
    BY <1>2, <1>6, <2>1, <2>2, SeenGrows
<1> QED
  BY <1>5, <1>6

\* A row reconcile will not look at again, and that is alone in saying what it
\* says in its room, has its message, whatever fails or restarts
\* (reconcile.ts:1-8, 232-250).
THEOREM DeliverySeenStored == Spec => []SeenStoredAlone
<1>1. Init => SeenStoredAlone
  BY DEF Init, SeenStoredAlone
<1> QED
  BY <1>1, SeenStep, BaseHolds, PTL DEF Spec

-----------------------------------------------------------------------------
(* The rows and messages of a key.                                         *)

\* What a key is made of.
LEMMA KeyParts ==
  ASSUME NEW k \in Keys, NEW i \in 0..k[4]
  PROVE  /\ k[1] \in Sessions /\ k[2] \in Rooms /\ k[3] \in Texts /\ k[4] \in 0..MaxFiles
         /\ i \in 0..MaxFiles
<1>1. k[1] \in Sessions /\ k[2] \in Rooms /\ k[3] \in Texts /\ k[4] \in 0..MaxFiles
  BY DEF Keys
<1> QED
  BY <1>1, DeliveryAssumption

\* Some of the rows are finitely many.
LEMMA RowsFinite ==
  ASSUME NEW S \in SUBSET Rows
  PROVE  IsFiniteSet(S) /\ Cardinality(S) \in Nat
  BY FS_Subset, FS_CardinalityType, DeliveryAssumption

\* The rows of a key are joined only by one newly written.
LEMMA KinStep ==
  ASSUME Base, [Next]_vars, NEW k
  PROVE  /\ Kin(k) \subseteq Kin(k)'
         /\ \A q \in Kin(k)' : q \in Kin(k) \/ (status[q] = "none" /\ status'[q] = "due")
<1>1. ASSUME NEW q \in Rows, status[q] # "none" PROVE status'[q] # "none" /\ Key(q)' = Key(q)
  BY <1>1, KeyKept
<1>2. ASSUME NEW q \in Rows, status[q] = "none" PROVE status'[q] \in {"none", "due"}
  BY <1>2, RowMoves
<1> QED
  BY <1>1, <1>2 DEF Kin

\* The messages of a key are a number.
LEMMA KinTotal ==
  ASSUME Base, NEW k \in Keys, NEW i \in 0..k[4]
  PROVE  Total(Kin(k), Part(i)) \in Nat
<1>1. Kin(k) \in SUBSET Rows
  BY DEF Kin
<1>2. \A q \in Kin(k) : Part(i)[q] \in Nat
  BY <1>1, KeyParts, PartIs DEF Base
<1> QED
  BY <1>1, <1>2, RowsFinite, MessagesFinite

\* What a step makes of the messages of a key.
LEMMA TotalStep ==
  ASSUME Base, [Next]_vars, NEW k \in Keys, NEW i \in 0..k[4]
  PROVE  \/ /\ Total(Kin(k), Part(i))' = Total(Kin(k), Part(i))
            /\ \A q \in Kin(k) : Part(i)'[q] = Part(i)[q]
         \/ DropMessages(k[2]) /\ Total(Kin(k), Part(i))' = 0
         \/ \E r \in Kin(k) : /\ Stored(r, i) \/ Replayed(r, i)
                              /\ Total(Kin(k), Part(i))' = Total(Kin(k), Part(i)) + 1
<1> DEFINE S == Kin(k)'  R == Kin(k)  f == Part(i)  g == Part(i)'
<1>1. Total(Kin(k), Part(i))' = Total(S, g)
  BY DEF Total, Messages
<1>2. i \in 0..MaxFiles /\ k[2] \in Rooms
  BY KeyParts
<1>3. R \subseteq S /\ S \subseteq Rows
  BY KinStep DEF Kin
<1>4. \A q \in S \ R : status[q] = "none" /\ f[q] = 0
  <2> SUFFICES ASSUME NEW q \in S, q \notin R PROVE status[q] = "none" /\ f[q] = 0
    OBVIOUS
  <2>1. status[q] = "none" /\ q \in Rows
    BY <1>3, KinStep
  <2>2. texts[q] = 0 /\ \A j \in 1..MaxFiles : files[q][j] = 0
    BY <2>1 DEF Base, RowTrue
  <2>3. i = 0 \/ i \in 1..MaxFiles
    BY <1>2, DeliveryAssumption
  <2>4. f[q] = 0
    BY <1>2, <2>1, <2>2, <2>3, PartIs DEF Base
  <2> QED
    BY <2>1, <2>4
<1>5. \A q \in R : f[q] \in Nat
  BY <1>2, <1>3, PartIs DEF Base
<1>6. IsFiniteSet(R)
  BY <1>3, RowsFinite
<1>7. \A q \in S : Room[q] = k[2]
  BY DEF Kin, Key
<1>8. \/ \A q \in Rows : g[q] = f[q]
      \/ \E m \in Rooms :
           /\ DropMessages(m) /\ \A q \in Rows : g[q] = IF Room[q] = m THEN 0 ELSE f[q]
      \/ \E r \in Rows :
           /\ status[r] # "none" /\ (Stored(r, i) \/ Replayed(r, i))
           /\ \A q \in Rows : g[q] = IF q = r THEN f[q] + 1 ELSE f[q]
  BY <1>2, PartStep
<1> HIDE DEF S, R, f, g
<1>9. ASSUME \A q \in R : g[q] = f[q], \A q \in S \ R : g[q] = 0
      PROVE  Total(S, g) = Total(R, f)
  <2>1. \A q \in R : f[q] = g[q] /\ f[q] \in Nat
    BY <1>5, <1>9
  <2> QED
    BY <1>3, <1>9, <2>1, TotalSame
<1>10. CASE \A q \in Rows : g[q] = f[q]
  <2>1. Total(S, g) = Total(R, f)
    BY <1>3, <1>4, <1>9, <1>10
  <2> QED
    BY <1>1, <1>3, <1>10, <2>1 DEF R, f, g
<1>11. CASE \E m \in Rooms :
              /\ DropMessages(m) /\ \A q \in Rows : g[q] = IF Room[q] = m THEN 0 ELSE f[q]
  <2>1. PICK m \in Rooms :
          /\ DropMessages(m) /\ \A q \in Rows : g[q] = IF Room[q] = m THEN 0 ELSE f[q]
    BY <1>11
  <2>2. CASE m = k[2]
    <3>1. \A q \in S : g[q] = 0
      BY <1>3, <1>7, <2>1, <2>2
    <3>2. Total(S, g) = 0
      BY <3>1, TotalNone
    <3> QED
      BY <1>1, <2>1, <2>2, <3>2
  <2>3. CASE m # k[2]
    <3>1. \A q \in S : g[q] = f[q]
      BY <1>3, <1>7, <2>1, <2>3
    <3>2. Total(S, g) = Total(R, f)
      BY <1>3, <1>4, <1>9, <3>1
    <3> QED
      BY <1>1, <1>3, <3>1, <3>2 DEF R, f, g
  <2> QED
    BY <2>2, <2>3
<1>12. CASE \E r \in Rows :
              /\ status[r] # "none" /\ (Stored(r, i) \/ Replayed(r, i))
              /\ \A q \in Rows : g[q] = IF q = r THEN f[q] + 1 ELSE f[q]
  <2>1. PICK r \in Rows :
          /\ status[r] # "none" /\ (Stored(r, i) \/ Replayed(r, i))
          /\ \A q \in Rows : g[q] = IF q = r THEN f[q] + 1 ELSE f[q]
    BY <1>12
  <2>2. \A q \in S \ R : g[q] = 0
    BY <1>3, <1>4, <2>1
  <2>3. CASE r \notin R
    <3>1. Total(S, g) = Total(R, f)
      BY <1>3, <1>9, <2>1, <2>2, <2>3
    <3> QED
      BY <1>1, <1>3, <2>1, <2>3, <3>1 DEF R, f, g
  <2>4. CASE r \in R
    <3>1. \A q \in R : g[q] \in Nat
      BY <1>3, <1>5, <2>1
    <3>2. Total(R, g) = Total(S, g)
      BY <1>3, <2>2, <3>1, TotalSame
    <3>3. g[r] = f[r] + 1 /\ \A q \in R \ {r} : g[q] = f[q]
      BY <1>3, <2>1
    <3>4. Total(R, g) = Total(R, f) + 1
      BY <1>5, <1>6, <2>4, <3>3, TotalOneMore
    <3> QED
      BY <1>1, <2>1, <2>4, <3>2, <3>4 DEF R, f
  <2> QED
    BY <2>3, <2>4
<1> QED
  BY <1>8, <1>10, <1>11, <1>12

\* deliver is answered for one row more, with the call that brings the answer.
LEMMA DoneStep ==
  ASSUME Base, [Next]_vars, NEW k
  PROVE  \/ Done(k)' = Done(k)
         \/ \E s \in Sessions : /\ Mark(s) /\ Key(call[s].row) = k
                                /\ Done(k)' = Done(k) \cup {call[s].row}
<1>0. /\ \A s \in Sessions : CallTrue(s)
      /\ status \in [Rows -> {"none", "due", "delivered", "failed"}] /\ missed \subseteq Rows
  BY DEF Base, Types
<1>1. \A q \in Rows : status[q] # "none" => Key(q)' = Key(q)
  BY KeyKept
<1>2. \A q \in Rows : status[q] = "none" => status'[q] # "delivered"
  BY RowMoves
<1>3. Done(k) = {q \in Rows : status[q] = "delivered" /\ Key(q) = k /\ q \notin missed}
  BY DEF Done, Kin
<1>4. Done(k)' = {q \in Rows : status'[q] = "delivered" /\ Key(q) = k /\ q \notin missed'}
  <2>1. Done(k)' = {q \in Rows : status'[q] = "delivered" /\ Key(q)' = k /\ q \notin missed'}
    BY DEF Done, Kin
  <2> QED
    BY <1>1, <1>2, <2>1
<1>5. ASSUME \A q \in Rows : status'[q] = "delivered" /\ q \notin missed' <=>
                               status[q] = "delivered" /\ q \notin missed
      PROVE  Done(k)' = Done(k)
  BY <1>3, <1>4, <1>5
<1>6. CASE \E q \in Rows : Write(q)
  BY <1>0, <1>5, <1>6 DEF Write
<1>7. CASE \E q \in Rows : Age(q) \/ Deliver(q) \/ Miss(q)
  BY <1>0, <1>5, <1>7 DEF Age, Deliver, Miss, trunkVars
<1>8. CASE \E s \in Sessions : Throw(s)
  <2>1. PICK s \in Sessions : Throw(s)
    BY <1>8
  <2>2. \E g \in {"due", "failed"} : status' = [status EXCEPT ![call[s].row] = g]
    BY <2>1 DEF Throw
  <2>3. status[call[s].row] = "due" /\ missed' = missed
    BY <1>0, <2>1 DEF Throw, CallTrue
  <2> QED
    BY <1>0, <1>5, <2>2, <2>3
<1>9. CASE \E s \in Sessions : Mark(s)
  <2>1. PICK s \in Sessions : Mark(s)
    BY <1>9
  <2>2. PICK r \in Rows : r = call[s].row /\ status[r] = "due"
    BY <1>0, <2>1 DEF Mark, CallTrue
  <2>3. status' = [status EXCEPT ![r] = "delivered"] /\ missed' = missed
    BY <2>1, <2>2 DEF Mark
  <2>4. CASE Key(r) # k
    BY <1>0, <1>3, <1>4, <2>2, <2>3, <2>4
  <2>5. CASE Key(r) = k
    <3>1. CASE r \notin missed
      <4>1. Done(k)' = Done(k) \cup {r}
        BY <1>0, <1>3, <1>4, <2>2, <2>3, <2>5, <3>1
      <4> QED
        BY <2>1, <2>2, <2>5, <4>1
    <3>2. CASE r \in missed
      BY <1>0, <1>3, <1>4, <2>2, <2>3, <3>2
    <3> QED
      BY <3>1, <3>2
  <2> QED
    BY <2>4, <2>5
<1>10. CASE \E s \in Sessions : LookUp(s) \/ Begin(s) \/ StoreText(s) \/ StoreFile(s)
  BY <1>5, <1>10 DEF LookUp, Begin, StoreText, StoreFile, trunkVars
<1>11. CASE \E m \in Rooms : DropMessages(m) \/ DropRoom(m)
  BY <1>5, <1>11 DEF DropMessages, DropRoom, trunkVars
<1>12. CASE \E p \in Passes : PassList(p) \/ PassRead(p) \/ PassRow(p)
  BY <1>5, <1>12 DEF PassList, PassRead, PassRow, passOnly, trunkVars
<1>13. CASE \E p \in Passes : Probe(p) \/ Replay(p) \/ PassNext(p)
  BY <1>5, <1>13 DEF Probe, Replay, PassNext, passOnly, trunkVars
<1>14. CASE Crash
  BY <1>5, <1>14 DEF Crash
<1>15. CASE UNCHANGED vars
  BY <1>5, <1>15 DEF vars, trunkVars
<1> QED
  BY <1>6, <1>7, <1>8, <1>9, <1>10, <1>11, <1>12, <1>13, <1>14, <1>15 DEF Next

-----------------------------------------------------------------------------
(* What is remembered.                                                     *)

\* A call that has stored nothing has nothing.
LEMMA NothingYet ==
  ASSUME NEW c, ~c.text, c.files = 0, NEW i \in Nat
  PROVE  ~Has(c, i)
  BY DEF Has

\* What a step makes of a call.
LEMMA CallMoves ==
  ASSUME Base, [Next]_vars, NEW s \in Sessions
  PROVE  \/ call'[s] = call[s]
         \/ ~call'[s].text /\ call'[s].files = 0
         \/ Begin(s) \/ StoreText(s) \/ StoreFile(s)
<1>0. /\ Types /\ EntriesTrue /\ CallTrue(s) /\ call \in [Sessions -> Call]
  BY DEF Base, Types
<1>1. CASE Crash \/ Throw(s) \/ Mark(s)
  <2>1. call'[s] = Idle
    BY <1>0, <1>1 DEF Crash, Throw, Mark
  <2> QED
    BY <2>1 DEF Idle
<1>2. CASE \E r \in Rows : Session[r] = s /\ Deliver(r)
  <2>1. PICK r \in Rows : Session[r] = s /\ Deliver(r)
    BY <1>2
  <2>2. call'[s] = [Idle EXCEPT !.row = r, !.stage = "room"]
    BY <1>0, <2>1 DEF Deliver
  <2> QED
    BY <2>2 DEF Idle
<1>3. CASE LookUp(s)
  <2>1. ~call[s].text /\ call[s].files = 0
    BY <1>0, <1>3 DEF LookUp, CallTrue
  <2>2. \E g : call'[s] = [call[s] EXCEPT !.stage = g]
    BY <1>0, <1>3 DEF LookUp
  <2> QED
    BY <1>0, <2>1, <2>2 DEF Call
<1>4. CASE /\ ~(LookUp(s) \/ Begin(s) \/ StoreText(s) \/ StoreFile(s) \/ Throw(s) \/ Mark(s))
           /\ ~Crash /\ \A r \in Rows : Session[r] = s => ~Deliver(r)
  BY <1>4, Untouched
<1> QED
  BY <1>1, <1>2, <1>3, <1>4

\* A call has what its entry had, and what it has just stored.
LEMMA AdvanceHas ==
  ASSUME Base, NEW s \in Sessions, Begin(s) \/ StoreText(s) \/ StoreFile(s), NEW i \in Nat
  PROVE  \E c \in Call :
           /\ Advance(s, c) /\ c.row \in Rows /\ status[c.row] = "due"
           /\ Has(c, i) => Held(Key(c.row), i) \/ Stored(c.row, i)
<1>0. /\ Types /\ EntriesTrue /\ CallTrue(s) /\ call[s] \in Call
  BY DEF Base, Types
<1>1. PICK r \in Rows : r = call[s].row /\ status[r] = "due"
  BY <1>0 DEF Begin, StoreText, StoreFile, CallTrue
<1>2. CASE Begin(s)
  <2>1. PICK c \in Call :
          /\ Advance(s, c)
          /\ Progress(c) \in Range(pending) \/ (~c.text /\ c.files = 0)
    BY <1>0, <1>2, BeginDoes
  <2>2. c.row = r
    BY <1>1, <2>1 DEF Advance
  <2>3. Has(c, i) => Held(Key(c.row), i)
    BY <1>0, <2>1, <2>2, NothingYet, ProgressIs DEF Held
  <2> QED
    BY <1>1, <2>1, <2>2, <2>3
<1>3. CASE StoreText(s) \/ StoreFile(s)
  <2>1. PICK c : c = After(s)
    OBVIOUS
  <2>2. Advance(s, c) /\ c \in Call /\ c.row = r
    BY <1>0, <1>1, <1>3, <2>1, StoreDoes DEF Advance
  <2>3. Has(c, i) => Has(call[s], i) \/ Stored(r, i)
    <3>1. CASE StoreText(s)
      <4>1. c = [call[s] EXCEPT !.text = TRUE]
        BY <2>1, <3>1 DEF StoreText, After
      <4>2. c.files = call[s].files
        BY <1>0, <4>1 DEF Call
      <4> QED
        BY <1>1, <3>1, <4>2 DEF Has, Stored
    <3>2. CASE StoreFile(s)
      <4>1. c = [call[s] EXCEPT !.files = @ + 1]
        BY <2>1, <3>2 DEF StoreFile, After
      <4>2. c.text = call[s].text /\ c.files = call[s].files + 1 /\ call[s].files \in Nat
        BY <1>0, <4>1 DEF Call
      <4> QED
        BY <1>1, <3>2, <4>2 DEF Has, Stored
    <3> QED
      BY <1>3, <3>1, <3>2
  <2>4. Has(call[s], i) => Held(Key(r), i)
    BY <1>1, <1>3 DEF Held, StoreText, StoreFile
  <2> QED
    BY <1>1, <2>2, <2>3, <2>4
<1> QED
  BY <1>2, <1>3

\* Nothing is remembered that was not, except what has just been stored.
LEMMA HeldBefore ==
  ASSUME Base, [Next]_vars, NEW k \in Keys, NEW i \in 0..k[4], Held(k, i)'
  PROVE  Held(k, i) \/ \E r \in Kin(k) : Stored(r, i)
<1>0. /\ Types /\ \A s \in Sessions : CallTrue(s)
      /\ i \in Nat
  BY KeyParts DEF Base
<1>1. ASSUME NEW s \in Sessions, Begin(s) \/ StoreText(s) \/ StoreFile(s)
      PROVE  Held(k, i) \/ \E r \in Kin(k) : Stored(r, i)
  <2>1. PICK c \in Call :
          /\ Advance(s, c) /\ c.row \in Rows /\ status[c.row] = "due"
          /\ Has(c, i) => Held(Key(c.row), i) \/ Stored(c.row, i)
    BY <1>0, <1>1, AdvanceHas
  <2>2. PICK r \in Rows : r = c.row /\ status[r] # "none"
    BY <2>1
  <2>3. Key(r) = k /\ Has(c, i) => Held(k, i) \/ \E q \in Kin(k) : Stored(q, i)
    BY <2>1, <2>2 DEF Kin
  <2>4. CASE \E x \in Range(pending') : x.key = k /\ Has(x, i)
    <3>1. PICK x \in Range(pending') : x.key = k /\ Has(x, i)
      BY <2>4
    <3>2. x \in Range(pending) \/ x = Progress(c)
      BY <2>1 DEF Advance
    <3>3. CASE x \in Range(pending)
      BY <3>1, <3>3 DEF Held
    <3>4. CASE x = Progress(c)
      <4>1. Key(r) = k /\ Has(c, i)
        BY <1>0, <2>1, <2>2, <3>1, <3>4, ProgressIs
      <4> QED
        BY <2>3, <4>1
    <3> QED
      BY <3>2, <3>3, <3>4
  <2>5. CASE \E t \in Sessions : /\ call'[t].stage # "idle" /\ Key(call[t].row)' = k
                                 /\ Has(call'[t], i)
    <3>1. PICK t \in Sessions : /\ call'[t].stage # "idle" /\ Key(call[t].row)' = k
                                /\ Has(call'[t], i)
      BY <2>5
    <3>2. PICK d : d = call'[t]
      OBVIOUS
    <3>3. CASE t = s
      <4>1. d = [c EXCEPT !.stage = NextStage(c)]
        BY <1>0, <2>1, <3>2, <3>3 DEF Advance, Types
      <4>2. d.row = r /\ d.text = c.text /\ d.files = c.files
        BY <2>2, <4>1 DEF Call
      <4>3. Has(c, i) /\ Key(r)' = k
        BY <3>1, <3>2, <4>2 DEF Has
      <4>4. Key(r) = k
        BY <2>2, <4>3, KeyKept
      <4> QED
        BY <2>3, <4>3, <4>4
    <3>4. CASE t # s
      <4>1. call'[t] = call[t]
        BY <1>0, <2>1, <3>4 DEF Advance, Types
      <4>2. PICK q \in Rows : q = call[t].row /\ status[q] = "due"
        BY <1>0, <3>1, <4>1 DEF CallTrue
      <4>3. Key(q)' = k
        BY <3>1, <4>1, <4>2
      <4>4. Key(q) = k
        BY <4>2, <4>3, KeyKept
      <4> QED
        BY <3>1, <4>1, <4>2, <4>4 DEF Held
    <3> QED
      BY <3>3, <3>4
  <2> QED
    BY <2>4, <2>5 DEF Held
<1>2. CASE \A s \in Sessions : ~(Begin(s) \/ StoreText(s) \/ StoreFile(s))
  <2>1. Range(pending') \subseteq Range(pending)
    <3>1. CASE Crash
      BY <3>1 DEF Crash, Range
    <3>2. CASE ~Crash
      <4>1. pending' = pending
        BY <1>2, <3>2, PendingKept
      <4> QED
        BY <4>1
    <3> QED
      BY <3>1, <3>2
  <2>2. CASE \E x \in Range(pending') : x.key = k /\ Has(x, i)
    BY <2>1, <2>2 DEF Held
  <2>3. CASE \E t \in Sessions : /\ call'[t].stage # "idle" /\ Key(call[t].row)' = k
                                 /\ Has(call'[t], i)
    <3>1. PICK t \in Sessions : /\ call'[t].stage # "idle" /\ Key(call[t].row)' = k
                                /\ Has(call'[t], i)
      BY <2>3
    <3>2. call'[t] = call[t]
      BY <1>0, <1>2, <3>1, CallMoves, NothingYet
    <3>3. PICK q \in Rows : q = call[t].row /\ status[q] = "due"
      BY <1>0, <3>1, <3>2 DEF CallTrue
    <3>4. Key(q)' = k
      BY <3>1, <3>2, <3>3
    <3>5. Key(q) = k
      BY <3>3, <3>4, KeyKept
    <3> QED
      BY <3>1, <3>2, <3>3, <3>5 DEF Held
  <2> QED
    BY <2>2, <2>3 DEF Held
<1> QED
  BY <1>1, <1>2

\* A call that brings the answer had all its row says, and leaves nothing.
LEMMA MarkHeld ==
  ASSUME Base, [Next]_vars, NEW k \in Keys, NEW i \in 0..k[4], NEW s \in Sessions, Mark(s),
         Key(call[s].row) = k, rooms[k[2]] # "gone", Says(k, i)
  PROVE  Held(k, i) /\ ~Held(k, i)'
<1>0. Types /\ (\A t \in Sessions : CallTrue(t)) /\ call \in [Sessions -> Call]
  BY DEF Base, Types
<1>1. PICK r \in Rows : r = call[s].row /\ Session[r] = s /\ Key(r) = k /\ status[r] = "due"
  BY <1>0 DEF Mark, CallTrue
<1>2. Room[r] = k[2] /\ Files(r) = k[4]
  BY <1>0, <1>1, KeyFacts
<1>3. Absent(k) /\ Has(call[s], i)
  BY <1>0, <1>1, <1>2 DEF Mark, CallTrue
<1>4. Held(k, i)
  BY <1>1, <1>3 DEF Held, Mark
<1>5. call' = [call EXCEPT ![s] = Idle] /\ pending' = pending
  BY DEF Mark
<1>6. ASSUME NEW t \in Sessions, call'[t].stage # "idle", Key(call[t].row)' = k PROVE FALSE
  <2>1. t # s /\ call'[t] = call[t]
    BY <1>0, <1>5, <1>6 DEF Idle
  <2>2. PICK q \in Rows : q = call[t].row /\ Session[q] = t /\ status[q] = "due"
    BY <1>0, <1>6, <2>1 DEF CallTrue
  <2>3. Key(q)' = k
    BY <1>6, <2>1, <2>2
  <2>4. Key(q) = Key(r)
    BY <1>1, <2>2, <2>3, KeyKept
  <2> QED
    BY <1>0, <1>1, <2>1, <2>2, <2>4, OneSession
<1> QED
  BY <1>3, <1>4, <1>5, <1>6 DEF Held, Absent

-----------------------------------------------------------------------------
(* No reply is lost.                                                       *)

\* What is stored of a row counts.
LEMMA StoredCounts ==
  ASSUME Base, [Next]_vars, NEW k \in Keys, NEW i \in 0..k[4], NEW r \in Kin(k), Stored(r, i)
  PROVE  Total(Kin(k), Part(i))' = Total(Kin(k), Part(i)) + 1
<1>1. i \in 0..MaxFiles /\ r \in Rows /\ k[2] \in Rooms
  BY KeyParts DEF Kin
<1>2. Part(i)'[r] = Part(i)[r] + 1 /\ Part(i)[r] \in Nat /\ ~DropMessages(k[2])
  BY <1>1, StoredAdds, PartIs DEF Base
<1>3. Part(i)'[r] # Part(i)[r]
  BY <1>2
<1> QED
  BY <1>2, <1>3, TotalStep

\* Enough holds at first.
LEMMA EnoughInit ==
  ASSUME Init
  PROVE  Enough
<1> SUFFICES ASSUME NEW k \in Keys, NEW i \in 0..k[4]
             PROVE  Cardinality(Done(k)) + One(Held(k, i)) <= Total(Kin(k), Part(i))
  BY DEF Enough
<1>1. Done(k) = {} /\ ~Held(k, i)
  BY DEF Init, Done, Kin, Held, Range, Idle
<1>2. Cardinality(Done(k)) = 0
  BY <1>1, FS_EmptySet
<1>3. Total(Kin(k), Part(i)) \in Nat
  BY BaseInit, KinTotal
<1> QED
  BY <1>1, <1>2, <1>3 DEF One

\* Every step keeps Enough.
LEMMA EnoughStep ==
  ASSUME Base, Enough, [Next]_vars
  PROVE  Enough'
<1> SUFFICES ASSUME NEW k \in Keys, NEW i \in 0..k[4], rooms'[k[2]] = "there", Says(k, i)
             PROVE  Cardinality(Done(k)') + One(Held(k, i)') <= Total(Kin(k), Part(i))'
  BY DEF Enough, One
<1> DEFINE T == Total(Kin(k), Part(i))  TT == Total(Kin(k), Part(i))'
           D == Cardinality(Done(k))  DD == Cardinality(Done(k)')
<1>1. rooms[k[2]] = "there" /\ ~DropMessages(k[2])
  BY KeyParts, RoomMoves, RoomDropped DEF Base
<1>2. D + One(Held(k, i)) <= T
  BY <1>1 DEF Enough
<1>3. T \in Nat /\ (TT = T \/ TT = T + 1)
  BY <1>1, KinTotal, TotalStep
<1>4. D \in Nat
  BY RowsFinite DEF Done, Kin
<1>5. CASE \E s \in Sessions : /\ Mark(s) /\ Key(call[s].row) = k
                              /\ Done(k)' = Done(k) \cup {call[s].row}
  <2>1. PICK s \in Sessions : /\ Mark(s) /\ Key(call[s].row) = k
                              /\ Done(k)' = Done(k) \cup {call[s].row}
    BY <1>5
  <2>2. Held(k, i) /\ ~Held(k, i)'
    BY <1>1, <2>1, MarkHeld
  <2>3. DD \in Nat /\ DD <= D + 1
    <3>1. PICK r : Done(k)' = Done(k) \cup {r}
      BY <2>1
    <3>2. IsFiniteSet(Done(k))
      BY RowsFinite DEF Done, Kin
    <3>3. DD = IF r \in Done(k) THEN D ELSE D + 1
      BY <3>1, <3>2, FS_AddElement
    <3> HIDE DEF D, DD
    <3> QED
      BY <1>4, <3>3
  <2> HIDE DEF T, TT, D, DD
  <2> QED
    BY <1>2, <1>3, <1>4, <2>2, <2>3 DEF One, TT, DD
<1>6. CASE Done(k)' = Done(k)
  <2>1. DD = D
    BY <1>6
  <2>2. Held(k, i)' => Held(k, i) \/ TT = T + 1
    BY HeldBefore, StoredCounts
  <2> HIDE DEF T, TT, D, DD
  <2> QED
    BY <1>2, <1>3, <1>4, <2>1, <2>2 DEF One, TT, DD
<1> QED
  BY <1>5, <1>6, DoneStep

\* Enough is an invariant.
LEMMA EnoughHolds == Spec => []Enough
  BY EnoughInit, EnoughStep, BaseHolds, PTL DEF Spec

\* The rows alike are those of the key.
LEMMA AlikeIsKin ==
  ASSUME NEW r
  PROVE  Alike(r) = Kin(Key(r))
  BY DEF Alike, Kin

\* Of the rows of one content, as many texts are in the room as were marked
\* delivered by deliver: also after failed calls, restarts, and an entry
\* forgotten by prune (delivery-ledger.md:3-5).
THEOREM DeliveryNeverLost == Spec => []NeverLost
<1>1. Base /\ Enough => NeverLost
  <2> SUFFICES ASSUME Base, Enough, NEW r \in Rows, Text(r) # NoText
               PROVE  Copies(r, 0) >= Cardinality({q \in Alike(r) :
                        status[q] = "delivered" /\ q \notin missed /\ There(q)})
    BY DEF NeverLost
  <2> DEFINE k == Key(r)
             done == {q \in Alike(r) : status[q] = "delivered" /\ q \notin missed /\ There(q)}
  <2>1. k \in Keys /\ 0 \in 0..k[4] /\ Says(k, 0) /\ k[2] = Room[r]
    BY KeyFacts, DeliveryAssumption DEF Base, Says
  <2>2. Copies(r, 0) = Total(Kin(k), Part(0)) /\ Copies(r, 0) \in Nat
    BY <2>1, KinTotal, AlikeIsKin DEF Copies, Total
  <2>3. done \subseteq Done(k) /\ \A q \in done : There(q) /\ Room[q] = Room[r]
    BY AlikeIsKin DEF Done, Alike, Key
  <2>4. IsFiniteSet(Done(k)) /\ Cardinality(Done(k)) \in Nat
    BY RowsFinite DEF Done, Kin
  <2>5. Cardinality(done) \in Nat /\ Cardinality(done) <= Cardinality(Done(k))
    BY <2>3, <2>4, FS_Subset, FS_CardinalityType
  <2>6. CASE There(r)
    <3>1. Cardinality(Done(k)) + One(Held(k, 0)) <= Total(Kin(k), Part(0))
      BY <2>1, <2>6 DEF Enough, There
    <3> HIDE DEF done, k
    <3> QED
      BY <2>2, <2>4, <2>5, <3>1 DEF One, done
  <2>7. CASE ~There(r)
    <3>1. done = {}
      BY <2>3, <2>7 DEF There
    <3>2. Cardinality(done) = 0
      BY <3>1, FS_EmptySet
    <3> QED
      BY <2>2, <3>2
  <2> QED
    BY <2>6, <2>7
<1> QED
  BY <1>1, BaseHolds, EnoughHolds, PTL

\* A row that deliver was done with, alone in its content, is in the room with
\* its text and every attachment (index.ts:240-340).
THEOREM DeliveryComplete == Spec => []Complete
<1>1. Base /\ Enough => Complete
  <2> SUFFICES ASSUME Base, Enough, NEW r \in Rows, status[r] = "delivered", r \notin missed,
                      There(r), Alike(r) = {r}
               PROVE  /\ Text(r) # NoText => texts[r] > 0
                      /\ \A i \in 1..Files(r) : files[r][i] > 0
    BY DEF Complete
  <2> DEFINE k == Key(r)
  <2>1. /\ k \in Keys /\ k[2] = Room[r] /\ k[3] = Text(r) /\ k[4] = Files(r)
        /\ Files(r) \in 0..MaxFiles
    BY KeyFacts DEF Base
  <2>2. Kin(k) = {r} /\ r \in Done(k) /\ IsFiniteSet(Done(k)) /\ Cardinality(Done(k)) \in Nat
    BY AlikeIsKin, RowsFinite DEF Done, Kin, Alike
  <2>3. Cardinality(Done(k)) # 0
    BY <2>2, FS_EmptySet
  <2>4. ASSUME NEW i \in 0..k[4], Says(k, i) PROVE Part(i)[r] > 0
    <3>1. Cardinality(Done(k)) + One(Held(k, i)) <= Total({r}, Part(i))
      BY <2>1, <2>2, <2>4 DEF Enough, There
    <3>2. Total({r}, Part(i)) \in Nat
      BY <2>1, <2>2, KinTotal
    <3>3. Total({r}, Part(i)) # 0
      <4> HIDE DEF k
      <4> QED
        BY <2>2, <2>3, <3>1, <3>2 DEF One
    <3>4. Part(i)[r] # 0
      BY <3>3, TotalNone
    <3>5. Part(i)[r] \in Nat
      BY <2>1, KeyParts, PartIs DEF Base
    <3> QED
      BY <3>4, <3>5
  <2>5. ASSUME Text(r) # NoText PROVE texts[r] > 0
    <3>1. 0 \in 0..k[4] /\ Says(k, 0) /\ 0 \in 0..MaxFiles
      BY <2>1, <2>5, DeliveryAssumption DEF Says
    <3>2. Part(0)[r] > 0 /\ Part(0)[r] = texts[r]
      BY <2>4, <3>1, PartIs DEF Base
    <3> QED
      BY <3>2
  <2>6. ASSUME NEW i \in 1..Files(r) PROVE files[r][i] > 0
    <3>1. i \in 0..k[4] /\ Says(k, i) /\ i \in 0..MaxFiles /\ i # 0
      BY <2>1, <2>6, DeliveryAssumption DEF Says
    <3>2. Part(i)[r] > 0 /\ Part(i)[r] = files[r][i]
      BY <2>4, <3>1, PartIs DEF Base
    <3> QED
      BY <3>2
  <2> QED
    BY <2>5, <2>6
<1> QED
  BY <1>1, BaseHolds, EnoughHolds, PTL

-----------------------------------------------------------------------------
(* Only a restart makes a delivery store anything again.                   *)

\* A call under way keeps, for itself and for the others, what is remembered.
LEMMA AdvanceKeeps ==
  ASSUME Base, InStep, InBound, NEW s \in Sessions, Begin(s) \/ StoreText(s) \/ StoreFile(s)
  PROVE  \E c \in Call :
           /\ Advance(s, c) /\ Keeps(c) /\ c.row \in Rows /\ status[c.row] = "due"
           /\ \A x \in Range(pending), i \in Nat : x.key = Key(c.row) /\ Has(x, i) => Has(c, i)
           /\ \A i \in Nat : Has(call[s], i) => Has(c, i)
<1>0. /\ Types /\ EntriesTrue /\ CallTrue(s) /\ call[s] \in Call
  BY DEF Base, Types
<1>1. PICK r \in Rows : r = call[s].row /\ status[r] = "due"
  BY <1>0 DEF Begin, StoreText, StoreFile, CallTrue
<1>2. CASE Begin(s)
  <2>1. PICK c \in Call : 
          /\ Advance(s, c) /\ Keeps(c)
          /\ \A x \in Range(pending) : x.key = Key(c.row) => x = Progress(c)
    BY <1>0, <1>2, BeginDoes
  <2>2. c.row = r
    BY <1>1, <2>1 DEF Advance
  <2>3. ASSUME NEW x \in Range(pending), NEW i \in Nat, x.key = Key(c.row), Has(x, i)
        PROVE  Has(c, i)
    BY <1>0, <2>1, <2>2, <2>3, ProgressIs
  <2>4. \A i \in Nat : ~Has(call[s], i)
    BY <1>0, <1>2, NothingYet DEF Begin, CallTrue
  <2> QED
    BY <1>1, <2>1, <2>2, <2>3, <2>4
<1>3. CASE StoreText(s) \/ StoreFile(s)
  <2>1. PICK c : c = After(s)
    OBVIOUS
  <2>2. Progress(call[s]) \in Range(pending)
    BY <1>3 DEF InStep, StoreText, StoreFile
  <2>3. Advance(s, c) /\ c \in Call /\ c.row = r /\ Keeps(c)
    BY <1>0, <1>1, <1>3, <2>1, <2>2, StoreDoes DEF Advance
  <2>4. \A i \in Nat : Has(call[s], i) => Has(c, i)
    <3>1. CASE StoreText(s)
      <4>1. c = [call[s] EXCEPT !.text = TRUE]
        BY <2>1, <3>1 DEF StoreText, After
      <4>2. c.files = call[s].files /\ c.text
        BY <1>0, <4>1 DEF Call
      <4> QED
        BY <4>2 DEF Has
    <3>2. CASE StoreFile(s)
      <4>1. c = [call[s] EXCEPT !.files = @ + 1]
        BY <2>1, <3>2 DEF StoreFile, After
      <4>2. c.text = call[s].text /\ c.files = call[s].files + 1 /\ call[s].files \in Nat
        BY <1>0, <4>1 DEF Call
      <4> QED
        BY <4>2 DEF Has
    <3> QED
      BY <1>3, <3>1, <3>2
  <2>5. ASSUME NEW x \in Range(pending), NEW i \in Nat, x.key = Key(c.row), Has(x, i)
        PROVE  Has(c, i)
    <3>1. Progress(call[s]).key = Key(r) /\ (Has(Progress(call[s]), i) <=> Has(call[s], i))
      BY <1>0, <1>1, ProgressIs
    <3>2. pending \in Seq(Entry) /\ Single(pending)
      BY <1>0 DEF Types, EntriesTrue
    <3>3. x = Progress(call[s])
      BY <2>2, <2>3, <2>5, <3>1, <3>2, EntriesOf DEF Single
    <3> QED
      BY <2>4, <2>5, <3>1, <3>3
  <2> QED
    BY <1>1, <2>3, <2>4, <2>5
<1> QED
  BY <1>2, <1>3

\* What a call that goes on has is remembered.
LEMMA AdvanceHeld ==
  ASSUME Base, [Next]_vars, NEW s \in Sessions, NEW c \in Call, Advance(s, c), c.row \in Rows,
         status[c.row] = "due", NEW k, Key(c.row) = k, NEW i \in Nat, Has(c, i)
  PROVE  Held(k, i)'
<1>1. PICK r \in Rows : r = c.row /\ status[r] = "due"
  OBVIOUS
<1>2. PICK d : d = [c EXCEPT !.stage = NextStage(c)]
  OBVIOUS
<1>3. d = call'[s]
  BY <1>2 DEF Advance, Base, Types
<1>4. d.row = r /\ d.text = c.text /\ d.files = c.files /\ d.stage # "idle"
  BY <1>1, <1>2 DEF Call, NextStage
<1>5. Has(d, i)
  BY <1>4 DEF Has
<1>6. Key(r)' = Key(r)
  BY <1>1, KeyKept
<1>7. call'[s].stage # "idle" /\ Key(call[s].row)' = k /\ Has(call'[s], i)
  BY <1>1, <1>3, <1>4, <1>5, <1>6
<1> QED
  BY <1>7 DEF Held

\* What is remembered of a row still tried stays, but for a restart and the
\* answer to a row of the same content.
LEMMA HeldStays ==
  ASSUME Base, InStep, InBound, [Next]_vars, NEW k \in Keys, NEW i \in 0..k[4], Held(k, i),
         NEW q \in Kin(k), status[q] = "due", ~Crash,
         \A s \in Sessions : Mark(s) => Key(call[s].row) # k
  PROVE  Held(k, i)'
<1>0. /\ Types /\ (\A s \in Sessions : CallTrue(s)) /\ i \in Nat
      /\ call \in [Sessions -> Call]
  BY KeyParts DEF Base, Types
<1>1. ASSUME NEW x \in Range(pending), x.key = k, Has(x, i) PROVE Held(k, i)'
  <2>1. CASE \E s \in Sessions : Begin(s) \/ StoreText(s) \/ StoreFile(s)
    <3>1. PICK s \in Sessions : Begin(s) \/ StoreText(s) \/ StoreFile(s)
      BY <2>1
    <3>2. PICK c \in Call :
            /\ Advance(s, c) /\ Keeps(c) /\ c.row \in Rows /\ status[c.row] = "due"
            /\ \A y \in Range(pending), j \in Nat : y.key = Key(c.row) /\ Has(y, j) => Has(c, j)
      BY <3>1, AdvanceKeeps
    <3>3. CASE Key(c.row) = k
      <4>1. Has(c, i)
        BY <1>0, <1>1, <3>2, <3>3
      <4> QED
        BY <1>0, <3>2, <3>3, <4>1, AdvanceHeld
    <3>4. CASE Key(c.row) # k
      <4>1. ~GivenUp(x)
        BY <1>1 DEF GivenUp, Kin
      <4>2. x \in Range(pending')
        BY <1>1, <3>2, <3>4, <4>1 DEF Keeps
      <4> QED
        BY <1>1, <4>2 DEF Held
    <3> QED
      BY <3>3, <3>4
  <2>2. CASE \A s \in Sessions : ~(Begin(s) \/ StoreText(s) \/ StoreFile(s))
    <3>1. pending' = pending
      BY <2>2, PendingKept
    <3> QED
      BY <1>1, <3>1 DEF Held
  <2> QED
    BY <2>1, <2>2
<1>2. ASSUME NEW s \in Sessions, call[s].stage # "idle", Key(call[s].row) = k, Has(call[s], i)
      PROVE  Held(k, i)'
  <2>1. PICK r \in Rows : r = call[s].row /\ status[r] = "due" /\ Session[r] = s
    BY <1>0, <1>2 DEF CallTrue
  <2>2. Key(r)' = k
    BY <1>2, <2>1, KeyKept
  <2>3. CASE Begin(s) \/ StoreText(s) \/ StoreFile(s)
    <3>1. PICK c \in Call :
            /\ Advance(s, c) /\ c.row \in Rows /\ status[c.row] = "due"
            /\ \A j \in Nat : Has(call[s], j) => Has(c, j)
      BY <2>3, AdvanceKeeps
    <3>2. Key(c.row) = k /\ Has(c, i)
      BY <1>0, <1>2, <3>1 DEF Advance
    <3> QED
      BY <1>0, <3>1, <3>2, AdvanceHeld
  <2>4. CASE LookUp(s)
    BY <1>0, <1>2, <2>4, NothingYet DEF LookUp, CallTrue
  <2>5. CASE Throw(s)
    <3>1. CASE call[s].stage \in {"text", "file"}
      <4>1. Progress(call[s]) \in Range(pending)
        BY <3>1 DEF InStep
      <4>2. Progress(call[s]).key = k /\ Has(Progress(call[s]), i)
        BY <1>0, <1>2, <2>1, ProgressIs
      <4> QED
        BY <1>1, <4>1, <4>2
    <3>2. CASE call[s].stage \in {"room", "begin"}
      BY <1>0, <1>2, <3>2, NothingYet DEF CallTrue
    <3> QED
      BY <2>5, <3>1, <3>2 DEF Throw
  <2>6. CASE Mark(s)
    BY <1>2, <2>6
  <2>7. CASE \E p \in Rows : Session[p] = s /\ Deliver(p)
    BY <1>2, <2>7 DEF Deliver, Idle
  <2>8. CASE /\ ~(LookUp(s) \/ Begin(s) \/ StoreText(s) \/ StoreFile(s) \/ Throw(s) \/ Mark(s))
             /\ \A p \in Rows : Session[p] = s => ~Deliver(p)
    <3>1. call'[s] = call[s]
      BY <2>8, Untouched
    <3>2. call'[s].stage # "idle" /\ Key(call[s].row)' = k /\ Has(call'[s], i)
      BY <1>2, <2>1, <2>2, <3>1
    <3> QED
      BY <3>2 DEF Held
  <2> QED
    BY <2>3, <2>4, <2>5, <2>6, <2>7, <2>8
<1> QED
  BY <1>1, <1>2 DEF Held

\* What a call stores it had not stored, and remembers.
LEMMA StoredHeld ==
  ASSUME Base, InStep, InBound, [Next]_vars, NEW k \in Keys, NEW i \in 0..k[4],
         NEW r \in Kin(k), Stored(r, i)
  PROVE  ~Held(k, i) /\ Held(k, i)'
<1>0. /\ Types /\ EntriesTrue /\ (\A s \in Sessions : CallTrue(s)) /\ i \in Nat
      /\ pending \in Seq(Entry) /\ Single(pending) /\ \A s \in Sessions : call[s] \in Call
  BY KeyParts DEF Base, EntriesTrue, Types
<1>1. PICK s \in Sessions :
        r = call[s].row /\ ((StoreText(s) /\ i = 0) \/ (StoreFile(s) /\ i = call[s].files + 1))
  BY DEF Stored
<1>2. r \in Rows /\ Key(r) = k /\ call[s].stage \in {"text", "file"} /\ Session[r] = s
  BY <1>0, <1>1 DEF Kin, StoreText, StoreFile, CallTrue
<1>3. ~Has(call[s], i)
  <2>1. CASE StoreText(s) /\ i = 0
    BY <1>0, <2>1 DEF StoreText, CallTrue, Has
  <2>2. CASE StoreFile(s) /\ i = call[s].files + 1
    <3>1. call[s].files \in Nat
      BY <1>0 DEF Call
    <3> QED
      BY <2>2, <3>1 DEF Has
  <2> QED
    BY <1>1, <2>1, <2>2
<1>4. Progress(call[s]) \in Range(pending)
  BY <1>2 DEF InStep
<1>5. Progress(call[s]).key = k /\ ~Has(Progress(call[s]), i)
  BY <1>0, <1>1, <1>2, <1>3, ProgressIs
<1>6. ASSUME NEW x \in Range(pending), x.key = k PROVE ~Has(x, i)
  <2>1. x = Progress(call[s])
    BY <1>0, <1>4, <1>5, <1>6, EntriesOf DEF Single
  <2> QED
    BY <1>5, <2>1
<1>7. ASSUME NEW t \in Sessions, call[t].stage # "idle", Key(call[t].row) = k
      PROVE  t = s
  <2>1. PICK q \in Rows : q = call[t].row /\ Session[q] = t
    BY <1>0, <1>7 DEF CallTrue
  <2> QED
    BY <1>0, <1>2, <1>7, <2>1, OneSession
<1>8. ~Held(k, i)
  BY <1>3, <1>6, <1>7 DEF Held
<1>9. Held(k, i)'
  <2>1. PICK c : c = After(s)
    OBVIOUS
  <2>2. Advance(s, c) /\ c \in Call /\ c.row = r
    BY <1>0, <1>1, <2>1, StoreDoes DEF Advance
  <2>3. Has(c, i)
    <3>1. CASE StoreText(s) /\ i = 0
      <4>1. c = [call[s] EXCEPT !.text = TRUE]
        BY <2>1, <3>1 DEF StoreText, After
      <4>2. c.text
        BY <1>0, <4>1 DEF Call
      <4> QED
        BY <3>1, <4>2 DEF Has
    <3>2. CASE StoreFile(s) /\ i = call[s].files + 1
      <4>1. c = [call[s] EXCEPT !.files = @ + 1]
        BY <2>1, <3>2 DEF StoreFile, After
      <4>2. c.files = call[s].files + 1 /\ call[s].files \in Nat
        BY <1>0, <4>1 DEF Call
      <4> QED
        BY <3>2, <4>2 DEF Has
    <3> QED
      BY <1>1, <3>1, <3>2
  <2>4. status[r] = "due"
    BY <1>0, <1>1, <1>2 DEF CallTrue
  <2> QED
    BY <1>0, <1>2, <2>2, <2>3, <2>4, AdvanceHeld
<1> QED
  BY <1>8, <1>9

\* A row marked stays marked.
LEMMA MarkedStep ==
  ASSUME Base, [Next]_vars, NEW k
  PROVE  Marked(k) \subseteq Marked(k)'
<1>1. ASSUME NEW q \in Marked(k) PROVE q \in Marked(k)'
  <2>1. q \in Kin(k)' /\ q \in Rows /\ status[q] \in {"delivered", "failed"}
    BY <1>1, KinStep DEF Marked, Kin
  <2>2. status'[q] \in {"delivered", "failed"}
    BY <2>1, RowMoves
  <2> QED
    BY <2>1, <2>2 DEF Marked
<1> QED
  BY <1>1

\* The rows marked are a number.
LEMMA MarkedFinite ==
  ASSUME NEW k
  PROVE  /\ IsFiniteSet(Marked(k)) /\ Cardinality(Marked(k)) \in Nat
         /\ IsFiniteSet(Marked(k)') /\ Cardinality(Marked(k)') \in Nat
<1>1. Marked(k) \subseteq Rows /\ Marked(k)' \subseteq Rows
  BY DEF Marked, Kin
<1> QED
  BY <1>1, RowsFinite

\* Only a crash is counted as one.
LEMMA CrashesStep ==
  ASSUME Base, [Next]_vars
  PROVE  crashes \in Nat /\ crashes' = IF Crash THEN crashes + 1 ELSE crashes
<1>0. crashes \in Nat
  BY DeliveryAssumption DEF Base, Types
<1>1. CASE Crash
  BY <1>0, <1>1 DEF Crash
<1>2. CASE ~Crash
  <2> SUFFICES crashes' = crashes
    BY <1>0, <1>2
  <2>1. CASE \E r \in Rows : Write(r) \/ Age(r) \/ Deliver(r) \/ Miss(r)
    BY <2>1 DEF Write, Age, Deliver, Miss
  <2>2. CASE \E s \in Sessions : Throw(s) \/ Mark(s) \/ LookUp(s)
    BY <2>2 DEF Throw, Mark, LookUp
  <2>3. CASE \E s \in Sessions : Begin(s) \/ StoreText(s) \/ StoreFile(s)
    BY <2>3 DEF Begin, StoreText, StoreFile
  <2>4. CASE \E m \in Rooms : DropMessages(m) \/ DropRoom(m)
    BY <2>4 DEF DropMessages, DropRoom
  <2>5. CASE \E p \in Passes : PassList(p) \/ PassRead(p) \/ PassRow(p)
    BY <2>5 DEF PassList, PassRead, PassRow, passOnly
  <2>6. CASE \E p \in Passes : Probe(p) \/ Replay(p) \/ PassNext(p)
    BY <2>6 DEF Probe, Replay, PassNext, passOnly
  <2>7. CASE UNCHANGED vars
    BY <2>7 DEF vars
  <2> QED
    BY <1>2, <2>1, <2>2, <2>3, <2>4, <2>5, <2>6, <2>7 DEF Next
<1> QED
  BY <1>1, <1>2

\* What is allowed of a key only grows: a crash is counted, and so is the row
\* that is marked when what was remembered for it goes.
LEMMA AllowedStep ==
  ASSUME Base, InStep, InBound, [Next]_vars, NEW k \in Keys, NEW i \in 0..k[4],
         ~DropMessages(k[2])
  PROVE  Allowed(k, i) <= Allowed(k, i)'
<1> DEFINE M == Cardinality(Marked(k))  MM == Cardinality(Marked(k)')
<1>1. M \in Nat /\ MM \in Nat /\ M <= MM /\ (Marked(k)' # Marked(k) => MM >= M + 1)
  <2>1. M <= MM
    BY MarkedStep, MarkedFinite, FS_Subset
  <2>2. ASSUME Marked(k)' # Marked(k) PROVE M # MM
    BY <2>2, MarkedStep, MarkedFinite, FS_Subset
  <2> HIDE DEF M, MM
  <2>3. M \in Nat /\ MM \in Nat
    BY MarkedFinite DEF M, MM
  <2> QED
    BY <2>1, <2>2, <2>3
<1>2. crashes \in Nat /\ crashes' = IF Crash THEN crashes + 1 ELSE crashes
  BY CrashesStep
<1>3. ASSUME Over(k, i), ~Crash, Marked(k)' = Marked(k) PROVE Over(k, i)'
  <2>1. Held(k, i)
    BY <1>3 DEF Over
  <2>2. PICK q \in Kin(k) : status[q] = "due" /\ Part(i)[q] > 0
    BY <1>3 DEF Over
  <2>3. q \in Rows /\ Key(q) = k /\ q \in Kin(k)'
    BY KinStep DEF Kin
  <2>4. status'[q] = "due"
    <3>1. q \notin Marked(k)'
      BY <1>3, <2>2 DEF Marked
    <3> QED
      BY <2>2, <2>3, <3>1, RowMoves DEF Marked
  <2>5. ASSUME NEW s \in Sessions, Mark(s) PROVE Key(call[s].row) # k
    <3>1. PICK r \in Rows : r = call[s].row /\ status[r] = "due"
      BY <2>5 DEF Mark, Base, CallTrue
    <3>2. status'[r] = "delivered"
      BY <2>5, <3>1 DEF Mark, Base, Types
    <3>3. r \in Kin(k) => r \in Marked(k)' /\ r \notin Marked(k)
      BY <3>1, <3>2, KinStep DEF Marked
    <3> QED
      BY <1>3, <3>1, <3>3 DEF Kin
  <2>6. Held(k, i)'
    BY <1>3, <2>1, <2>2, <2>5, HeldStays
  <2>7. i \in 0..MaxFiles /\ Room[q] = k[2]
    BY <2>3, KeyParts DEF Key
  <2>8. Part(i)'[q] > 0
    <3>1. Part(i)'[q] >= Part(i)[q] /\ Part(i)[q] \in Nat /\ Part(i)'[q] \in Nat
      BY <2>3, <2>7, PartGrows, PartIs, PartIsThen, TypesStep DEF Base
    <3> QED
      BY <2>2, <3>1
  <2> QED
    BY <2>3, <2>4, <2>6, <2>8 DEF Over
<1>4. Allowed(k, i) = M + crashes + One(Over(k, i))
      /\ Allowed(k, i)' = MM + crashes' + One(Over(k, i)')
  BY DEF Allowed, One
<1> HIDE DEF M, MM
<1> QED
  BY <1>1, <1>2, <1>3, <1>4 DEF One

\* A bound on the messages of a key stays, but for a replay of it.
LEMMA AtMostStep ==
  ASSUME Base, InStep, InBound, [Next]_vars, NEW k \in Keys, NEW i \in 0..k[4], NEW n \in Nat,
         n <= Cardinality(Marked(k)), AtMost(k, i, n), \A r \in Kin(k) : ~Replayed(r, i)
  PROVE  AtMost(k, i, n)'
<1>1. PICK T, TT, m, mm, c, cc, o, oo :
        /\ T = Total(Kin(k), Part(i)) /\ TT = Total(Kin(k), Part(i))'
        /\ m = Cardinality(Marked(k)) /\ mm = Cardinality(Marked(k))'
        /\ c = crashes /\ cc = crashes' /\ o = One(Over(k, i)) /\ oo = One(Over(k, i))'
  OBVIOUS
<1>2. T \in Nat /\ T + n <= m + c + o
  BY <1>1, KinTotal DEF AtMost, Allowed
<1>3. m \in Nat /\ mm \in Nat /\ m <= mm /\ n <= m
  BY <1>1, MarkedStep, MarkedFinite, FS_Subset
<1>4. c \in Nat /\ cc \in Nat /\ c <= cc
  BY <1>1, CrashesStep
<1>5. o \in {0, 1} /\ oo \in {0, 1}
  BY <1>1 DEF One
<1>6. TT + n <= mm + cc + oo
  <2>1. CASE TT = T /\ ~DropMessages(k[2])
    <3>1. m + c + o <= mm + cc + oo
      BY <1>1, <2>1, AllowedStep DEF Allowed
    <3> QED
      BY <1>2, <1>3, <1>4, <1>5, <2>1, <3>1
  <2>2. CASE DropMessages(k[2])
    <3>1. TT = 0
      <4>1. \A r \in Kin(k) : ~Stored(r, i)
        <5>1. i \in 0..MaxFiles /\ k[2] \in Rooms /\ Kin(k) \subseteq Rows
          BY KeyParts DEF Kin
        <5> QED
          BY <2>2, <5>1, StoredAdds
      <4>2. CASE TT = T /\ \A q \in Kin(k) : Part(i)'[q] = Part(i)[q]
        <5> DEFINE S == Kin(k)  f == Part(i)
        <5>1. \A q \in S : q \in Rows /\ Room[q] = k[2]
          BY DEF Kin, Key
        <5>2. i \in 0..MaxFiles
          BY KeyParts
        <5>3. \A q \in S : f[q] \in Nat
          BY <5>1, <5>2, PartIs DEF Base
        <5>4. ASSUME NEW q \in S PROVE f[q] = 0
          <6>1. q \in Rows /\ Room[q] = k[2] /\ Part(i)'[q] = Part(i)[q]
            BY <4>2, <5>1
          <6>2. texts'[q] = 0 /\ (i \in 1..MaxFiles => files'[q][i] = 0)
            BY <2>2, <6>1 DEF DropMessages
          <6>3. i = 0 \/ i \in 1..MaxFiles
            BY <5>2, DeliveryAssumption
          <6>4. Part(i)'[q] = 0
            BY <5>2, <6>1, <6>2, <6>3, PartIsThen, TypesStep
          <6> QED
            BY <6>1, <6>4
        <5>5. Total(S, f) = 0
          BY <5>4, TotalNone
        <5> QED
          BY <1>1, <4>2, <5>5
      <4> QED
        BY <1>1, <4>1, <4>2, TotalStep
    <3> QED
      BY <1>3, <1>4, <1>5, <3>1
  <2>3. CASE \E r \in Kin(k) : Stored(r, i) /\ TT = T + 1
    <3>1. PICK r \in Kin(k) : Stored(r, i)
      BY <2>3
    <3>2. ~Held(k, i) /\ Held(k, i)'
      BY <3>1, StoredHeld
    <3>3. i \in 0..MaxFiles /\ r \in Rows /\ r \in Kin(k)'
      BY KeyParts, KinStep DEF Kin
    <3>4. status[r] = "due" /\ Part(i)'[r] = Part(i)[r] + 1
      BY <3>1, <3>3, StoredAdds
    <3>5. Part(i)'[r] > 0
      <4>1. Part(i)[r] \in Nat
        BY <3>3, PartIs DEF Base
      <4> QED
        BY <3>4, <4>1
    <3>6. status'[r] = "due"
      <4>1. status' = status
        BY <3>1 DEF Stored, StoreText, StoreFile, trunkVars
      <4> QED
        BY <3>4, <4>1
    <3>7. ~Over(k, i) /\ Over(k, i)'
      BY <3>2, <3>3, <3>5, <3>6 DEF Over
    <3>8. o = 0 /\ oo = 1
      BY <1>1, <3>7 DEF One
    <3> QED
      BY <1>2, <1>3, <1>4, <2>3, <3>8
  <2> QED
    BY <1>1, <2>1, <2>2, <2>3, TotalStep
<1> QED
  BY <1>1, <1>6 DEF AtMost, Allowed

\* Every step keeps InStep, while no entry is dropped for room.
LEMMA InStepStep ==
  ASSUME Base, InStep, InBound, [Next]_vars
  PROVE  InStep'
<1> SUFFICES ASSUME NEW s \in Sessions, call'[s].stage \in {"text", "file"}
             PROVE  Progress(call[s])' \in Range(pending')
  BY DEF InStep
<1>0. /\ Types /\ (\A t \in Sessions : CallTrue(t)) /\ call \in [Sessions -> Call]
  BY DEF Base, Types
<1>1. CASE Begin(s) \/ StoreText(s) \/ StoreFile(s)
  <2>1. PICK c \in Call :
          /\ Advance(s, c) /\ Keeps(c) /\ c.row \in Rows /\ status[c.row] = "due"
    BY <1>1, AdvanceKeeps
  <2>2. PICK r \in Rows : r = c.row /\ status[r] = "due"
    BY <2>1
  <2>3. PICK d : d = [c EXCEPT !.stage = NextStage(c)]
    OBVIOUS
  <2>4. call'[s] = d
    BY <1>0, <2>1, <2>3 DEF Advance
  <2>5. d.row = r /\ d.text = c.text /\ d.files = c.files /\ d.stage = NextStage(c)
    BY <2>2, <2>3 DEF Call
  <2>6. Key(r)' = Key(r)
    BY <2>2, KeyKept
  <2>7. Progress(call[s])' = Progress(c)
    BY <2>2, <2>4, <2>5, <2>6 DEF Progress
  <2>8. Progress(c) \in Range(pending')
    BY <2>1, <2>4, <2>5 DEF Keeps
  <2> QED
    BY <2>7, <2>8
<1>2. CASE ~(Begin(s) \/ StoreText(s) \/ StoreFile(s))
  <2>1. ~Crash /\ ~LookUp(s) /\ ~Throw(s) /\ ~Mark(s)
        /\ \A r \in Rows : Session[r] = s => ~Deliver(r)
    <3>1. CASE Crash \/ Throw(s) \/ Mark(s)
      <4>1. call'[s] = Idle
        BY <1>0, <3>1 DEF Crash, Throw, Mark
      <4> QED
        BY <4>1 DEF Idle
    <3>2. CASE LookUp(s)
      <4>1. \E g \in {"return", "begin"} : call'[s] = [call[s] EXCEPT !.stage = g]
        BY <1>0, <3>2 DEF LookUp
      <4> QED
        BY <1>0, <4>1 DEF Call
    <3>3. CASE \E r \in Rows : Session[r] = s /\ Deliver(r)
      <4>1. \E r : call'[s] = [Idle EXCEPT !.row = r, !.stage = "room"]
        BY <1>0, <3>3 DEF Deliver
      <4> QED
        BY <4>1 DEF Idle
    <3> QED
      BY <3>1, <3>2, <3>3
  <2>2. call'[s] = call[s]
    BY <1>2, <2>1, Untouched
  <2>3. PICK r \in Rows : r = call[s].row /\ Session[r] = s /\ status[r] = "due"
    BY <1>0, <2>2 DEF CallTrue
  <2>4. PICK x : x = Progress(call[s])
    OBVIOUS
  <2>5. x \in Range(pending)
    BY <2>2, <2>4 DEF InStep
  <2>6. x.key = Key(r)
    BY <1>0, <2>3, <2>4, ProgressIs
  <2>7. Progress(call[s])' = x
    <3>1. Key(r)' = Key(r)
      BY <2>3, KeyKept
    <3> QED
      BY <2>2, <2>3, <2>4, <3>1 DEF Progress
  <2>8. x \in Range(pending')
    <3>1. CASE \E t \in Sessions : Begin(t) \/ StoreText(t) \/ StoreFile(t)
      <4>1. PICK t \in Sessions : Begin(t) \/ StoreText(t) \/ StoreFile(t)
        BY <3>1
      <4>2. PICK c \in Call :
              /\ Advance(t, c) /\ Keeps(c) /\ c.row \in Rows /\ status[c.row] = "due"
        BY <4>1, AdvanceKeeps
      <4>3. c.row = call[t].row /\ Session[c.row] = t
        BY <1>0, <4>1, <4>2 DEF Advance, CallTrue, Begin, StoreText, StoreFile
      <4>4. Key(r) # Key(c.row)
        BY <1>0, <1>2, <2>3, <4>1, <4>2, <4>3, OneSession
      <4>5. ~GivenUp(x)
        BY <2>3, <2>6 DEF GivenUp
      <4> QED
        BY <2>5, <2>6, <4>2, <4>4, <4>5 DEF Keeps
    <3>2. CASE \A t \in Sessions : ~(Begin(t) \/ StoreText(t) \/ StoreFile(t))
      <4>1. pending' = pending
        BY <2>1, <3>2, PendingKept
      <4> QED
        BY <2>5, <4>1
    <3> QED
      BY <3>1, <3>2
  <2> QED
    BY <2>7, <2>8
<1> QED
  BY <1>1, <1>2

\* Every step keeps NotTwice.
LEMMA NotTwiceStep ==
  ASSUME Base, InStep, NotTwice, Wanting, InBound, [Next]_vars
  PROVE  NotTwice'
<1> SUFFICES ASSUME NEW k \in Keys, NEW i \in 0..k[4] PROVE AtMost(k, i, 0)'
  BY DEF NotTwice
<1>1. AtMost(k, i, 0)
  BY DEF NotTwice
<1>2. CASE \A r \in Kin(k) : ~Replayed(r, i)
  <2>1. 0 \in Nat /\ 0 <= Cardinality(Marked(k))
    BY MarkedFinite
  <2> QED
    BY <1>1, <1>2, <2>1, AtMostStep
<1>3. CASE \E r \in Kin(k) : Replayed(r, i)
  <2>1. PICK r \in Kin(k), p \in Passes : Replay(p) /\ r = pass[p].row /\ i = 0
    BY <1>3 DEF Replayed
  <2>2. AtMost(k, i, 1)
    <3>1. Key(r) = k
      BY DEF Kin
    <3> QED
      BY <2>1, <3>1 DEF Wanting, Replay
  <2>3. PICK T, TT, a, aa : 
          /\ T = Total(Kin(k), Part(i)) /\ TT = Total(Kin(k), Part(i))'
          /\ a = Allowed(k, i) /\ aa = Allowed(k, i)'
    OBVIOUS
  <2>4. k[2] \in Rooms /\ ~DropMessages(k[2])
    BY <2>1, KeyParts, RoomDropped DEF Replay, passOnly, Base, DropMessages
  <2>5. a <= aa
    BY <2>3, <2>4, AllowedStep
  <2>6. a \in Nat /\ aa \in Nat
    <3>1. PICK m, mm, c, cc, o, oo :
            /\ m = Cardinality(Marked(k)) /\ mm = Cardinality(Marked(k))'
            /\ c = crashes /\ cc = crashes' /\ o = One(Over(k, i)) /\ oo = One(Over(k, i))'
      OBVIOUS
    <3>2. m \in Nat /\ mm \in Nat /\ c \in Nat /\ cc \in Nat
      BY <3>1, MarkedFinite, CrashesStep
    <3>3. o \in {0, 1} /\ oo \in {0, 1}
      BY <3>1 DEF One
    <3>4. a = m + c + o /\ aa = mm + cc + oo
      BY <2>3, <3>1 DEF Allowed
    <3> QED
      BY <3>2, <3>3, <3>4
  <2>7. T \in Nat /\ T + 1 <= a /\ (TT = T \/ TT = T + 1)
    BY <2>2, <2>3, <2>4, KinTotal, TotalStep DEF AtMost
  <2>8. TT + 0 <= aa
    BY <2>5, <2>6, <2>7
  <2> QED
    BY <2>3, <2>8 DEF AtMost
<1> QED
  BY <1>2, <1>3

\* One less of one row is one message less.
LEMMA TotalLess ==
  ASSUME NEW S, IsFiniteSet(S), NEW f, NEW g, NEW x \in S,
         \A q \in S : f[q] \in Nat /\ g[q] \in Nat /\ f[q] <= g[q], f[x] < g[x]
  PROVE  Total(S, f) + 1 <= Total(S, g)
<1> DEFINE h == [q \in S |-> IF q = x THEN f[x] + 1 ELSE f[q]]
<1>1. h[x] = f[x] + 1 /\ \A q \in S \ {x} : h[q] = f[q]
  OBVIOUS
<1>2. \A q \in S : h[q] \in Nat /\ h[q] <= g[q]
  OBVIOUS
<1> HIDE DEF h
<1>3. Total(S, h) = Total(S, f) + 1
  BY <1>1, TotalOneMore
<1>4. Total(S, h) <= Total(S, g)
  BY <1>2, TotalGrows
<1> QED
  BY <1>3, <1>4

\* Only its container writes a row.
LEMMA WriteOnly ==
  ASSUME Base, [Next]_vars, NEW r \in Rows, status[r] = "none", status'[r] # "none"
  PROVE  Write(r)
<1>0. /\ (\A s \in Sessions : CallTrue(s))
      /\ status \in [Rows -> {"none", "due", "delivered", "failed"}]
  BY DEF Base, Types
<1>1. CASE \E q \in Rows : Write(q)
  BY <1>0, <1>1 DEF Write
<1>2. CASE \E q \in Rows : Age(q) \/ Deliver(q) \/ Miss(q)
  BY <1>0, <1>2 DEF Age, Deliver, Miss, trunkVars
<1>3. CASE \E s \in Sessions : Throw(s) \/ Mark(s)
  <2>1. PICK s \in Sessions : Throw(s) \/ Mark(s)
    BY <1>3
  <2>2. status[call[s].row] = "due"
    BY <1>0, <2>1 DEF Throw, Mark, CallTrue
  <2>3. \E g : status' = [status EXCEPT ![call[s].row] = g]
    BY <2>1 DEF Throw, Mark
  <2> QED
    BY <1>0, <2>2, <2>3
<1>4. CASE \E s \in Sessions : LookUp(s) \/ Begin(s) \/ StoreText(s) \/ StoreFile(s)
  BY <1>4 DEF LookUp, Begin, StoreText, StoreFile, trunkVars
<1>5. CASE \E m \in Rooms : DropMessages(m) \/ DropRoom(m)
  BY <1>5 DEF DropMessages, DropRoom, trunkVars
<1>6. CASE \E p \in Passes : PassList(p) \/ PassRead(p) \/ PassRow(p)
  BY <1>6 DEF PassList, PassRead, PassRow, passOnly, trunkVars
<1>7. CASE \E p \in Passes : Probe(p) \/ Replay(p) \/ PassNext(p)
  BY <1>7 DEF Probe, Replay, PassNext, passOnly, trunkVars
<1>8. CASE Crash \/ UNCHANGED vars
  BY <1>8 DEF Crash, vars, trunkVars
<1> QED
  BY <1>1, <1>2, <1>3, <1>4, <1>5, <1>6, <1>7, <1>8 DEF Next

\* What was stored before a row was written is never more.
LEMMA EarlyStep ==
  ASSUME Base, [Next]_vars, NEW r \in Rows, status[r] # "none"
  PROVE  \A q \in Rows : early'[r][q] \in Nat /\ early'[r][q] <= early[r][q]
<1>0. early \in [Rows -> [Rows -> Nat]]
  BY DEF Base, Types
<1>1. ASSUME early' = early PROVE \A q \in Rows : early'[r][q] \in Nat /\ early'[r][q] <= early[r][q]
  BY <1>0, <1>1
<1>2. CASE \E q \in Rows : Write(q)
  <2>1. PICK x \in Rows : Write(x)
    BY <1>2
  <2>2. r # x /\ early'[r] = early[r]
    BY <1>0, <2>1 DEF Write
  <2> QED
    BY <1>0, <2>2
<1>3. CASE \E q \in Rows : Age(q) \/ Deliver(q) \/ Miss(q)
  BY <1>1, <1>3 DEF Age, Deliver, Miss, storeVars
<1>4. CASE \E s \in Sessions : Throw(s) \/ Mark(s) \/ LookUp(s)
  BY <1>1, <1>4 DEF Throw, Mark, LookUp, storeVars
<1>5. CASE \E s \in Sessions : Begin(s) \/ StoreText(s) \/ StoreFile(s)
  BY <1>1, <1>5 DEF Begin, StoreText, StoreFile, storeVars
<1>6. CASE \E m \in Rooms : DropMessages(m)
  BY <1>0, <1>6 DEF DropMessages
<1>7. CASE \E m \in Rooms : DropRoom(m)
  BY <1>1, <1>7 DEF DropRoom
<1>8. CASE \E p \in Passes : PassList(p) \/ PassRead(p) \/ PassRow(p)
  BY <1>1, <1>8 DEF PassList, PassRead, PassRow, passOnly
<1>9. CASE \E p \in Passes : Probe(p) \/ Replay(p) \/ PassNext(p)
  BY <1>1, <1>9 DEF Probe, Replay, PassNext, passOnly
<1>10. CASE Crash \/ UNCHANGED vars
  BY <1>1, <1>10 DEF Crash, vars, storeVars
<1> QED
  BY <1>2, <1>3, <1>4, <1>5, <1>6, <1>7, <1>8, <1>9, <1>10 DEF Next

\* Every step keeps Before.
LEMMA BeforeStep ==
  ASSUME Base, NotTwice, Before, [Next]_vars
  PROVE  Before'
<1> SUFFICES ASSUME NEW r \in Rows, status'[r] # "none", NEW k, k = Key(r)'
             PROVE  Total(Kin(k)', early'[r]) <= Cardinality(Marked(k)' \ {r}) + crashes'
  <2>1. \A r \in Rows : Total(Kin(Key(r)), early[r])' = Total(Kin(Key(r))', early'[r])
    BY DEF Total, Messages
  <2>2. \A r \in Rows : \A k : k = Key(r)' =>
          Kin(Key(r))' = Kin(k)' /\ Marked(Key(r))' = Marked(k)'
    BY DEF Kin, Marked
  <2> QED
    BY <2>1, <2>2 DEF Before
<1>1. PICK S, R, e : S = Kin(k)' /\ R = Kin(k) /\ e = early'[r]
  OBVIOUS
<1>2. R \subseteq S /\ S \subseteq Rows /\ \A q \in S \ R : status[q] = "none"
  BY <1>1, KinStep DEF Kin
<1>3. IsFiniteSet(R) /\ IsFiniteSet(S)
  BY <1>2, RowsFinite
<1>4. PICK m, mm, c, cc : /\ m = Cardinality(Marked(k) \ {r}) /\ c = crashes
                          /\ mm = Cardinality(Marked(k)' \ {r}) /\ cc = crashes'
  OBVIOUS
<1>5. m \in Nat /\ mm \in Nat /\ m <= mm /\ c \in Nat /\ cc \in Nat /\ c <= cc
  <2>1. Marked(k) \ {r} \subseteq Marked(k)' \ {r} /\ Marked(k)' \subseteq Rows
    BY MarkedStep DEF Marked, Kin
  <2>2. IsFiniteSet(Marked(k)' \ {r})
    BY <2>1, RowsFinite
  <2> QED
    BY <1>4, <2>1, <2>2, FS_Subset, FS_CardinalityType, CrashesStep
<1>6. CASE status[r] # "none"
  <2>1. Key(r) = k
    BY <1>6, KeyKept
  <2>2. PICK f : f = early[r] /\ \A q \in Rows : e[q] \in Nat /\ f[q] \in Nat /\ e[q] <= f[q]
    <3>1. PICK f : f = early[r]
      OBVIOUS
    <3>2. \A q \in Rows : f[q] \in Nat
      BY <3>1 DEF Base, Types
    <3>3. \A q \in Rows : e[q] \in Nat /\ e[q] <= f[q]
      BY <1>1, <1>6, <3>1, EarlyStep
    <3> QED
      BY <3>1, <3>2, <3>3
  <2>3. \A q \in S \ R : e[q] = 0
    <3>1. \A q \in S \ R : f[q] = 0
      BY <1>2, <2>2 DEF Base, RowTrue
    <3> QED
      BY <1>2, <2>2, <3>1
  <2>4. Total(R, e) = Total(S, e)
    BY <1>2, <2>2, <2>3, TotalSame
  <2>5. Total(R, e) <= Total(R, f) /\ Total(R, e) \in Nat /\ Total(R, f) \in Nat
    BY <1>2, <1>3, <2>2, TotalGrows, MessagesFinite
  <2>6. Total(R, f) <= m + c
    BY <1>1, <1>4, <1>6, <2>1, <2>2 DEF Before
  <2>7. Total(S, e) <= mm + cc
    BY <1>5, <2>4, <2>5, <2>6
  <2> QED
    BY <1>1, <1>4, <2>7
<1>7. CASE status[r] = "none"
  <2>1. Write(r)
    BY <1>7, WriteOnly
  <2>2. PICK long \in BOOLEAN :
          early' = [early EXCEPT ![r] =
                      [q \in Rows |-> IF long /\ status[q] # "due" THEN texts[q] ELSE 0]]
    BY <2>1 DEF Write
  <2>3. \A q \in Rows : e[q] = IF long /\ status[q] # "due" THEN texts[q] ELSE 0
    BY <1>1, <2>2 DEF Base, Types
  <2>4. PICK g : g = Part(0) /\ \A q \in Rows : g[q] = texts[q] /\ g[q] \in Nat
    <3>1. 0 \in 0..MaxFiles
      BY DeliveryAssumption
    <3> QED
      BY <3>1, PartIs DEF Base
  <2>5. \A q \in Rows : e[q] \in Nat /\ e[q] <= g[q]
    BY <2>3, <2>4
  <2>6. \A q \in S \ R : e[q] = 0
    <3>1. \A q \in S \ R : g[q] = 0
      BY <1>2, <2>4 DEF Base, RowTrue
    <3> QED
      BY <1>2, <2>5, <3>1
  <2>7. Total(R, e) = Total(S, e)
    BY <1>2, <2>5, <2>6, TotalSame
  <2>8. k \in Keys /\ 0 \in 0..k[4]
    <3>1. content'[r] \in [text : Texts, files : 0..MaxFiles]
      BY TypesStep DEF Types
    <3>2. k = <<Session[r], Room[r], content'[r].text, content'[r].files>>
      BY DEF Key, Text, Files
    <3>3. k \in Keys /\ k[4] \in 0..MaxFiles
      BY <3>1, <3>2, DeliveryAssumption DEF Keys
    <3> QED
      BY <3>3, DeliveryAssumption
  <2>9. PICK o : o = One(Over(k, 0)) /\ o \in {0, 1}
    BY DEF One
  <2>10. Total(R, g) <= m + c + o
    <3>1. AtMost(k, 0, 0)
      BY <2>8 DEF NotTwice
    <3>2. Marked(k) \ {r} = Marked(k)
      BY <1>7 DEF Marked
    <3>3. Total(R, g) + 0 <= m + c + o
      BY <1>1, <1>4, <2>4, <2>9, <3>1, <3>2 DEF AtMost, Allowed
    <3>4. Total(R, g) \in Nat
      BY <1>2, <1>3, <2>4, MessagesFinite
    <3> QED
      BY <3>3, <3>4
  <2>11. Total(R, e) \in Nat /\ Total(R, g) \in Nat
    BY <1>2, <1>3, <2>4, <2>5, MessagesFinite
  <2>12. CASE Over(k, 0)
    <3>1. PICK q \in R : status[q] = "due" /\ g[q] > 0
      BY <1>1, <2>4, <2>12 DEF Over
    <3>2. e[q] < g[q] /\ q \in Rows
      BY <1>2, <2>3, <3>1
    <3>3. Total(R, e) + 1 <= Total(R, g)
      BY <1>2, <1>3, <2>4, <2>5, <3>2, TotalLess
    <3>4. Total(S, e) <= mm + cc
      BY <1>5, <2>7, <2>9, <2>10, <2>11, <3>3
    <3> QED
      BY <1>1, <1>4, <3>4
  <2>13. CASE ~Over(k, 0)
    <3>1. Total(R, e) <= Total(R, g)
      BY <1>2, <1>3, <2>4, <2>5, TotalGrows
    <3>2. o = 0
      BY <2>9, <2>13 DEF One
    <3>3. Total(S, e) <= mm + cc
      BY <1>5, <2>7, <2>10, <2>11, <3>1, <3>2
    <3> QED
      BY <1>1, <1>4, <3>3
  <2> QED
    BY <2>12, <2>13
<1> QED
  BY <1>6, <1>7

\* How a pass comes to be at a store.
LEMMA AtStore ==
  ASSUME Base, [Next]_vars, NEW p \in Passes, pass'[p].stage = "store"
  PROVE  /\ pass'[p].row = pass[p].row
         /\ \/ pass[p].stage = "store" /\ ~Replay(p)
            \/ Probe(p) /\ ~Found(pass[p].row)
<1>0. pass \in [Passes -> Pass]
  BY DEF Base, Types
<1>1. ASSUME pass'[p] = pass[p], ~Replay(p)
      PROVE  pass'[p].row = pass[p].row /\ pass[p].stage = "store" /\ ~Replay(p)
  BY <1>1
<1>2. ~Replay(p)
  <2> SUFFICES ASSUME Replay(p) PROVE FALSE
    OBVIOUS
  <2>1. pass'[p] = [pass[p] EXCEPT !.stage = "rows", !.row = NoRow]
    BY <1>0 DEF Replay
  <2> QED
    BY <1>0, <2>1 DEF Pass
<1>3. CASE Probe(p)
  <2>1. CASE Found(pass[p].row)
    <3>1. pass'[p] = [pass[p] EXCEPT !.stage = "rows", !.row = NoRow]
      BY <1>0, <1>3, <2>1 DEF Probe
    <3> QED
      BY <1>0, <3>1 DEF Pass
  <2>2. CASE ~Found(pass[p].row)
    <3>1. pass'[p] = [pass[p] EXCEPT !.stage = "store"]
      BY <1>0, <1>3, <2>2 DEF Probe
    <3>2. pass'[p].row = pass[p].row
      BY <1>0, <3>1 DEF Pass
    <3> QED
      BY <1>3, <2>2, <3>2
  <2> QED
    BY <2>1, <2>2
<1>4. CASE PassList(p) \/ PassRead(p) \/ PassRow(p) \/ PassNext(p) \/ Crash
  <2>1. CASE PassList(p)
    BY <1>0, <2>1 DEF PassList, Resting
  <2>2. CASE PassRead(p)
    <3>1. \E x, y, z : pass'[p] = [pass[p] EXCEPT !.stage = "rows", !.listed = x, !.todo = y,
                                                  !.settled = z]
      <4>1. PICK s \in pass[p].listed :
              LET rows == {r \in Rows \ pass[p].old : Session[r] = s /\ status[r] # "none"} IN
              pass' = [pass EXCEPT ![p] =
                        [pass[p] EXCEPT !.stage = "rows", !.listed = @ \ {s}, !.todo = rows,
                                  !.settled = {r \in rows : status[r] = "delivered"}]]
        BY <2>2 DEF PassRead
      <4> QED
        BY <1>0, <4>1
    <3> QED
      BY <1>0, <3>1 DEF Pass
  <2>3. CASE PassRow(p)
    <3>1. PICK r \in pass[p].todo :
            LET skip == r \in seen \/ age[r] = "fresh" \/ r \notin pass[p].settled
                next == [pass[p] EXCEPT !.todo = @ \ {r}]
            IN  pass' = [pass EXCEPT ![p] =
                            IF skip \/ Text(r) = NoText THEN next
                            ELSE [next EXCEPT !.stage = "probe", !.row = r]]
      BY <2>3 DEF PassRow
    <3>2. \/ pass'[p] = [pass[p] EXCEPT !.todo = @ \ {r}]
          \/ pass'[p] = [pass[p] EXCEPT !.todo = @ \ {r}, !.stage = "probe", !.row = r]
      BY <1>0, <3>1
    <3>3. pass[p].stage = "rows" /\ pass[p] \in Pass
      BY <1>0, <2>3 DEF PassRow
    <3> QED
      BY <3>2, <3>3 DEF Pass
  <2>4. CASE PassNext(p)
    <3>1. pass'[p] = Resting \/ pass'[p] = [pass[p] EXCEPT !.stage = "sessions"]
      BY <1>0, <2>4 DEF PassNext
    <3> QED
      BY <1>0, <3>1 DEF Pass, Resting
  <2>5. CASE Crash
    BY <2>5 DEF Crash, Resting
  <2> QED
    BY <1>4, <2>1, <2>2, <2>3, <2>4, <2>5
<1>5. CASE \E q \in Passes \ {p} : \/ PassList(q) \/ PassRead(q) \/ PassRow(q)
                                   \/ Probe(q) \/ Replay(q) \/ PassNext(q)
  <2>1. pass'[p] = pass[p]
    BY <1>0, <1>5 DEF PassList, PassRead, PassRow, Probe, Replay, PassNext
  <2> QED
    BY <1>1, <1>2, <2>1
<1>6. CASE \E r \in Rows : Write(r) \/ Age(r) \/ Deliver(r) \/ Miss(r)
  BY <1>1, <1>2, <1>6 DEF Write, Age, Deliver, Miss
<1>7. CASE \E s \in Sessions : Throw(s) \/ Mark(s) \/ LookUp(s)
  BY <1>1, <1>2, <1>7 DEF Throw, Mark, LookUp
<1>8. CASE \E s \in Sessions : Begin(s) \/ StoreText(s) \/ StoreFile(s)
  BY <1>1, <1>2, <1>8 DEF Begin, StoreText, StoreFile
<1>9. CASE \E m \in Rooms : DropMessages(m) \/ DropRoom(m)
  BY <1>1, <1>2, <1>9 DEF DropMessages, DropRoom
<1>10. CASE UNCHANGED vars
  BY <1>1, <1>2, <1>10 DEF vars
<1> QED
  BY <1>2, <1>3, <1>4, <1>5, <1>6, <1>7, <1>8, <1>9, <1>10 DEF Next

\* Every step keeps Wanting.
LEMMA WantingStep ==
  ASSUME Base, InStep, NotTwice, Before, Wanting, InBound, OnePass, [Next]_vars
  PROVE  Wanting'
<1> SUFFICES ASSUME NEW p \in Passes, pass'[p].stage = "store", NEW k, k = Key(pass[p].row)'
             PROVE  AtMost(k, 0, 1)'
  <2>1. \A p \in Passes : \A k : k = Key(pass[p].row)' =>
          (AtMost(k, 0, 1)' <=> AtMost(Key(pass[p].row), 0, 1)')
    BY DEF AtMost, Allowed, Over, Held, Kin, Marked, Total, Messages
  <2> QED
    BY <2>1 DEF Wanting
<1>1. /\ pass'[p].row = pass[p].row
      /\ \/ pass[p].stage = "store" /\ ~Replay(p)
         \/ Probe(p) /\ ~Found(pass[p].row)
  BY AtStore
<1>2. PICK r \in Rows : r = pass[p].row /\ status[r] = "delivered" /\ pass[p].stage \in {"probe", "store"}
  BY <1>1 DEF Base, PassTrue, Probe
<1>3. Key(r) = k
  BY <1>1, <1>2, KeyKept
<1>4. k \in Keys /\ 0 \in 0..k[4]
  BY <1>3, KeyFacts, DeliveryAssumption DEF Base
<1>5. r \in Marked(k)
  BY <1>2, <1>3 DEF Marked, Kin
<1>6. 1 <= Cardinality(Marked(k))
  BY <1>5, MarkedFinite, FS_EmptySet
<1>7. \A q \in Kin(k) : ~Replayed(q, 0)
  <2> SUFFICES ASSUME NEW x \in Passes, Replay(x) PROVE FALSE
    BY DEF Replayed
  <2>1. x = p
    BY <1>2 DEF OnePass, Replay
  <2> QED
    BY <1>1, <2>1 DEF Replay, Probe
<1>8. AtMost(k, 0, 1)
  <2>1. CASE pass[p].stage = "store"
    BY <1>2, <1>3, <2>1 DEF Wanting
  <2>2. CASE Probe(p) /\ ~Found(r)
    <3>1. PICK R, f, g : R = Kin(k) /\ f = early[r] /\ g = Part(0)
      OBVIOUS
    <3>2. \A q \in R : f[q] \in Nat /\ g[q] \in Nat /\ g[q] <= f[q]
      <4> SUFFICES ASSUME NEW q \in R PROVE f[q] \in Nat /\ g[q] \in Nat /\ g[q] <= f[q]
        OBVIOUS
      <4>1. q \in Rows /\ Key(q) = k /\ 0 \in 0..MaxFiles
        BY <3>1, DeliveryAssumption DEF Kin
      <4>2. Room[q] = Room[r] /\ Text(q) = Text(r)
        BY <1>3, <4>1, OneSession DEF Base
      <4>3. g[q] = texts[q] /\ g[q] \in Nat
        BY <3>1, <4>1, PartIs DEF Base
      <4>4. f[q] \in Nat /\ ~(texts[q] > f[q])
        BY <2>2, <3>1, <4>1, <4>2 DEF Found, Base, Types
      <4> QED
        BY <4>3, <4>4
    <3>3. IsFiniteSet(R)
      BY <3>1, RowsFinite DEF Kin
    <3>4. Total(R, g) <= Total(R, f) /\ Total(R, g) \in Nat /\ Total(R, f) \in Nat
      BY <3>2, <3>3, TotalGrows, MessagesFinite
    <3>5. PICK m, c, o, t : /\ m = Cardinality(Marked(k)) /\ c = crashes /\ o = One(Over(k, 0))
                            /\ t = Cardinality(Marked(k) \ {r})
      OBVIOUS
    <3>6. m \in Nat /\ c \in Nat /\ t = m - 1
      <4>1. IsFiniteSet(Marked(k)) /\ m \in Nat /\ c \in Nat
        BY <3>5, MarkedFinite, CrashesStep
      <4>2. t = m - 1
        BY <1>5, <3>5, <4>1, FS_RemoveElement
      <4> QED
        BY <4>1, <4>2
    <3>7. o \in {0, 1}
      BY <3>5 DEF One
    <3>8. Total(R, f) <= t + c
      BY <1>2, <1>3, <3>1, <3>5 DEF Before
    <3>9. Total(R, g) + 1 <= m + c + o
      BY <3>4, <3>6, <3>7, <3>8
    <3> QED
      BY <3>1, <3>5, <3>9 DEF AtMost, Allowed
  <2> QED
    BY <1>1, <1>2, <2>1, <2>2
<1>9. 0 \in 0..k[4] /\ 1 \in Nat
  BY <1>4
<1> QED
  BY <1>4, <1>6, <1>7, <1>8, <1>9, AtMostStep

\* The invariants of retries hold at first.
LEMMA RetryInit ==
  ASSUME Init
  PROVE  InStep /\ NotTwice /\ Before /\ Wanting
<1>1. Base
  BY BaseInit
<1>2. InStep /\ Wanting
  BY DEF Init, InStep, Idle, Wanting, Resting
<1>3. Before
  BY DEF Init, Before
<1>4. ASSUME NEW k \in Keys, NEW i \in 0..k[4] PROVE AtMost(k, i, 0)
  <2>1. Kin(k) = {}
    BY DEF Init, Kin
  <2>2. PICK T, m, c, o : /\ T = Total(Kin(k), Part(i)) /\ m = Cardinality(Marked(k))
                          /\ c = crashes /\ o = One(Over(k, i))
    OBVIOUS
  <2>3. T = 0
    BY <2>1, <2>2, TotalNone
  <2>4. m \in Nat
    BY <2>2, MarkedFinite
  <2>5. c = 0 /\ o \in {0, 1}
    BY <2>2 DEF Init, One
  <2>6. T + 0 <= m + c + o
    BY <2>3, <2>4, <2>5
  <2> QED
    BY <2>2, <2>6 DEF AtMost, Allowed
<1> QED
  BY <1>2, <1>3, <1>4 DEF NotTwice

\* RetrySafe follows: a part remembered for a row still tried is that row's.
LEMMA NotTwiceIsSafe ==
  ASSUME Base, NotTwice
  PROVE  RetrySafe
<1> SUFFICES ASSUME NEW r \in Rows, NEW i \in 0..Files(r)
             PROVE  Copies(r, i) <= Cardinality(Alike(r)) + crashes
  BY DEF RetrySafe
<1>1. PICK k : k = Key(r)
  OBVIOUS
<1>2. k \in Keys /\ i \in 0..k[4]
  BY <1>1, KeyFacts DEF Base
<1>3. AtMost(k, i, 0)
  BY <1>2 DEF NotTwice
<1>4. PICK T, m, a, c, o : /\ T = Total(Kin(k), Part(i)) /\ m = Cardinality(Marked(k))
                           /\ a = Cardinality(Kin(k)) /\ c = crashes /\ o = One(Over(k, i))
  OBVIOUS
<1>5. T \in Nat /\ m \in Nat /\ c \in Nat /\ o \in {0, 1}
  <2>1. T \in Nat
    BY <1>2, <1>4, KinTotal
  <2>2. m \in Nat
    BY <1>4, MarkedFinite
  <2>3. c \in Nat
    BY <1>4, DeliveryAssumption DEF Base, Types
  <2> QED
    BY <1>4, <2>1, <2>2, <2>3 DEF One
<1>6. T + 0 <= m + c + o
  BY <1>3, <1>4 DEF AtMost, Allowed
<1>7. IsFiniteSet(Kin(k)) /\ a \in Nat
  BY <1>4, RowsFinite DEF Kin
<1>8. m + o <= a
  <2>1. CASE Over(k, i)
    <3>1. PICK q \in Kin(k) : status[q] = "due"
      BY <2>1 DEF Over
    <3>2. q \notin Marked(k) /\ Marked(k) \cup {q} \subseteq Kin(k)
      BY <3>1 DEF Marked
    <3>3. PICK n : n = Cardinality(Marked(k) \cup {q})
      OBVIOUS
    <3>4. n = m + 1
      BY <1>4, <3>2, <3>3, MarkedFinite, FS_AddElement
    <3>5. n <= a
      BY <1>4, <1>7, <3>2, <3>3, FS_Subset
    <3>6. o = 1
      BY <1>4, <2>1 DEF One
    <3> QED
      BY <1>5, <3>4, <3>5, <3>6
  <2>2. CASE ~Over(k, i)
    <3>1. Marked(k) \subseteq Kin(k)
      BY DEF Marked
    <3>2. m <= a
      BY <1>4, <1>7, <3>1, FS_Subset
    <3>3. o = 0
      BY <1>4, <2>2 DEF One
    <3> QED
      BY <1>5, <1>7, <3>2, <3>3
  <2> QED
    BY <2>1, <2>2
<1>9. T <= a + c
  BY <1>5, <1>6, <1>7, <1>8
<1>10. Copies(r, i) = T /\ Alike(r) = Kin(k)
  BY <1>1, <1>4, AlikeIsKin DEF Copies, Total
<1> QED
  BY <1>4, <1>9, <1>10

\* Only a restart makes a delivery store its text, or an attachment, again: not
\* a retry, and not a replay, while the map of part-done deliveries is within
\* its bound and passes do not overlap (agent-delivery.ts:1-9,
\* reconcile.ts:101-104).
THEOREM DeliveryRetrySafe == Spec /\ [](InBound /\ OnePass) => []RetrySafe
<1> DEFINE J == Base /\ InStep /\ NotTwice /\ Before /\ Wanting
<1>1. Init => J
  BY BaseInit, RetryInit
<1>2. J /\ (InBound /\ OnePass) /\ [Next]_vars => J'
  BY BaseStep, InStepStep, NotTwiceStep, BeforeStep, WantingStep
<1>3. J => RetrySafe
  BY NotTwiceIsSafe
<1> HIDE DEF J
<1> QED
  BY <1>1, <1>2, <1>3, PTL DEF Spec

\* There is at most one entry for each row.
LEMMA FewEntries ==
  ASSUME Base, Cardinality(Rows) <= PendingBound
  PROVE  InBound
<1> DEFINE n == Len(pending)
           f == [i \in 1..n |-> CHOOSE r \in Rows : Key(r) = pending[i].key]
<1>1. pending \in Seq(Entry) /\ n \in Nat /\ DOMAIN pending = 1..n
  BY EntriesOf DEF Base, Types
<1>2. \A i \in 1..n : f[i] \in Rows /\ Key(f[i]) = pending[i].key
  <2> SUFFICES ASSUME NEW i \in 1..n PROVE f[i] \in Rows /\ Key(f[i]) = pending[i].key
    OBVIOUS
  <2>1. Known(pending[i].key)
    BY <1>1, EntriesOf DEF Base, EntriesTrue
  <2> QED
    BY <2>1 DEF Known
<1>3. DOMAIN f = 1..n /\ f = [i \in 1..n |-> f[i]]
  OBVIOUS
<1> HIDE DEF f
<1>4. f \in Injection(1..n, Rows)
  <2>1. f \in [1..n -> Rows]
    BY <1>2, <1>3
  <2>2. \A i, j \in 1..n : f[i] = f[j] => i = j
    BY <1>1, <1>2 DEF Base, EntriesTrue, Single
  <2> QED
    BY <2>1, <2>2 DEF Injection, IsInjective
<1>5. Cardinality(1..n) <= Cardinality(Rows) /\ Cardinality(Rows) \in Nat
  BY <1>4, FS_Injection, FS_CardinalityType, DeliveryAssumption
<1>6. Cardinality(1..n) = n
  <2> HIDE DEF n
  <2>1. n \in Int /\ 1 \in Int
    BY <1>1
  <2>2. Cardinality(1..n) = IF 1 > n THEN 0 ELSE n - 1 + 1
    BY <2>1, FS_Interval
  <2> QED
    BY <1>1, <2>2
<1>7. n <= PendingBound
  BY <1>1, <1>5, <1>6, DeliveryAssumption
<1> QED
  BY <1>7 DEF InBound

\* So with few enough rows and one pass nothing else has to be assumed.
COROLLARY DeliveryRetrySafeOfFew ==
  ASSUME Cardinality(Rows) <= PendingBound, \A p, q \in Passes : p = q
  PROVE  Spec => []RetrySafe
<1>1. Base => InBound
  BY FewEntries
<1>2. OnePass
  BY DEF OnePass
<1> QED
  BY <1>1, <1>2, DeliveryRetrySafe, BaseHolds, PTL

=============================================================================

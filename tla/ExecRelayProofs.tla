--------------------------- MODULE ExecRelayProofs ---------------------------
(***************************************************************************)
(* Theorems about exec-relay.ts: about ExecRelay, for every value of its   *)
(* bounds and limits, and at the end about RelayRegistry.                  *)
(*                                                                         *)
(* TypeCorrect and PausedForAReason hold whatever dies.  The others are    *)
(* about the life of the first daemon (OneDaemon): a second one may reuse  *)
(* the ids and numbers of the first, and then central cannot tell them     *)
(* apart: InOrder fails with two connections over two daemons.             *)
(* CountersAgree is about the way to central until a reset.  TransitKept   *)
(* is about both ways, whatever is reset: what an end has not taken is     *)
(* kept at the other and on its way in order.  InOrder, DnHeld,            *)
(* ClosesOnItsWay and the refinement of Tunnel follow from it.             *)
(***************************************************************************)
EXTENDS ExecRelay, RelayRegistry, FiniteSetTheorems, SequenceTheorems, TLAPS

-----------------------------------------------------------------------------
(* The queues.                                                             *)

LEMMA SubSeqLines ==
  ASSUME NEW S, NEW q \in Seq(S), NEW m \in Nat, m >= 1, NEW n \in Nat, n <= Len(q)
  PROVE  /\ SubSeq(q, m, n) \in Seq(S)
         /\ Len(SubSeq(q, m, n)) = IF m <= n THEN n - m + 1 ELSE 0
         /\ \A i \in 1..(n - m + 1) : SubSeq(q, m, n)[i] = q[m + i - 1]
  <1>1. \A i \in m..n : q[i] \in S
    BY LenProperties, ElementOfSeq
  <1> QED
    BY <1>1, SubSeqProperties

\* An acknowledged queue is a queue of lines.
LEMMA AfterType ==
  ASSUME NEW q \in Seq(Line), NEW s \in Nat
  PROVE  /\ After(q, s) \in Seq(Line)
         /\ Len(After(q, s)) \in Nat
  <1> DEFINE seen == {i \in DOMAIN q : q[i].seq <= s}
  <1>1. IsFiniteSet(seen) /\ Cardinality(seen) <= Len(q)
    <2>1. DOMAIN q = 1..Len(q) /\ Len(q) \in Nat
      BY LenProperties
    <2>2. IsFiniteSet(1..Len(q)) /\ Cardinality(1..Len(q)) = Len(q)
      BY <2>1, FS_Interval
    <2> QED
      BY <2>1, <2>2, FS_Subset
  <1>2. Cardinality(seen) \in Nat
    BY <1>1, FS_CardinalityType
  <1>3. SubSeq(q, 1 + Cardinality(seen), Len(q)) \in Seq(Line)
    <2>1. Len(q) \in Nat
      BY LenProperties
    <2> HIDE DEF seen
    <2> QED
      BY <1>2, <2>1, SubSeqLines
  <1> QED
    BY <1>3, LenProperties DEF After

LEMMA AckedType ==
  ASSUME NEW q \in Seq(Line), NEW s \in Nat
  PROVE  Acked(q, s) \in Seq(Line)
  <1>1. CASE \E i \in DOMAIN q : q[i].seq = s
    <2> DEFINE i == CHOOSE i \in DOMAIN q : q[i].seq = s
    <2>1. i \in 1..Len(q) /\ Len(q) \in Nat
      BY <1>1, LenProperties
    <2> HIDE DEF i
    <2>2. SubSeq(q, 1, i - 1) \in Seq(Line) /\ SubSeq(q, i + 1, Len(q)) \in Seq(Line)
      BY <2>1, SubSeqLines
    <2>3. SubSeq(q, 1, i - 1) \o SubSeq(q, i + 1, Len(q)) \in Seq(Line)
      BY <2>2, ConcatProperties
    <2> QED
      BY <1>1, <2>3 DEF Acked, i
  <1>2. CASE ~ \E i \in DOMAIN q : q[i].seq = s
    BY <1>2 DEF Acked
  <1> QED
    BY <1>1, <1>2

\* What is left of a queue numbered without a gap up to d is numbered so too,
\* ends where it did, and lacks nothing after s.
LEMMA AfterNumbered ==
  ASSUME NEW q \in Seq(Line), NEW s \in Nat, NEW d \in Nat,
         Len(q) <= d, \A i \in DOMAIN q : q[i].seq = d - Len(q) + i
  PROVE  LET r == After(q, s) IN
         /\ r \in Seq(Line) /\ Len(r) <= Len(q)
         /\ \A i \in DOMAIN r : r[i] = q[Len(q) - Len(r) + i]
         /\ \A i \in DOMAIN r : r[i].seq = d - Len(r) + i
         /\ Len(r) = Len(q) \/ d - Len(r) <= s
  <1> DEFINE N == Len(q)
             lo == d - N
             m == IF s <= lo THEN 0 ELSE IF s - lo <= N THEN s - lo ELSE N
             seen == {i \in DOMAIN q : q[i].seq <= s}
             r == After(q, s)
  <1>1. N \in Nat /\ DOMAIN q = 1..N /\ lo \in Nat
    BY LenProperties
  <1>2. \A i \in 1..N : q[i].seq = lo + i
    BY <1>1
  <1> HIDE DEF N
  <1>3. m \in Nat /\ m <= N
    BY <1>1
  <1>4. seen = 1..m
    <2>1. \A i \in 1..N : lo + i <= s <=> i \in 1..m
      BY <1>1
    <2>2. 1..m \subseteq 1..N
      BY <1>1, <1>3
    <2> HIDE DEF m, lo
    <2> QED
      BY <1>1, <1>2, <2>1, <2>2
  <1>5. r = SubSeq(q, 1 + m, N)
    <2> HIDE DEF m, seen
    <2>1. Cardinality(1..m) = m
      BY <1>3, FS_Interval
    <2> QED
      BY <1>4, <2>1 DEF After, seen, N
  <1>6. /\ r \in Seq(Line) /\ Len(r) = N - m /\ DOMAIN r = 1..(N - m)
        /\ \A i \in 1..(N - m) : r[i] = q[m + i]
    <2> HIDE DEF m, r
    <2>1. /\ r \in Seq(Line)
          /\ Len(r) = IF 1 + m <= N THEN N - (1 + m) + 1 ELSE 0
          /\ \A i \in 1..(N - (1 + m) + 1) : r[i] = q[(1 + m) + i - 1]
      BY <1>1, <1>3, <1>5, SubSeqLines DEF N
    <2>2. N - (1 + m) + 1 = N - m /\ \A i \in 1..(N - m) : (1 + m) + i - 1 = m + i
      BY <1>1, <1>3
    <2>3. DOMAIN r = 1..Len(r)
      BY <2>1, LenProperties
    <2>4. Len(r) = N - m
      BY <1>1, <1>3, <2>1
    <2>5. \A i \in 1..(N - m) : r[i] = q[m + i]
      BY <2>1, <2>2
    <2> QED
      BY <2>1, <2>3, <2>4, <2>5
  <1> HIDE DEF r
  <1>7. N - Len(r) = m
    BY <1>1, <1>3, <1>6
  <1>8. \A i \in DOMAIN r : r[i] = q[N - Len(r) + i] /\ r[i].seq = d - Len(r) + i
    <2> TAKE i \in DOMAIN r
    <2>1. r[i] = q[m + i] /\ m + i \in 1..N
      BY <1>1, <1>3, <1>6
    <2>2. d - Len(r) + i = lo + (m + i)
      BY <1>1, <1>3, <1>6
    <2> HIDE DEF m, lo
    <2> QED
      BY <1>2, <1>7, <2>1, <2>2
  <1>9. Len(r) = N \/ d - Len(r) <= s
    BY <1>1, <1>3, <1>6
  <1>10. Len(r) <= N
    BY <1>1, <1>3, <1>6
  <1> QED
    BY <1>6, <1>8, <1>9, <1>10 DEF r, N

-----------------------------------------------------------------------------
(* Type correctness.                                                       *)

LEMMA LineTypes ==
  /\ \A t \in Kinds, a \in Nat, b \in Nat : Control(t, a, b) \in Line
  /\ sid \in [Conns -> Nat] =>
       \A t \in Kinds, k \in Conns, n \in Nat, s \in Nat : Frame(t, k, n, s) \in Line
  BY BoundsAssumption DEF Control, Frame, Line, Conns

LEMMA SeqOps ==
  ASSUME NEW S, NEW q \in Seq(S)
  PROVE  /\ \A e \in S : Append(q, e) \in Seq(S)
         /\ \A r \in Seq(S) : q \o r \in Seq(S)
         /\ \A e \in S : q \o <<e>> \in Seq(S)
         /\ q # <<>> => Head(q) \in S /\ Tail(q) \in Seq(S)
         /\ \A n \in 0..Len(q) : SubSeq(q, 1, n) \in Seq(S)
         /\ Len(q) \in Nat
  <1>1. Len(q) \in Nat
    BY LenProperties
  <1>2. \A n \in 0..Len(q) : SubSeq(q, 1, n) \in Seq(S)
    BY <1>1, SubSeqLines
  <1>3. \A r \in Seq(S) : q \o r \in Seq(S)
    BY ConcatProperties
  <1>4. \A e \in S : <<e>> \in Seq(S) /\ Append(q, e) \in Seq(S)
    BY AppendProperties
  <1> QED
    BY <1>1, <1>2, <1>3, <1>4, HeadTailProperties

LEMMA EmptyQueues == <<>> \in Seq(Line) /\ <<>> \in Seq(Chunk)
  BY EmptySeq

LEMMA InitTypeOK == Init => TypeOK
  <1> SUFFICES ASSUME Init PROVE TypeOK
    OBVIOUS
  <1>1. DaemonTypeOK
    BY EmptyQueues DEF Init, DaemonTypeOK
  <1>2. CentralTypeOK
    BY EmptyQueues DEF Init, CentralTypeOK, StreamStates
  <1>3. AgentTypeOK
    BY EmptyQueues DEF Init, AgentTypeOK
  <1> QED
    BY <1>1, <1>2, <1>3, EmptyQueues DEF Init, TypeOK

AgentEnds == {"idle", "open", "closed"}

LEMMA ShutType ==
  ASSUME NEW c \in [Conns -> AgentEnds] PROVE Shut(c) \in [Conns -> AgentEnds]
  BY DEF Shut, AgentEnds

LEMMA ToClientType ==
  ASSUME toC \in Seq(Line), NEW lines \in Seq(Line), ToClient(lines)
  PROVE  toC' \in Seq(Line)
  BY SeqOps DEF ToClient

LEMMA ResetTunnelsType ==
  ASSUME conn \in [Conns -> AgentEnds], resets \in Nat, ResetTunnels
  PROVE  /\ conn' \in [Conns -> AgentEnds] /\ queue' \in [Conns -> Seq(Chunk)]
         /\ outbuf' \in Seq(Line) /\ resets' \in Nat
  BY ShutType, EmptyQueues DEF ResetTunnels

LEMMA EmitType ==
  ASSUME TypeOK, NEW f \in Line, NEW c \in [Conns -> AgentEnds],
         NEW q \in [Conns -> Seq(Chunk)], Emit(f, c, q)
  PROVE  /\ dOut' \in Nat /\ outbuf' \in Seq(Line) /\ toC' \in Seq(Line)
         /\ conn' \in [Conns -> AgentEnds] /\ queue' \in [Conns -> Seq(Chunk)]
         /\ resets' \in Nat
  <1>1. /\ conn \in [Conns -> AgentEnds] /\ resets \in Nat /\ toC \in Seq(Line)
        /\ outbuf \in Seq(Line)
    BY DEF TypeOK, AgentTypeOK, DaemonTypeOK, AgentEnds
  <1>2. <<f>> \in Seq(Line) /\ <<Control("reset", 0, 0)>> \in Seq(Line)
        /\ Append(outbuf, f) \in Seq(Line)
    BY <1>1, SeqOps, LineTypes DEF Kinds
  <1>3. dOut' \in Nat
    BY DEF Emit, Line
  <1>4. CASE Len(outbuf) + 1 > DaemonBuffer
    BY <1>1, <1>2, <1>3, <1>4, ResetTunnelsType, ToClientType DEF Emit
  <1>5. CASE ~(Len(outbuf) + 1 > DaemonBuffer)
    BY <1>1, <1>2, <1>3, <1>5, ToClientType DEF Emit
  <1> QED
    BY <1>4, <1>5

LEMMA AgentStepTypeOK == TypeOK /\ AgentNext => TypeOK'
  <1> SUFFICES ASSUME TypeOK, NEW k \in Conns,
                      AgentConnect(k) \/ AgentSend(k) \/ AgentClose(k) \/ AgentRead(k)
               PROVE  TypeOK'
    BY DEF AgentNext
  <1> USE DEF TypeOK, DaemonTypeOK, CentralTypeOK, AgentTypeOK, centralVars, daemonVars,
              wireVars, AgentEnds
  <1>1. CASE AgentConnect(k)
    <2> DEFINE f == [t |-> "open", id |-> nextStream, conn |-> k, n |-> 0, seq |-> dOut + 1]
               c == [conn EXCEPT ![k] = "open"]
    <2>1. f \in Line /\ c \in [Conns -> AgentEnds] /\ queue \in [Conns -> Seq(Chunk)]
      <3>1. k \in Nat
        BY BoundsAssumption DEF Conns
      <3> QED
        BY <3>1 DEF Line, Kinds
    <2>2. Emit(f, c, queue)
      BY <1>1 DEF AgentConnect
    <2>3. sid' \in [Conns -> Nat] /\ nextStream' \in Nat
      BY <1>1 DEF AgentConnect
    <2> HIDE DEF f, c
    <2>4. /\ dOut' \in Nat /\ outbuf' \in Seq(Line) /\ toC' \in Seq(Line)
          /\ conn' \in [Conns -> AgentEnds] /\ queue' \in [Conns -> Seq(Chunk)]
          /\ resets' \in Nat
      BY <2>1, <2>2, EmitType
    <2> QED
      BY <1>1, <2>3, <2>4 DEF AgentConnect
  <1>2. CASE AgentSend(k)
    <2> DEFINE f == Frame("data", k, sentUp[k] + 1, dOut + 1)
    <2>1. f \in Line /\ conn \in [Conns -> AgentEnds] /\ queue \in [Conns -> Seq(Chunk)]
      BY LineTypes DEF Kinds
    <2>2. Emit(f, conn, queue)
      BY <1>2 DEF AgentSend
    <2>3. sentUp' \in [Conns -> Nat]
      BY <1>2 DEF AgentSend
    <2> HIDE DEF f
    <2>4. /\ dOut' \in Nat /\ outbuf' \in Seq(Line) /\ toC' \in Seq(Line)
          /\ conn' \in [Conns -> AgentEnds] /\ queue' \in [Conns -> Seq(Chunk)]
          /\ resets' \in Nat
      BY <2>1, <2>2, EmitType
    <2> QED
      BY <1>2, <2>3, <2>4 DEF AgentSend
  <1>3. CASE AgentClose(k)
    <2> DEFINE f == Frame("close", k, 0, dOut + 1)
               c == [conn EXCEPT ![k] = "closed"]
               q == [queue EXCEPT ![k] = <<>>]
    <2>1. f \in Line /\ c \in [Conns -> AgentEnds] /\ q \in [Conns -> Seq(Chunk)]
      BY LineTypes, EmptyQueues DEF Kinds
    <2>2. Emit(f, c, q)
      BY <1>3 DEF AgentClose
    <2>3. sentUp' = sentUp /\ gotDn' = gotDn
      BY <1>3 DEF AgentClose
    <2> HIDE DEF f, c, q
    <2>4. /\ dOut' \in Nat /\ outbuf' \in Seq(Line) /\ toC' \in Seq(Line)
          /\ conn' \in [Conns -> AgentEnds] /\ queue' \in [Conns -> Seq(Chunk)]
          /\ resets' \in Nat
      BY <2>1, <2>2, EmitType
    <2> QED
      BY <1>3, <2>3, <2>4 DEF AgentClose
  <1>4. CASE AgentRead(k)
    <2>1. Append(gotDn[k], Head(queue[k])) \in Seq(Chunk) /\ Tail(queue[k]) \in Seq(Chunk)
      BY <1>4, SeqOps DEF AgentRead
    <2>2. gotDn' \in [Conns -> Seq(Chunk)] /\ queue' \in [Conns -> Seq(Chunk)]
      BY <1>4, <2>1 DEF AgentRead
    <2> QED
      BY <1>4, <2>2 DEF AgentRead
  <1> QED
    BY <1>1, <1>2, <1>3, <1>4

LEMMA DaemonFrameType ==
  ASSUME TypeOK, NEW f \in Line, DaemonFrame(f)
  PROVE  /\ dIn' \in Nat /\ outbuf' \in Seq(Line) /\ toC' \in Seq(Line)
         /\ conn' \in [Conns -> AgentEnds] /\ queue' \in [Conns -> Seq(Chunk)]
  <1>1. /\ dIn \in Nat /\ outbuf \in Seq(Line) /\ toC \in Seq(Line)
        /\ conn \in [Conns -> AgentEnds] /\ queue \in [Conns -> Seq(Chunk)]
    BY DEF TypeOK, DaemonTypeOK, AgentTypeOK, AgentEnds
  <1>2. /\ f.seq \in Nat /\ <<f.conn, f.n>> \in Chunk
        /\ <<Control("ack", f.seq, 0)>> \in Seq(Line)
    <2>1. f.seq \in Nat /\ <<f.conn, f.n>> \in Chunk
      BY DEF Line, Chunk
    <2>2. Control("ack", f.seq, 0) \in Line
      BY <2>1, LineTypes DEF Kinds
    <2> QED
      BY <2>1, <2>2, SeqOps
  <1>3. CASE OnClientAck(f)
    BY <1>1, <1>2, <1>3, AfterType DEF OnClientAck
  <1>4. CASE OnClientData(f)
    <2>1. \A k \in Conns : Append(queue[k], <<f.conn, f.n>>) \in Seq(Chunk)
      BY <1>1, <1>2, SeqOps
    <2>2. queue' \in [Conns -> Seq(Chunk)]
      BY <1>1, <1>4, <2>1 DEF OnClientData
    <2> QED
      BY <1>1, <1>2, <1>4, <2>2, ToClientType DEF OnClientData, TakeFrame
  <1>5. CASE OnClientClose(f)
    <2>1. conn' \in [Conns -> AgentEnds]
      BY <1>1, <1>5 DEF OnClientClose, AgentEnds
    <2>2. queue' \in [Conns -> Seq(Chunk)]
      BY <1>1, <1>5, EmptyQueues DEF OnClientClose
    <2> QED
      BY <1>1, <1>2, <1>5, <2>1, <2>2, ToClientType DEF OnClientClose, TakeFrame
  <1> QED
    BY <1>3, <1>4, <1>5 DEF DaemonFrame

LEMMA DaemonStepTypeOK == TypeOK /\ (DaemonNext \/ DaemonCrash) => TypeOK'
  <1> SUFFICES ASSUME TypeOK, DaemonNext \/ DaemonCrash PROVE TypeOK'
    OBVIOUS
  <1>1. /\ conn \in [Conns -> AgentEnds] /\ resets \in Nat
        /\ toD \in Seq(Line) /\ toC \in Seq(Line) /\ zombie \in Seq(Line)
    BY DEF TypeOK, AgentTypeOK, AgentEnds
  <1>2. \A q \in Seq(Line) : q # <<>> => Head(q) \in Line /\ Tail(q) \in Seq(Line)
    BY SeqOps
  <1> USE DEF TypeOK, DaemonTypeOK, CentralTypeOK, AgentTypeOK, centralVars, agentVars,
              wireVars
  <1>3. CASE DaemonHello
    <2> DEFINE h == Head(toD)
               left == After(outbuf, h.n)
               in == IF h.seq < dIn THEN h.seq ELSE dIn
    <2>1. h \in Line /\ Tail(toD) \in Seq(Line)
      BY <1>1, <1>2, <1>3 DEF DaemonHello
    <2>2. h.n \in Nat /\ h.seq \in Nat /\ in \in Nat
      BY <2>1 DEF Line
    <2>3. left \in Seq(Line)
      BY <2>2, AfterType
    <2>4. outbuf' = left /\ dIn' = in
          /\ toC' = IF pipe = "open" THEN toC \o <<Control("ready", dOut, in)>> \o left ELSE toC
      BY <1>3 DEF DaemonHello
    <2> HIDE DEF in, left, h
    <2>5. toC \o <<Control("ready", dOut, in)>> \o left \in Seq(Line)
      BY <2>2, <2>3, SeqOps, LineTypes DEF Kinds
    <2> QED
      BY <1>3, <2>1, <2>2, <2>3, <2>4, <2>5, EmptyQueues DEF DaemonHello
  <1>4. CASE DaemonRecv
    <2>1. ASSUME NEW f \in Line, DaemonFrame(f), toD' \in Seq(Line), zombie' \in Seq(Line)
          PROVE  TypeOK'
      <3>1. /\ dIn' \in Nat /\ outbuf' \in Seq(Line) /\ toC' \in Seq(Line)
            /\ conn' \in [Conns -> AgentEnds] /\ queue' \in [Conns -> Seq(Chunk)]
        BY <2>1, DaemonFrameType
      <3> QED
        BY <1>4, <2>1, <3>1 DEF DaemonRecv, AgentEnds
    <2> QED
      BY <1>1, <1>2, <1>4, <2>1 DEF DaemonRecv
  <1>5. CASE DaemonGone
    BY <1>5 DEF DaemonGone
  <1>6. CASE GraceExpire
    <2>1. /\ conn' \in [Conns -> AgentEnds] /\ queue' \in [Conns -> Seq(Chunk)]
          /\ outbuf' \in Seq(Line) /\ resets' \in Nat
      BY <1>1, <1>6, ResetTunnelsType DEF GraceExpire
    <2> QED
      BY <1>6, <2>1 DEF GraceExpire, AgentEnds
  <1>7. CASE DaemonBoot
    BY <1>7 DEF DaemonBoot
  <1>8. CASE DaemonCrash
    <2>1. conn' \in [Conns -> AgentEnds] /\ queue' \in [Conns -> Seq(Chunk)]
      BY <1>1, <1>8, ShutType, EmptyQueues DEF DaemonCrash, DaemonDies
    <2>2. toC' \in Seq(Line) /\ toD' \in Seq(Line)
      BY <1>1, <1>8, SeqOps, EmptyQueues DEF DaemonCrash
    <2> QED
      BY <1>8, <2>1, <2>2, EmptyQueues DEF DaemonCrash, DaemonDies, AgentEnds
  <1> QED
    BY <1>3, <1>4, <1>5, <1>6, <1>7, <1>8 DEF DaemonNext

LEMMA FlowType == \A p, pz, hold : Flow(p, pz, hold) \in BOOLEAN
  BY DEF Flow

LEMMA DroppedType ==
  ASSUME NEW s \in [Conns -> StreamStates] PROVE Dropped(s) \in [Conns -> StreamStates]
  BY DEF Dropped, StreamStates

LEMMA BlockedType == blocked \in BOOLEAN => BlockedAfter \subseteq BOOLEAN
  BY DEF BlockedAfter

LEMMA WriteType ==
  ASSUME toD \in Seq(Line), NEW lines \in Seq(Line), Write(lines)
  PROVE  toD' \in Seq(Line)
  BY SeqOps DEF Write

LEMMA PipeStepTypeOK == TypeOK /\ (PipeNext \/ Break \/ Drain \/ Close) => TypeOK'
  <1> SUFFICES ASSUME TypeOK, PipeNext \/ Break \/ Drain \/ Close PROVE TypeOK'
    OBVIOUS
  <1>1. /\ toD \in Seq(Line) /\ toC \in Seq(Line) /\ conn \in [Conns -> AgentEnds]
    BY DEF TypeOK, AgentTypeOK, AgentEnds
  <1>2. \A q \in Seq(Line) : \A n \in 0..Len(q) : SubSeq(q, 1, n) \in Seq(Line)
    BY SeqOps
  <1> USE DEF TypeOK, DaemonTypeOK, CentralTypeOK, AgentTypeOK, centralVars, agentVars,
              wireVars, daemonVars
  <1>3. CASE Attach
    <2>1. Control("hello", cOut, cIn) \in Line
      BY LineTypes DEF Kinds
    <2>2. toD' \in Seq(Line) /\ toC' \in Seq(Line)
      BY <1>3, <2>1, SeqOps, EmptyQueues DEF Attach
    <2>3. blocked' \in BOOLEAN
      BY <1>3 DEF Attach
    <2> QED
      BY <1>1, <1>3, <2>2, <2>3 DEF Attach
  <1>4. CASE AttachNoDaemon
    BY <1>4, FlowType DEF AttachNoDaemon
  <1>5. CASE StartDaemon
    <2>1. conn' \in [Conns -> AgentEnds] /\ queue' \in [Conns -> Seq(Chunk)]
      BY <1>1, <1>5, ShutType, EmptyQueues DEF StartDaemon, DaemonDies
    <2>2. outbuf' \in Seq(Line) /\ zombie' \in Seq(Line)
      BY <1>5, EmptyQueues DEF StartDaemon, DaemonDies
    <2>3. DaemonTypeOK'
      <3>1. /\ daemon' = "booting" /\ starts' = starts + 1 /\ client' = "none" /\ ~grace'
            /\ nextStream' = 0 /\ dOut' = 0 /\ dIn' = 0 /\ sid' = sid /\ grace' \in BOOLEAN
        BY <1>5 DEF StartDaemon, DaemonDies
      <3> QED
        BY <2>2, <3>1
    <2>4. CentralTypeOK'
      BY <1>5 DEF StartDaemon
    <2> QED
      BY <1>5, <2>1, <2>2, <2>3, <2>4 DEF StartDaemon, AgentEnds
  <1>6. CASE StartFails
    BY <1>6 DEF StartFails
  <1>7. CASE PipeDone
    BY <1>7, FlowType DEF PipeDone
  <1>8. CASE Break
    <2>1. toD' \in Seq(Line) /\ toC' \in Seq(Line)
      BY <1>1, <1>2, <1>8 DEF Break
    <2> QED
      BY <1>8, <2>1 DEF Break
  <1>9. CASE Drain
    BY <1>9, FlowType DEF Drain
  <1>10. CASE Close
    <2>1. toD' \in Seq(Line) /\ toC' \in Seq(Line)
      BY <1>1, <1>2, <1>10 DEF Close
    <2>2. stream' \in [Conns -> StreamStates]
      BY <1>10, DroppedType DEF Close
    <2> QED
      BY <1>10, <2>1, <2>2, EmptyQueues DEF Close
  <1> QED
    BY <1>3, <1>4, <1>5, <1>6, <1>7, <1>8, <1>9, <1>10 DEF PipeNext

LEMMA AckFrameType ==
  ASSUME TypeOK, NEW f \in Line, AckFrame(f)
  PROVE  /\ toD' \in Seq(Line) /\ blocked' \in BOOLEAN /\ cIn' \in Nat
         /\ UNCHANGED <<ready, paused, cOut, pending>>
  <1>1. <<Control("ack", f.seq, 0)>> \in Seq(Line)
    <2>1. f.seq \in Nat
      BY DEF Line
    <2>2. Control("ack", f.seq, 0) \in Line
      BY <2>1, LineTypes DEF Kinds
    <2> QED
      BY <2>2, SeqOps
  <1>2. toD' \in Seq(Line)
    BY <1>1, WriteType DEF TypeOK, AckFrame
  <1>3. blocked' \in BOOLEAN
    BY BlockedType DEF TypeOK, CentralTypeOK, AckFrame
  <1>4. cIn' \in Nat
    BY DEF TypeOK, CentralTypeOK, AckFrame, Line
  <1> QED
    BY <1>2, <1>3, <1>4 DEF AckFrame

LEMMA OnLineType ==
  ASSUME TypeOK, NEW f \in Line, OnLine(f)
  PROVE  /\ ready' \in BOOLEAN /\ blocked' \in BOOLEAN /\ paused' \in BOOLEAN
         /\ cOut' \in Nat /\ cIn' \in Nat /\ pending' \in Seq(Line)
         /\ stream' \in [Conns -> StreamStates] /\ gotUp' \in [Conns -> Seq(Chunk)]
         /\ toD' \in Seq(Line)
  <1>1. f.seq \in Nat /\ f.n \in Nat /\ <<f.conn, f.n>> \in Chunk
    BY DEF Line, Chunk
  <1>2. Unmapped \in StreamStates /\ "mapped" \in StreamStates
    BY DEF Unmapped, StreamStates
  <1> USE DEF TypeOK, CentralTypeOK, AgentTypeOK
  <1>3. CASE OnReady(f)
    <2> DEFINE new == f.seq < cIn
               keep == After(IF new THEN <<>> ELSE pending, f.n)
    <2>1. keep \in Seq(Line)
      BY <1>1, AfterType, EmptyQueues
    <2>2. /\ pending' = keep /\ Write(keep)
          /\ blocked' \in IF keep = <<>> THEN {blocked} ELSE BlockedAfter
          /\ cIn' = IF new THEN f.seq ELSE cIn
          /\ stream' = IF new THEN Dropped(stream) ELSE stream
          /\ paused' = Flow(keep, paused, blocked')
      BY <1>3 DEF OnReady
    <2> HIDE DEF new, keep
    <2>3. toD' \in Seq(Line)
      BY <2>1, <2>2, WriteType
    <2>4. stream' \in [Conns -> StreamStates]
      BY <2>2, DroppedType
    <2>5. blocked' \in BOOLEAN
      BY <2>2, BlockedType
    <2>6. paused' \in BOOLEAN
      BY <2>2, FlowType
    <2>7. cIn' \in Nat
      BY <1>1, <2>2
    <2> QED
      BY <1>3, <2>1, <2>2, <2>3, <2>4, <2>5, <2>6, <2>7 DEF OnReady
  <1>4. CASE OnAck(f)
    <2>1. pending' \in Seq(Line)
      BY <1>1, <1>4, AckedType DEF OnAck
    <2>2. paused' \in BOOLEAN
      BY <1>4, FlowType DEF OnAck
    <2> QED
      BY <1>4, <2>1, <2>2 DEF OnAck
  <1>5. CASE OnReset(f)
    <2>1. paused' \in BOOLEAN
      BY <1>5, FlowType DEF OnReset
    <2>2. stream' \in [Conns -> StreamStates]
      BY <1>5, DroppedType DEF OnReset
    <2> QED
      BY <1>5, <2>1, <2>2, EmptyQueues DEF OnReset
  <1>6. CASE OnOpen(f)
    <2>1. stream' \in [Conns -> StreamStates]
      BY <1>2, <1>6 DEF OnOpen
    <2> QED
      BY <1>1, <1>6, <2>1, AckFrameType DEF OnOpen
  <1>7. CASE OnData(f)
    <2>1. \A k \in Conns : Append(gotUp[k], <<f.conn, f.n>>) \in Seq(Chunk)
      BY <1>1, SeqOps
    <2>2. gotUp' \in [Conns -> Seq(Chunk)]
      BY <1>7, <2>1 DEF OnData
    <2> QED
      BY <1>1, <1>7, <2>2, AckFrameType DEF OnData
  <1>8. CASE OnClose(f)
    <2>1. stream' \in [Conns -> StreamStates]
      BY <1>2, <1>8 DEF OnClose
    <2> QED
      BY <1>1, <1>8, <2>1, AckFrameType DEF OnClose
  <1> QED
    BY <1>3, <1>4, <1>5, <1>6, <1>7, <1>8 DEF OnLine

LEMMA CentralRecvTypeOK == TypeOK /\ CentralRecv => TypeOK'
  <1> SUFFICES ASSUME TypeOK, CentralRecv PROVE TypeOK'
    OBVIOUS
  <1>1. Head(toC) \in Line /\ toC' \in Seq(Line)
    BY SeqOps DEF TypeOK, CentralRecv
  <1>2. OnLine(Head(toC))
    BY DEF CentralRecv
  <1>3. /\ ready' \in BOOLEAN /\ blocked' \in BOOLEAN /\ paused' \in BOOLEAN
        /\ cOut' \in Nat /\ cIn' \in Nat /\ pending' \in Seq(Line)
        /\ stream' \in [Conns -> StreamStates] /\ gotUp' \in [Conns -> Seq(Chunk)]
        /\ toD' \in Seq(Line)
    BY <1>1, <1>2, OnLineType
  <1> QED
    BY <1>1, <1>3 DEF TypeOK, DaemonTypeOK, CentralTypeOK, AgentTypeOK, CentralRecv, daemonVars

\* What #send leaves behind, whether or not it overflowed.
LEMMA SendType ==
  ASSUME TypeOK, NEW t \in Kinds, NEW k \in Conns, NEW n \in Nat,
         NEW streams \in [Conns -> StreamStates], Send(t, k, n, streams)
  PROVE  /\ blocked' \in BOOLEAN /\ paused' \in BOOLEAN /\ cOut' \in Nat
         /\ pending' \in Seq(Line) /\ stream' \in [Conns -> StreamStates]
         /\ toD' \in Seq(Line)
  <1> DEFINE f == Frame(t, k, n, cOut + 1)
             p == Append(pending, f)
             left == {j \in Conns : streams[j] = "mapped"}
  <1>1. /\ toD \in Seq(Line) /\ pending \in Seq(Line) /\ cOut \in Nat /\ blocked \in BOOLEAN
        /\ sid \in [Conns -> Nat]
    BY DEF TypeOK, CentralTypeOK, DaemonTypeOK
  <1>2. f \in Line
    BY <1>1, LineTypes
  <1>3. p \in Seq(Line) /\ <<f>> \in Seq(Line)
    BY <1>1, <1>2, SeqOps
  <1>4. Cardinality(left) \in Nat
    <2>1. IsFiniteSet(Conns)
      BY BoundsAssumption, FS_Interval DEF Conns
    <2> QED
      BY <2>1, FS_Subset, FS_CardinalityType
  <1>5. PICK b \in IF ready THEN BlockedAfter ELSE {blocked} :
         /\ blocked' = b
         /\ IF Len(p) <= MaxBuffer
            THEN /\ cOut' = cOut + 1 /\ pending' = p /\ stream' = streams
                 /\ Write(IF ready THEN <<f>> ELSE <<>>)
                 /\ paused' = Flow(p, paused, ~ready \/ b)
            ELSE \E order \in [1..Cardinality(left) -> left] :
                 LET closes == [i \in 1..Cardinality(left) |->
                                   Frame("close", order[i], 0, cOut + 1 + i)]
                 IN /\ \A i, j \in DOMAIN order : i < j => order[i] < order[j]
                    /\ cOut' = cOut + 1 + Cardinality(left)
                    /\ pending' = closes /\ stream' = Dropped(streams)
                    /\ Write(IF ready THEN <<f>> \o closes ELSE <<>>)
                    /\ paused' = (closes # <<>> /\ Flow(closes, FALSE, ~ready \/ b))
    BY DEF Send
  <1>6. blocked' \in BOOLEAN
    BY <1>1, <1>5, BlockedType
  <1> HIDE DEF f, p, left
  <1>7. CASE Len(p) <= MaxBuffer
    <2>1. toD' \in Seq(Line)
      BY <1>1, <1>3, <1>5, <1>7, WriteType, EmptyQueues
    <2>2. paused' \in BOOLEAN
      BY <1>5, <1>7, FlowType
    <2> QED
      BY <1>1, <1>3, <1>5, <1>6, <1>7, <2>1, <2>2
  <1>8. CASE ~(Len(p) <= MaxBuffer)
    <2>1. PICK order \in [1..Cardinality(left) -> left] :
                 LET closes == [i \in 1..Cardinality(left) |->
                                   Frame("close", order[i], 0, cOut + 1 + i)]
                 IN /\ cOut' = cOut + 1 + Cardinality(left)
                    /\ pending' = closes /\ stream' = Dropped(streams)
                    /\ Write(IF ready THEN <<f>> \o closes ELSE <<>>)
                    /\ paused' = (closes # <<>> /\ Flow(closes, FALSE, ~ready \/ b))
      BY <1>5, <1>8
    <2> DEFINE closes == [i \in 1..Cardinality(left) |->
                                   Frame("close", order[i], 0, cOut + 1 + i)]
    <2>2. closes \in Seq(Line)
      <3>1. \A i \in 1..Cardinality(left) : order[i] \in Conns /\ cOut + 1 + i \in Nat
        <4>1. left \subseteq Conns
          BY DEF left
        <4>2. \A i \in 1..Cardinality(left) : order[i] \in left
          BY <2>1
        <4>3. \A i \in 1..Cardinality(left) : cOut + 1 + i \in Nat
          BY <1>1, <1>4
        <4> QED
          BY <4>1, <4>2, <4>3
      <3>2. \A i \in 1..Cardinality(left) : Frame("close", order[i], 0, cOut + 1 + i) \in Line
        BY <1>1, <3>1, LineTypes DEF Kinds
      <3>3. closes \in [1..Cardinality(left) -> Line]
        BY <3>2
      <3> HIDE DEF closes
      <3> QED
        BY <1>4, <3>3, SeqDef
    <2>3. <<f>> \o closes \in Seq(Line)
      BY <1>3, <2>2, SeqOps
    <2> HIDE DEF closes
    <2>4. toD' \in Seq(Line)
      <3>1. Write(IF ready THEN <<f>> \o closes ELSE <<>>)
        BY <2>1 DEF closes
      <3> QED
        BY <1>1, <2>3, <3>1, WriteType, EmptyQueues
    <2>5. stream' \in [Conns -> StreamStates]
      BY <2>1, DroppedType
    <2>6. cOut' \in Nat
      BY <1>1, <1>4, <2>1
    <2>7. paused' \in BOOLEAN
      BY <2>1, FlowType
    <2>8. pending' \in Seq(Line)
      BY <2>1, <2>2 DEF closes
    <2> QED
      BY <1>6, <2>4, <2>5, <2>6, <2>7, <2>8
  <1> QED
    BY <1>7, <1>8

LEMMA RouteStepTypeOK == TypeOK /\ RouteNext => TypeOK'
  <1> SUFFICES ASSUME TypeOK, NEW k \in Conns,
                      RouteSend(k) \/ RouteEnd(k) \/ RouteDestroy(k) \/ RouteFinish(k)
               PROVE  TypeOK'
    BY DEF RouteNext
  <1> USE DEF TypeOK, DaemonTypeOK, CentralTypeOK, AgentTypeOK, daemonVars
  <1>1. ASSUME NEW t \in Kinds, NEW n \in Nat, NEW streams \in [Conns -> StreamStates],
               Send(t, k, n, streams), UNCHANGED routeUnchanged, sentDn' \in [Conns -> Nat]
        PROVE  TypeOK'
    <2>1. /\ blocked' \in BOOLEAN /\ paused' \in BOOLEAN /\ cOut' \in Nat
          /\ pending' \in Seq(Line) /\ stream' \in [Conns -> StreamStates]
          /\ toD' \in Seq(Line)
      BY <1>1, SendType
    <2> QED
      BY <1>1, <2>1 DEF routeUnchanged
  <1>2. CASE RouteSend(k)
    <2>1. sentDn[k] + 1 \in Nat /\ sentDn' \in [Conns -> Nat] /\ UNCHANGED routeUnchanged
      BY <1>2 DEF RouteSend
    <2>2. Send("data", k, sentDn[k] + 1, stream)
      BY <1>2 DEF RouteSend
    <2>3. "data" \in Kinds /\ stream \in [Conns -> StreamStates]
      BY DEF Kinds
    <2> QED
      BY <1>1, <2>1, <2>2, <2>3
  <1>3. CASE RouteEnd(k)
    <2>1. [stream EXCEPT ![k] = "ended"] \in [Conns -> StreamStates] /\ "close" \in Kinds
      BY DEF StreamStates, Kinds
    <2>2. Send("close", k, 0, [stream EXCEPT ![k] = "ended"]) /\ UNCHANGED <<sentDn, routeUnchanged>>
      BY <1>3 DEF RouteEnd
    <2>3. sentDn' \in [Conns -> Nat] /\ UNCHANGED routeUnchanged
      BY <2>2
    <2> QED
      BY <1>1, <2>1, <2>2, <2>3
  <1>4. CASE RouteDestroy(k)
    <2>1. [stream EXCEPT ![k] = "gone"] \in [Conns -> StreamStates] /\ "close" \in Kinds
      BY DEF StreamStates, Kinds
    <2>2. Send("close", k, 0, [stream EXCEPT ![k] = "gone"]) /\ UNCHANGED <<sentDn, routeUnchanged>>
      BY <1>4 DEF RouteDestroy
    <2>3. sentDn' \in [Conns -> Nat] /\ UNCHANGED routeUnchanged
      BY <2>2
    <2> QED
      BY <1>1, <2>1, <2>2, <2>3
  <1>5. CASE RouteFinish(k)
    <2>1. stream' \in [Conns -> StreamStates]
      BY <1>5 DEF RouteFinish, StreamStates
    <2> QED
      BY <1>5, <2>1 DEF RouteFinish, wireVars, agentVars
  <1> QED
    BY <1>2, <1>3, <1>4, <1>5

\* Each reachable state of the relay is well typed, whatever its bounds.
THEOREM TypeCorrect == Spec => []TypeOK
  <1>1. Init => TypeOK
    BY InitTypeOK
  <1>2. TypeOK /\ [Next]_vars => TypeOK'
    <2> SUFFICES ASSUME TypeOK, [Next]_vars PROVE TypeOK'
      OBVIOUS
    <2>1. CASE Next
      BY <2>1, AgentStepTypeOK, DaemonStepTypeOK, PipeStepTypeOK, CentralRecvTypeOK,
         RouteStepTypeOK DEF Next, FaultNext
    <2>2. CASE UNCHANGED vars
      BY <2>2 DEF vars, daemonVars, centralVars, wireVars, agentVars, TypeOK, DaemonTypeOK,
         CentralTypeOK, AgentTypeOK
    <2> QED
      BY <2>1, <2>2
  <1> QED
    BY <1>1, <1>2, PTL DEF Spec

-----------------------------------------------------------------------------
(* One daemon: no frame towards central is lost, skipped or taken twice.   *)

\* What happens to a queue, element by element.
LEMMA Elements ==
  ASSUME NEW q \in Seq(Line)
  PROVE  /\ Len(q) \in Nat /\ DOMAIN q = 1..Len(q)
         /\ \A i \in DOMAIN q : q[i] \in Line
         /\ \A r \in Seq(Line) :
              /\ DOMAIN (q \o r) = 1..(Len(q) + Len(r))
              /\ \A i \in 1..Len(q) : (q \o r)[i] = q[i]
              /\ \A i \in 1..Len(r) : (q \o r)[Len(q) + i] = r[i]
         /\ q # <<>> => /\ 1 \in DOMAIN q /\ Head(q) = q[1]
                        /\ DOMAIN Tail(q) = 1..(Len(q) - 1)
                        /\ \A i \in DOMAIN Tail(q) : i + 1 \in DOMAIN q /\ Tail(q)[i] = q[i + 1]
         /\ \A n \in 0..Len(q) : /\ DOMAIN SubSeq(q, 1, n) = 1..n
                                 /\ \A i \in 1..n : i \in DOMAIN q /\ SubSeq(q, 1, n)[i] = q[i]
  <1>1. Len(q) \in Nat /\ DOMAIN q = 1..Len(q) /\ \A i \in DOMAIN q : q[i] \in Line
    BY LenProperties, ElementOfSeq
  <1>2. ASSUME NEW r \in Seq(Line)
        PROVE  /\ DOMAIN (q \o r) = 1..(Len(q) + Len(r))
               /\ \A i \in 1..Len(q) : (q \o r)[i] = q[i]
               /\ \A i \in 1..Len(r) : (q \o r)[Len(q) + i] = r[i]
    <2>1. Len(r) \in Nat
      BY LenProperties
    <2> QED
      BY <1>1, <2>1, ConcatProperties, LenProperties
  <1>3. ASSUME q # <<>>
        PROVE  /\ 1 \in DOMAIN q /\ Head(q) = q[1]
               /\ DOMAIN Tail(q) = 1..(Len(q) - 1)
               /\ \A i \in DOMAIN Tail(q) : i + 1 \in DOMAIN q /\ Tail(q)[i] = q[i + 1]
    <2>1. /\ Tail(q) \in Seq(Line) /\ Len(Tail(q)) = Len(q) - 1
          /\ \A i \in 1..Len(Tail(q)) : Tail(q)[i] = q[i + 1]
      BY <1>3, HeadTailProperties
    <2>2. DOMAIN Tail(q) = 1..(Len(q) - 1)
      BY <2>1, LenProperties
    <2>3. Len(q) \in Nat \ {0}
      BY <1>3, EmptySeq
    <2>4. Head(q) = q[1]
      BY <1>3, SMT
    <2> QED
      BY <1>1, <2>1, <2>2, <2>3, <2>4
  <1>4. ASSUME NEW n \in 0..Len(q)
        PROVE  /\ DOMAIN SubSeq(q, 1, n) = 1..n
               /\ \A i \in 1..n : i \in DOMAIN q /\ SubSeq(q, 1, n)[i] = q[i]
    <2>1. n \in Nat /\ n <= Len(q) /\ n - 1 + 1 = n
      BY <1>1
    <2>2. /\ SubSeq(q, 1, n) \in Seq(Line)
          /\ Len(SubSeq(q, 1, n)) = IF 1 <= n THEN n - 1 + 1 ELSE 0
          /\ \A i \in 1..(n - 1 + 1) : SubSeq(q, 1, n)[i] = q[1 + i - 1]
      BY <2>1, SubSeqLines
    <2>3. Len(SubSeq(q, 1, n)) = n
      BY <2>1, <2>2
    <2> QED
      BY <1>1, <2>1, <2>2, <2>3, LenProperties
  <1> QED
    BY <1>1, <1>2, <1>3, <1>4

\* The frames left in a queue are frames that were in it.
LEMMA AfterElements ==
  ASSUME NEW q \in Seq(Line), NEW s \in Nat
  PROVE  \A i \in DOMAIN After(q, s) : \E j \in DOMAIN q : After(q, s)[i] = q[j]
  <1> DEFINE c == Cardinality({i \in DOMAIN q : q[i].seq <= s})
  <1>1. c \in Nat /\ Len(q) \in Nat /\ DOMAIN q = 1..Len(q)
    <2>1. IsFiniteSet(1..Len(q)) /\ DOMAIN q = 1..Len(q) /\ Len(q) \in Nat
      BY LenProperties, FS_Interval
    <2>2. IsFiniteSet({i \in DOMAIN q : q[i].seq <= s})
      BY <2>1, FS_Subset
    <2> QED
      BY <2>1, <2>2, FS_CardinalityType
  <1> HIDE DEF c
  <1>2. After(q, s) = SubSeq(q, 1 + c, Len(q))
    BY DEF After, c
  <1> DEFINE N == Len(q)
             r == SubSeq(q, 1 + c, N)
  <1>3. /\ r \in Seq(Line)
        /\ Len(r) = IF 1 + c <= N THEN N - (1 + c) + 1 ELSE 0
        /\ \A i \in 1..(N - (1 + c) + 1) : r[i] = q[(1 + c) + i - 1]
    <2>1. 1 + c \in Nat /\ 1 + c >= 1 /\ Len(q) <= Len(q)
      BY <1>1
    <2> QED
      BY <1>1, <2>1, SubSeqLines
  <1> HIDE DEF r
  <1>4. DOMAIN r = 1..Len(r)
    BY <1>3, LenProperties
  <1> HIDE DEF N
  <1>5. N \in Nat /\ DOMAIN q = 1..N
    BY <1>1 DEF N
  <1>6. ASSUME NEW i \in DOMAIN r
        PROVE  i \in 1..(N - (1 + c) + 1) /\ (1 + c) + i - 1 \in DOMAIN q
    BY <1>1, <1>3, <1>4, <1>5, <1>6
  <1>7. ASSUME NEW i \in DOMAIN r
        PROVE  \E j \in DOMAIN q : r[i] = q[j]
    BY <1>3, <1>6
  <1> QED
    BY <1>2, <1>7 DEF r, N

LEMMA AckedElements ==
  ASSUME NEW q \in Seq(Line), NEW s \in Nat
  PROVE  \A i \in DOMAIN Acked(q, s) : \E j \in DOMAIN q : Acked(q, s)[i] = q[j]
  <1>1. CASE \E i \in DOMAIN q : q[i].seq = s
    <2> DEFINE i == CHOOSE i \in DOMAIN q : q[i].seq = s
               a == SubSeq(q, 1, i - 1)
               b == SubSeq(q, i + 1, Len(q))
    <2>1. i \in 1..Len(q) /\ Len(q) \in Nat /\ DOMAIN q = 1..Len(q)
      BY <1>1, LenProperties
    <2> HIDE DEF i
    <2>2. /\ a \in Seq(Line) /\ Len(a) = IF 1 <= i - 1 THEN i - 1 - 1 + 1 ELSE 0
          /\ \A j \in 1..(i - 1 - 1 + 1) : a[j] = q[1 + j - 1]
      BY <2>1, SubSeqLines
    <2>3. /\ b \in Seq(Line)
          /\ Len(b) = IF i + 1 <= Len(q) THEN Len(q) - (i + 1) + 1 ELSE 0
          /\ \A j \in 1..(Len(q) - (i + 1) + 1) : b[j] = q[(i + 1) + j - 1]
      BY <2>1, SubSeqLines
    <2>4. Len(a) \in Nat /\ Len(b) \in Nat
      BY <2>2, <2>3, LenProperties
    <2>5. \A j \in 1..Len(a) : \E m \in DOMAIN q : a[j] = q[m]
      <3>1. \A j \in 1..Len(a) : j \in 1..(i - 1 - 1 + 1) /\ 1 + j - 1 \in DOMAIN q
        BY <2>1, <2>2
      <3> QED
        BY <2>2, <3>1
    <2>6. \A j \in 1..Len(b) : \E m \in DOMAIN q : b[j] = q[m]
      <3>1. \A j \in 1..Len(b) : j \in 1..(Len(q) - (i + 1) + 1) /\ (i + 1) + j - 1 \in DOMAIN q
        BY <2>1, <2>3
      <3> QED
        BY <2>3, <3>1
    <2>7. /\ DOMAIN (a \o b) = 1..(Len(a) + Len(b))
          /\ \A j \in 1..Len(a) : (a \o b)[j] = a[j]
          /\ \A j \in 1..Len(b) : (a \o b)[Len(a) + j] = b[j]
      BY <2>2, <2>3, Elements
    <2> HIDE DEF a, b
    <2>8. \A j \in DOMAIN (a \o b) : \E m \in DOMAIN q : (a \o b)[j] = q[m]
      <3> TAKE j \in DOMAIN (a \o b)
      <3>1. CASE j <= Len(a)
        BY <2>4, <2>5, <2>7, <3>1
      <3>2. CASE j > Len(a)
        <4>1. j - Len(a) \in 1..Len(b) /\ Len(a) + (j - Len(a)) = j
          BY <2>4, <2>7, <3>2
        <4> QED
          BY <2>6, <2>7, <4>1
      <3> QED
        BY <2>4, <2>7, <3>1, <3>2
    <2> QED
      BY <1>1, <2>8 DEF Acked, a, b, i
  <1>2. CASE ~ \E i \in DOMAIN q : q[i].seq = s
    BY <1>2 DEF Acked
  <1> QED
    BY <1>1, <1>2

LEMMA InitCounters == Init => UpCounters
  <1> SUFFICES ASSUME Init PROVE UpCounters
    OBVIOUS
  <1>1. DOMAIN <<>> = {} /\ Len(<<>>) = 0
    BY EmptySeq
  <1>2. HelloFirst /\ NothingStarted
    BY <1>1 DEF Init, HelloFirst, NothingStarted
  <1>3. Numbered /\ AcksBehind(toD) /\ AcksBehind(zombie) /\ Gapless /\ UpToDate
    BY <1>1 DEF Init, Numbered, AcksBehind, Gapless, UpToDate
  <1> QED
    BY <1>1, <1>2, <1>3 DEF Init, UpCounters

\* A control line the daemon writes to its client keeps the pipe in order.
LEMMA ControlToClient ==
  ASSUME TypeOK, HelloFirst, Gapless, UpToDate, NEW l \in Line,
         ~IsFrame(l), l.t \notin {"reset", "ready"}, ToClient(<<l>>),
         UNCHANGED <<client, pipe, cIn, dOut>>
  PROVE  /\ Gapless' /\ UpToDate'
         /\ pipe = "open" /\ client # "cur" => toC' = <<>>
  <1>1. toC \in Seq(Line) /\ <<l>> \in Seq(Line) /\ Len(<<l>>) = 1 /\ <<l>>[1] = l
    BY SeqOps DEF TypeOK
  <1>2. CASE ~(client = "cur" /\ pipe = "open")
    BY <1>2 DEF ToClient, Gapless, UpToDate, HelloFirst, IsFrame
  <1>3. CASE client = "cur" /\ pipe = "open"
    <2>1. toC' = toC \o <<l>>
      BY <1>3 DEF ToClient
    <2>2. /\ Len(toC) \in Nat /\ DOMAIN toC = 1..Len(toC)
          /\ DOMAIN toC' = 1..(Len(toC) + 1)
          /\ \A i \in 1..Len(toC) : toC'[i] = toC[i]
          /\ toC'[Len(toC) + 1] = l
      BY <1>1, <2>1, Elements
    <2>3. Gapless'
      BY <2>2 DEF Gapless, IsFrame
    <2>4. UpToDate'
      BY <2>2 DEF UpToDate, IsFrame
    <2> QED
      BY <1>3, <2>3, <2>4
  <1> QED
    BY <1>2, <1>3

\* emit, of the next frame.
LEMMA EmitCounters ==
  ASSUME TypeOK, UpCounters, starts # 0, NEW f \in Line, IsFrame(f), f.seq = dOut + 1,
         NEW c, NEW q, Emit(f, c, q),
         UNCHANGED <<daemon, starts, client, cIn, pipe, pending, toD, zombie>>
  PROVE  UpCounters'
  <1>1. /\ toC \in Seq(Line) /\ outbuf \in Seq(Line) /\ dOut \in Nat /\ cIn \in Nat
        /\ resets \in Nat
    BY DEF TypeOK, DaemonTypeOK, CentralTypeOK
  <1>2. HelloFirst' /\ NothingStarted' /\ \A i \in DOMAIN pending' : IsFrame(pending'[i])
    <2>1. pipe = "open" /\ client # "cur" => toC' = <<>>
      BY DEF UpCounters, HelloFirst, Emit, ToClient
    <2> QED
      BY <2>1 DEF UpCounters, HelloFirst, NothingStarted, IsFrame
  <1>3. CASE Len(outbuf) + 1 > DaemonBuffer
    <2>1. resets' # 0
      BY <1>1, <1>3 DEF Emit, ResetTunnels
    <2> QED
      BY <1>2, <2>1 DEF UpCounters
  <1>4. CASE resets = 0 /\ ~(Len(outbuf) + 1 > DaemonBuffer)
    <2>1. /\ Numbered /\ dOut - Len(outbuf) <= cIn /\ cIn <= dOut
          /\ AcksBehind(toD) /\ AcksBehind(zombie) /\ Gapless /\ UpToDate
      BY <1>4 DEF UpCounters
    <2>2. dOut' = dOut + 1 /\ outbuf' = Append(outbuf, f) /\ ToClient(<<f>>)
      BY <1>4 DEF Emit
    <2>3. /\ Len(outbuf) \in Nat /\ DOMAIN outbuf = 1..Len(outbuf)
          /\ DOMAIN outbuf' = 1..(Len(outbuf) + 1) /\ Len(outbuf') = Len(outbuf) + 1
          /\ \A i \in 1..Len(outbuf) : outbuf'[i] = outbuf[i]
          /\ outbuf'[Len(outbuf) + 1] = f
      BY <1>1, <2>2, AppendProperties, LenProperties
    <2>4. Numbered' /\ dOut' - Len(outbuf') <= cIn' /\ cIn' <= dOut'
      BY <1>1, <2>1, <2>2, <2>3 DEF Numbered, IsFrame
    <2>5. AcksBehind(toD)' /\ AcksBehind(zombie)'
      BY <2>1 DEF AcksBehind
    <2>6. CASE ~(client = "cur" /\ pipe = "open")
      <3>1. toC' = toC /\ \A i \in DOMAIN toC : toC[i].seq \in Nat
        BY <1>1, <2>2, <2>6, Elements DEF ToClient, Line
      <3>2. Gapless'
        <4>1. \A i \in DOMAIN toC : toC[i].seq <= dOut => toC[i].seq <= dOut'
          BY <1>1, <2>2, <3>1
        <4> QED
          BY <2>1, <3>1, <4>1 DEF Gapless, IsFrame
      <3>3. UpToDate'
        BY <2>6 DEF UpToDate
      <3> QED
        BY <1>2, <2>4, <2>5, <3>2, <3>3 DEF UpCounters
    <2>7. CASE client = "cur" /\ pipe = "open"
      <3>1. toC' = toC \o <<f>> /\ <<f>> \in Seq(Line) /\ Len(<<f>>) = 1 /\ <<f>>[1] = f
        BY <2>2, <2>7, SeqOps DEF ToClient
      <3>2. /\ Len(toC) \in Nat /\ DOMAIN toC = 1..Len(toC)
            /\ DOMAIN toC' = 1..(Len(toC) + 1)
            /\ \A i \in 1..Len(toC) : toC'[i] = toC[i]
            /\ toC'[Len(toC) + 1] = f
        BY <1>1, <3>1, Elements
      <3>3. dOut <= cIn \/ \E i \in DOMAIN toC : IsFrame(toC[i]) /\ toC[i].seq = dOut
        BY <1>1, <2>1, <2>7 DEF UpToDate
      <3>4. Gapless'
        <4> SUFFICES ASSUME NEW i \in DOMAIN toC'
                     PROVE  /\ toC'[i].t # "reset"
                            /\ toC'[i].t = "ready" => i = 1 /\ toC'[i].seq >= cIn'
                            /\ IsFrame(toC'[i]) =>
                                  /\ toC'[i].seq <= dOut'
                                  /\ toC'[i].seq <= cIn' + 1
                                       \/ \E j \in 1..(i - 1) : IsFrame(toC'[j])
                                                      /\ toC'[j].seq = toC'[i].seq - 1
          BY DEF Gapless, IsFrame
        <4>1. CASE i \in 1..Len(toC)
          <5>1. toC[i].seq \in Nat
            BY <1>1, <3>2, <4>1, Elements DEF Line
          <5>2. toC'[i] = toC[i] /\ \A j \in 1..(i - 1) : toC'[j] = toC[j]
            BY <3>2, <4>1
          <5>3. /\ toC[i].t # "reset"
                /\ toC[i].t = "ready" => i = 1 /\ toC[i].seq >= cIn
                /\ IsFrame(toC[i]) =>
                      /\ toC[i].seq <= dOut
                      /\ toC[i].seq <= cIn + 1 \/ \E j \in 1..(i - 1) : IsFrame(toC[j])
                                                      /\ toC[j].seq = toC[i].seq - 1
            BY <2>1, <3>2, <4>1 DEF Gapless
          <5>4. toC[i].seq <= dOut => toC[i].seq <= dOut'
            BY <1>1, <2>2, <5>1
          <5> QED
            BY <5>2, <5>3, <5>4
        <4>2. CASE i = Len(toC) + 1
          <5>1. toC'[i] = f /\ i - 1 = Len(toC)
            BY <3>2, <4>2
          <5>2. dOut <= cIn \/ \E j \in 1..(i - 1) : IsFrame(toC'[j]) /\ toC'[j].seq = f.seq - 1
            BY <1>1, <3>2, <3>3, <5>1
          <5>3. f.t # "reset" /\ f.t # "ready"
            BY DEF IsFrame
          <5>4. f.seq <= dOut' /\ (dOut <= cIn => f.seq <= cIn' + 1)
            <6>1. dOut \in Nat /\ cIn \in Nat /\ dOut' = dOut + 1 /\ f.seq = dOut + 1 /\ cIn' = cIn
              BY <1>1, <2>2
            <6> QED
              BY <6>1
          <5> QED
            BY <5>1, <5>2, <5>3, <5>4
        <4> QED
          BY <3>2, <4>1, <4>2
      <3>5. UpToDate'
        <4> SUFFICES ASSUME NEW s \in (cIn + 1)..(dOut + 1)
                     PROVE  \E i \in DOMAIN toC' : IsFrame(toC'[i]) /\ toC'[i].seq = s
          BY <1>1, <2>2 DEF UpToDate, IsFrame
        <4>1. CASE s = dOut + 1
          <5>1. Len(toC) + 1 \in DOMAIN toC'
            BY <3>2
          <5> QED
            BY <3>2, <4>1, <5>1
        <4>2. CASE s \in (cIn + 1)..dOut
          BY <2>1, <2>7, <3>2, <4>2 DEF UpToDate
        <4> QED
          BY <1>1, <4>1, <4>2
      <3> QED
        BY <1>2, <2>4, <2>5, <3>4, <3>5 DEF UpCounters
    <2> QED
      BY <2>6, <2>7
  <1>5. CASE resets # 0 /\ ~(Len(outbuf) + 1 > DaemonBuffer)
    BY <1>2, <1>5 DEF UpCounters, Emit
  <1> QED
    BY <1>3, <1>4, <1>5

LEMMA AgentStepCounters == TypeOK /\ UpCounters /\ AgentNext => UpCounters'
  <1> SUFFICES ASSUME TypeOK, UpCounters, NEW k \in Conns,
                      AgentConnect(k) \/ AgentSend(k) \/ AgentClose(k) \/ AgentRead(k)
               PROVE  UpCounters'
    BY DEF AgentNext
  <1>1. starts = 0 => daemon = "none" /\ client = "none" /\ conn[k] = "idle"
    BY DEF UpCounters, NothingStarted
  <1>2. k \in Nat /\ dOut \in Nat
    BY BoundsAssumption DEF Conns, TypeOK, DaemonTypeOK
  <1>3. CASE AgentConnect(k)
    <2> DEFINE f == [t |-> "open", id |-> nextStream, conn |-> k, n |-> 0, seq |-> dOut + 1]
               c == [conn EXCEPT ![k] = "open"]
    <2>1. f \in Line /\ IsFrame(f) /\ f.seq = dOut + 1
      BY <1>2 DEF TypeOK, DaemonTypeOK, Line, Kinds, IsFrame
    <2>2. /\ starts # 0 /\ Emit(f, c, queue)
          /\ UNCHANGED <<daemon, starts, client, cIn, pipe, pending, toD, zombie>>
      BY <1>1, <1>3 DEF AgentConnect, centralVars
    <2> HIDE DEF f, c
    <2> QED
      BY <2>1, <2>2, EmitCounters
  <1>4. CASE AgentSend(k)
    <2> DEFINE f == Frame("data", k, sentUp[k] + 1, dOut + 1)
    <2>1. f \in Line
      BY <1>2, LineTypes DEF TypeOK, DaemonTypeOK, AgentTypeOK, Kinds
    <2>2. IsFrame(f) /\ f.seq = dOut + 1
      BY DEF IsFrame, Frame
    <2>3. /\ starts # 0 /\ Emit(f, conn, queue)
          /\ UNCHANGED <<daemon, starts, client, cIn, pipe, pending, toD, zombie>>
      BY <1>1, <1>4 DEF AgentSend, centralVars
    <2> HIDE DEF f
    <2> QED
      BY <2>1, <2>2, <2>3, EmitCounters
  <1>5. CASE AgentClose(k)
    <2> DEFINE f == Frame("close", k, 0, dOut + 1)
               c == [conn EXCEPT ![k] = "closed"]
               q == [queue EXCEPT ![k] = <<>>]
    <2>1. f \in Line
      BY <1>2, LineTypes DEF TypeOK, DaemonTypeOK, Kinds
    <2>2. IsFrame(f) /\ f.seq = dOut + 1
      BY DEF IsFrame, Frame
    <2>3. /\ starts # 0 /\ Emit(f, c, q)
          /\ UNCHANGED <<daemon, starts, client, cIn, pipe, pending, toD, zombie>>
      BY <1>1, <1>5 DEF AgentClose, centralVars
    <2> HIDE DEF f, c, q
    <2> QED
      BY <2>1, <2>2, <2>3, EmitCounters
  <1>6. CASE AgentRead(k)
    BY <1>6 DEF AgentRead, daemonVars, centralVars, wireVars, UpCounters, HelloFirst,
       NothingStarted, Numbered, AcksBehind, Gapless, UpToDate, IsFrame
  <1> QED
    BY <1>3, <1>4, <1>5, <1>6

\* The daemon takes hello and replays what central says it has not seen.
LEMMA HelloCounters == TypeOK /\ UpCounters /\ DaemonHello => UpCounters'
  <1> SUFFICES ASSUME TypeOK, UpCounters, DaemonHello PROVE UpCounters'
    OBVIOUS
  <1> DEFINE h == Head(toD)
             left == After(outbuf, h.n)
             in == IF h.seq < dIn THEN h.seq ELSE dIn
  <1>1. /\ toC \in Seq(Line) /\ toD \in Seq(Line) /\ outbuf \in Seq(Line) /\ dOut \in Nat
        /\ cIn \in Nat /\ dIn \in Nat
    BY DEF TypeOK, DaemonTypeOK, CentralTypeOK
  <1>2. /\ 1 \in DOMAIN toD /\ h = toD[1] /\ h \in Line /\ h.t = "hello"
        /\ \A i \in DOMAIN Tail(toD) : i + 1 \in DOMAIN toD /\ Tail(toD)[i] = toD[i + 1]
        /\ DOMAIN Tail(toD) = 1..(Len(toD) - 1)
    BY <1>1, Elements, SeqOps DEF DaemonHello
  <1>3. client # "cur" /\ (pipe = "open" => toC = <<>>) /\ starts # 0
    BY <1>2 DEF UpCounters, HelloFirst, NothingStarted, DaemonHello
  <1>4. /\ outbuf' = left /\ dIn' = in
        /\ toC' = IF pipe = "open" THEN toC \o <<Control("ready", dOut, in)>> \o left ELSE toC
    BY DEF DaemonHello
  <1>5. /\ toD' = Tail(toD) /\ zombie' = <<>> /\ client' = "cur"
        /\ UNCHANGED <<daemon, starts, dOut, cIn, pipe, pending, conn, resets>>
    BY DEF DaemonHello, centralVars, agentVars
  <1>6. h.n \in Nat /\ in \in Nat
    BY <1>1, <1>2 DEF Line
  <1> HIDE DEF h, left, in
  <1>7. HelloFirst'
    <2>1. \A i \in DOMAIN toD' : toD'[i].t # "hello"
      <3> TAKE i \in DOMAIN toD'
      <3>1. i + 1 \in DOMAIN toD /\ toD'[i] = toD[i + 1] /\ i + 1 # 1
        BY <1>1, <1>2, <1>5, Elements
      <3> QED
        BY <3>1 DEF UpCounters, HelloFirst
    <2> QED
      BY <1>5, <2>1 DEF HelloFirst
  <1>8. NothingStarted' /\ \A i \in DOMAIN pending' : IsFrame(pending'[i])
    BY <1>3, <1>5 DEF NothingStarted, UpCounters, IsFrame
  <1>9. CASE resets = 0
    <2>1. /\ Numbered /\ dOut - Len(outbuf) <= cIn /\ cIn <= dOut
          /\ AcksBehind(toD) /\ Gapless /\ UpToDate
      BY <1>9 DEF UpCounters
    <2>2. h.n <= cIn
      BY <1>2, <2>1 DEF AcksBehind
    <2>3. /\ left \in Seq(Line) /\ Len(left) <= Len(outbuf)
          /\ \A i \in DOMAIN left : left[i] = outbuf[Len(outbuf) - Len(left) + i]
          /\ \A i \in DOMAIN left : left[i].seq = dOut - Len(left) + i
          /\ Len(left) = Len(outbuf) \/ dOut - Len(left) <= h.n
      BY <1>1, <1>6, <2>1, AfterNumbered DEF left, Numbered
    <2>4. /\ Len(left) \in Nat /\ DOMAIN left = 1..Len(left)
          /\ Len(outbuf) \in Nat /\ DOMAIN outbuf = 1..Len(outbuf)
      BY <1>1, <2>3, LenProperties
    <2>5. \A i \in DOMAIN left : IsFrame(left[i])
      <3> TAKE i \in DOMAIN left
      <3>1. Len(outbuf) - Len(left) + i \in DOMAIN outbuf
        <4>1. i \in 1..Len(left) /\ Len(left) <= Len(outbuf)
          BY <2>3, <2>4
        <4> QED
          BY <2>4, <4>1
      <3> QED
        BY <2>1, <2>3, <3>1 DEF Numbered
    <2>6. dOut - Len(left) <= cIn /\ Len(left) <= dOut
      <3>1. Len(outbuf) <= dOut /\ Len(left) <= Len(outbuf)
        BY <2>1, <2>3 DEF Numbered
      <3>2. Len(left) = Len(outbuf) \/ dOut - Len(left) <= h.n
        BY <2>3
      <3>3. dOut - Len(outbuf) <= cIn
        BY <2>1
      <3>4. CASE Len(left) = Len(outbuf)
        BY <3>1, <3>3, <3>4
      <3>5. CASE dOut - Len(left) <= h.n
        <4>1. Len(left) <= dOut
          BY <1>1, <2>4, <3>1
        <4> QED
          BY <1>1, <1>6, <2>2, <2>4, <3>5, <4>1
      <3> QED
        BY <3>2, <3>4, <3>5
    <2>7. Numbered'
      BY <1>4, <1>5, <2>3, <2>5, <2>6 DEF Numbered, IsFrame
    <2>8. AcksBehind(toD)' /\ AcksBehind(zombie)'
      <3>1. AcksBehind(zombie)'
        <4>1. DOMAIN zombie' = {}
          BY <1>5, EmptySeq
        <4> QED
          BY <4>1 DEF AcksBehind
      <3> QED
        BY <1>2, <1>5, <2>1, <3>1 DEF AcksBehind
    <2>9. CASE pipe # "open"
      <3>1. Gapless' /\ UpToDate'
        <4>1. toC' = toC /\ cIn' = cIn /\ dOut' = dOut /\ pipe' = pipe
          BY <1>4, <1>5, <2>9
        <4>2. Gapless'
          BY <2>1, <4>1 DEF Gapless, IsFrame
        <4>3. UpToDate'
          BY <2>9, <4>1 DEF UpToDate
        <4> QED
          BY <4>2, <4>3
      <3> QED
        BY <1>4, <1>5, <1>7, <1>8, <2>6, <2>7, <2>8, <2>1, <3>1 DEF UpCounters
    <2>10. CASE pipe = "open"
      <3> DEFINE r == Control("ready", dOut, in)
      <3>1. r \in Line /\ r.t = "ready" /\ r.seq = dOut /\ <<r>> \in Seq(Line) /\ Len(<<r>>) = 1
            /\ <<r>>[1] = r
        <4>1. r \in Line
          BY <1>1, <1>6, LineTypes DEF Kinds
        <4>2. r.t = "ready" /\ r.seq = dOut
          BY DEF Control
        <4> HIDE DEF r
        <4> QED
          BY <4>1, <4>2, SeqOps
      <3>2. toC' = <<r>> \o left
        <4>1. toC' = <<>> \o <<r>> \o left
          BY <1>3, <1>4, <2>10
        <4>2. <<>> \o <<r>> = <<r>>
          BY <3>1, ConcatEmptySeq
        <4> HIDE DEF r
        <4> QED
          BY <4>1, <4>2
      <3> HIDE DEF r
      <3>3. /\ DOMAIN toC' = 1..(1 + Len(left)) /\ toC'[1] = r
            /\ \A i \in 1..Len(left) : toC'[1 + i] = left[i]
        BY <2>3, <3>1, <3>2, Elements
      <3>4. Gapless'
        <4> SUFFICES ASSUME NEW i \in DOMAIN toC'
                     PROVE  /\ toC'[i].t # "reset"
                            /\ toC'[i].t = "ready" => i = 1 /\ toC'[i].seq >= cIn'
                            /\ IsFrame(toC'[i]) =>
                                  /\ toC'[i].seq <= dOut'
                                  /\ toC'[i].seq <= cIn' + 1
                                       \/ \E j \in 1..(i - 1) : IsFrame(toC'[j])
                                                      /\ toC'[j].seq = toC'[i].seq - 1
          BY DEF Gapless, IsFrame
        <4>1. CASE i = 1
          <5>1. toC'[i] = r
            BY <3>3, <4>1
          <5>2. r.t # "reset" /\ r.seq >= cIn' /\ ~IsFrame(r)
            BY <1>1, <1>5, <2>1, <3>1 DEF IsFrame
          <5> QED
            BY <4>1, <5>1, <5>2
        <4>2. CASE i # 1
          <5> DEFINE m == i - 1
          <5>1. m \in 1..Len(left) /\ i = 1 + m
            BY <2>4, <3>3, <4>2
          <5>2. toC'[i] = left[m] /\ IsFrame(left[m]) /\ left[m].seq = dOut - Len(left) + m
            BY <2>3, <2>4, <2>5, <3>3, <5>1
          <5>3. left[m].seq <= dOut
            BY <1>1, <2>4, <5>1, <5>2
          <5>4. CASE m = 1
            <6>1. left[m].seq <= cIn + 1
              BY <1>1, <2>4, <2>6, <5>2, <5>4
            <6> QED
              BY <1>5, <5>2, <5>3, <6>1 DEF IsFrame
          <5>5. CASE m # 1
            <6>1. m - 1 \in 1..Len(left) /\ m \in 1..(i - 1) /\ 1 + (m - 1) = m
              BY <2>4, <5>1, <5>5
            <6>2. toC'[m] = left[m - 1] /\ IsFrame(left[m - 1])
                  /\ left[m - 1].seq = dOut - Len(left) + (m - 1)
              BY <2>3, <2>4, <2>5, <3>3, <6>1
            <6>3. toC'[m].seq = toC'[i].seq - 1
              BY <1>1, <2>4, <5>1, <5>2, <6>2
            <6> QED
              BY <1>5, <5>2, <5>3, <6>1, <6>2, <6>3 DEF IsFrame
          <5> QED
            BY <5>4, <5>5
        <4> QED
          BY <4>1, <4>2
      <3>5. UpToDate'
        <4> SUFFICES ASSUME NEW s \in (cIn + 1)..dOut
                     PROVE  \E i \in DOMAIN toC' : IsFrame(toC'[i]) /\ toC'[i].seq = s
          BY <1>5 DEF UpToDate, IsFrame
        <4> DEFINE m == s - (dOut - Len(left))
        <4>1. m \in 1..Len(left) /\ dOut - Len(left) + m = s /\ 1 + m \in 1..(1 + Len(left))
          BY <1>1, <2>4, <2>6
        <4>2. toC'[1 + m] = left[m] /\ IsFrame(left[m]) /\ left[m].seq = s
          BY <2>3, <2>4, <2>5, <3>3, <4>1
        <4> HIDE DEF m
        <4> QED
          BY <3>3, <4>1, <4>2
      <3> QED
        BY <1>4, <1>5, <1>7, <1>8, <2>6, <2>7, <2>8, <2>1, <3>4, <3>5 DEF UpCounters
    <2> QED
      BY <2>9, <2>10
  <1>10. CASE resets # 0
    BY <1>5, <1>7, <1>8, <1>10 DEF UpCounters
  <1> QED
    BY <1>9, <1>10

\* The daemon takes a line: an ack shortens its buffer by frames central has,
\* and a frame from central is answered with an ack.
LEMMA DaemonFrameCounters ==
  ASSUME TypeOK, UpCounters, starts # 0, NEW f \in Line, DaemonFrame(f),
         resets = 0 /\ f.t = "ack" => f.seq <= cIn,
         UNCHANGED <<client, starts, dOut, cIn, pipe, pending, resets>>,
         HelloFirst' \/ ~ \E i \in DOMAIN toD' : toD'[i].t = "hello",
         resets = 0 => AcksBehind(toD)' /\ AcksBehind(zombie)'
  PROVE  UpCounters'
  <1>1. /\ toC \in Seq(Line) /\ outbuf \in Seq(Line) /\ dOut \in Nat /\ cIn \in Nat
        /\ f.seq \in Nat
    BY DEF TypeOK, DaemonTypeOK, CentralTypeOK, Line
  <1>2. NothingStarted' /\ \A i \in DOMAIN pending' : IsFrame(pending'[i])
    BY DEF NothingStarted, UpCounters, IsFrame
  <1>3. pipe = "open" /\ client # "cur" => toC = <<>>
    BY DEF UpCounters, HelloFirst
  <1>4. CASE OnClientAck(f)
    <2>1. outbuf' = After(outbuf, f.seq) /\ toC' = toC /\ f.t = "ack"
      BY <1>4 DEF OnClientAck
    <2>2. HelloFirst'
      BY <1>3, <2>1 DEF HelloFirst
    <2>3. CASE resets = 0
      <3>1. /\ Numbered /\ dOut - Len(outbuf) <= cIn /\ cIn <= dOut
            /\ Gapless /\ UpToDate
        BY <2>3 DEF UpCounters
      <3>2. /\ outbuf' \in Seq(Line) /\ Len(outbuf') <= Len(outbuf)
            /\ \A i \in DOMAIN outbuf' : outbuf'[i] = outbuf[Len(outbuf) - Len(outbuf') + i]
            /\ \A i \in DOMAIN outbuf' : outbuf'[i].seq = dOut - Len(outbuf') + i
            /\ Len(outbuf') = Len(outbuf) \/ dOut - Len(outbuf') <= f.seq
        <4>1. Len(outbuf) <= dOut /\ \A i \in DOMAIN outbuf : outbuf[i].seq = dOut - Len(outbuf) + i
          BY <3>1 DEF Numbered
        <4>2. f.seq \in Nat /\ outbuf \in Seq(Line) /\ dOut \in Nat
          BY <1>1
        <4>3. LET r == After(outbuf, f.seq) IN
              /\ r \in Seq(Line) /\ Len(r) <= Len(outbuf)
              /\ \A i \in DOMAIN r : r[i] = outbuf[Len(outbuf) - Len(r) + i]
              /\ \A i \in DOMAIN r : r[i].seq = dOut - Len(r) + i
              /\ Len(r) = Len(outbuf) \/ dOut - Len(r) <= f.seq
          BY <4>1, <4>2, AfterNumbered
        <4> QED
          BY <2>1, <4>3
      <3>3. /\ Len(outbuf') \in Nat /\ DOMAIN outbuf' = 1..Len(outbuf')
            /\ Len(outbuf) \in Nat /\ DOMAIN outbuf = 1..Len(outbuf)
        BY <1>1, <3>2, LenProperties
      <3>4. \A i \in DOMAIN outbuf' : IsFrame(outbuf'[i])
        <4> TAKE i \in DOMAIN outbuf'
        <4>1. Len(outbuf) - Len(outbuf') + i \in DOMAIN outbuf
          <5>1. i \in 1..Len(outbuf') /\ Len(outbuf') <= Len(outbuf)
            BY <3>2, <3>3
          <5> QED
            BY <3>3, <5>1
        <4> QED
          BY <3>1, <3>2, <4>1 DEF Numbered
      <3>5. dOut - Len(outbuf') <= cIn /\ Len(outbuf') <= dOut
        <4>1. Len(outbuf) <= dOut /\ dOut - Len(outbuf) <= cIn /\ f.seq <= cIn
          <5>1. Len(outbuf) <= dOut
            BY <3>1 DEF Numbered
          <5>2. f.seq <= cIn
            BY <2>1, <2>3
          <5> QED
            BY <3>1, <5>1, <5>2
        <4>2. /\ Len(outbuf') <= Len(outbuf)
              /\ Len(outbuf') = Len(outbuf) \/ dOut - Len(outbuf') <= f.seq
              /\ Len(outbuf') \in Nat /\ Len(outbuf) \in Nat
          BY <3>2, <3>3
        <4>3. dOut \in Nat /\ cIn \in Nat /\ f.seq \in Nat
          BY <1>1
        <4> QED
          BY <4>1, <4>2, <4>3
      <3>6. Numbered'
        BY <3>2, <3>4, <3>5 DEF Numbered, IsFrame
      <3>7. Gapless'
        BY <2>1, <3>1 DEF Gapless, IsFrame
      <3>8. UpToDate'
        BY <2>1, <3>1 DEF UpToDate, IsFrame
      <3> QED
        BY <1>2, <2>2, <2>3, <3>1, <3>5, <3>6, <3>7, <3>8 DEF UpCounters
    <2>4. CASE resets # 0
      BY <1>2, <2>2, <2>4 DEF UpCounters
    <2> QED
      BY <2>3, <2>4
  <1>5. CASE OnClientData(f) \/ OnClientClose(f)
    <2> DEFINE l == Control("ack", f.seq, 0)
    <2>1. ToClient(<<l>>) /\ outbuf' = outbuf
      BY <1>5 DEF OnClientData, OnClientClose, TakeFrame
    <2>2. l \in Line
      BY <1>1, LineTypes DEF Kinds
    <2>3. ~IsFrame(l) /\ l.t \notin {"reset", "ready"}
      BY DEF Control, IsFrame
    <2> HIDE DEF l
    <2>4. HelloFirst'
      <3>1. pipe = "open" /\ client # "cur" => toC' = <<>>
        BY <1>3, <2>1 DEF ToClient
      <3> QED
        BY <3>1 DEF HelloFirst
    <2>5. CASE resets = 0
      <3>1. /\ Numbered /\ dOut - Len(outbuf) <= cIn /\ cIn <= dOut
            /\ Gapless /\ UpToDate /\ HelloFirst
        BY <2>5 DEF UpCounters
      <3>2. Gapless' /\ UpToDate'
        BY <2>1, <2>2, <2>3, <3>1, ControlToClient
      <3>3. Numbered'
        BY <2>1, <3>1 DEF Numbered, IsFrame
      <3> QED
        BY <1>2, <2>1, <2>4, <2>5, <3>1, <3>2, <3>3 DEF UpCounters
    <2>6. CASE resets # 0
      BY <1>2, <2>4, <2>6 DEF UpCounters
    <2> QED
      BY <2>5, <2>6
  <1> QED
    BY <1>4, <1>5 DEF DaemonFrame

\* The first daemon that was started still runs, or none was started.
OneDaemon == starts <= 1 /\ (starts = 1 => daemon # "none")

\* There is no way back to the first daemon, and while it runs it is not killed.
LEMMA FirstDaemon ==
  ASSUME TypeOK, Next, OneDaemon'
  PROVE  /\ OneDaemon
         /\ StartDaemon => starts = 0
         /\ DaemonCrash => starts = 0 /\ daemon # "none"
  <1>1. starts \in Nat
    BY DEF TypeOK, DaemonTypeOK
  <1>2. CASE StartDaemon
    <2>1. starts' = starts + 1
      BY <1>2 DEF StartDaemon
    <2>2. starts = 0
      BY <1>1, <2>1 DEF OneDaemon
    <2>3. ~DaemonCrash
      BY <1>2 DEF StartDaemon, DaemonCrash, DaemonDies
    <2> QED
      BY <2>2, <2>3 DEF OneDaemon
  <1>3. CASE DaemonCrash
    <2>1. starts' = starts /\ daemon' = "none" /\ daemon # "none"
      BY <1>3 DEF DaemonCrash
    <2>2. starts = 0
      BY <1>1, <2>1 DEF OneDaemon
    <2>3. ~StartDaemon
      BY <1>3 DEF StartDaemon, DaemonCrash, DaemonDies
    <2> QED
      BY <2>1, <2>2, <2>3 DEF OneDaemon
  <1>4. CASE ~StartDaemon /\ ~DaemonCrash
    <2>1. starts' = starts /\ (daemon' = daemon \/ daemon = "booting")
      BY <1>4 DEF Next, AgentNext, AgentConnect, AgentSend, AgentClose, AgentRead, DaemonNext,
         DaemonHello, DaemonRecv, DaemonGone, GraceExpire, DaemonBoot, PipeNext, Attach,
         AttachNoDaemon, StartFails, PipeDone, CentralRecv, Drain, RouteNext, RouteSend, RouteEnd,
         RouteDestroy, RouteFinish, routeUnchanged, FaultNext, Break, Close, daemonVars
    <2> QED
      BY <1>4, <2>1 DEF OneDaemon
  <1> QED
    BY <1>2, <1>3, <1>4

LEMMA TailAcks ==
  ASSUME NEW q \in Seq(Line), q # <<>>
  PROVE  /\ AcksBehind(q) => AcksBehind(Tail(q))
         /\ AcksBehind(q) /\ Head(q).t = "ack" => Head(q).seq <= cIn
  BY Elements DEF AcksBehind

LEMMA DaemonStepCounters ==
  TypeOK /\ UpCounters /\ DaemonNext => UpCounters'
  <1> SUFFICES ASSUME TypeOK, UpCounters, DaemonNext
               PROVE  UpCounters'
    OBVIOUS
  <1>1. /\ toD \in Seq(Line) /\ zombie \in Seq(Line) /\ toC \in Seq(Line) /\ starts \in Nat
        /\ resets \in Nat
    BY DEF TypeOK, DaemonTypeOK
  <1>2. starts = 0 => daemon = "none" /\ client = "none" /\ \A k \in Conns : conn[k] = "idle"
    BY DEF UpCounters, NothingStarted
  <1>3. CASE DaemonHello
    BY <1>3, HelloCounters
  <1>4. CASE DaemonRecv
    <2>1. starts # 0
      BY <1>2, <1>4 DEF DaemonRecv
    <2>2. UNCHANGED <<client, starts, dOut, cIn, pipe, pending, resets>>
      BY <1>4 DEF DaemonRecv, centralVars
    <2>3. CASE client = "cur" /\ toD # <<>> /\ DaemonFrame(Head(toD)) /\ toD' = Tail(toD)
               /\ UNCHANGED zombie
      <3>1. Head(toD) \in Line
        BY <1>1, <2>3, SeqOps
      <3>2. ~ \E i \in DOMAIN toD' : toD'[i].t = "hello"
        BY <1>1, <2>3, Elements DEF UpCounters, HelloFirst
      <3>3. resets = 0 => AcksBehind(toD) /\ AcksBehind(zombie)
        BY DEF UpCounters
      <3>4. resets = 0 => AcksBehind(toD)' /\ AcksBehind(zombie)'
        BY <1>1, <2>2, <2>3, <3>3, TailAcks DEF AcksBehind
      <3>5. resets = 0 /\ Head(toD).t = "ack" => Head(toD).seq <= cIn
        BY <1>1, <2>3, <3>3, TailAcks
      <3> QED
        BY <2>1, <2>2, <2>3, <3>1, <3>2, <3>4, <3>5, DaemonFrameCounters
    <2>4. CASE client = "old" /\ zombie # <<>> /\ DaemonFrame(Head(zombie))
               /\ zombie' = Tail(zombie) /\ UNCHANGED toD
      <3>1. Head(zombie) \in Line
        BY <1>1, <2>4, SeqOps
      <3>2. \A i \in DOMAIN toD' : toD'[i].t = "hello" => i = 1 /\ client' # "cur"
        BY <2>2, <2>4 DEF UpCounters, HelloFirst
      <3>3. resets = 0 => AcksBehind(toD) /\ AcksBehind(zombie)
        BY DEF UpCounters
      <3>4. resets = 0 => AcksBehind(toD)' /\ AcksBehind(zombie)'
        BY <1>1, <2>2, <2>4, <3>3, TailAcks DEF AcksBehind
      <3>5. resets = 0 /\ Head(zombie).t = "ack" => Head(zombie).seq <= cIn
        BY <1>1, <2>4, <3>3, TailAcks
      <3>6. toC' = toC
        BY <2>4 DEF DaemonFrame, OnClientAck, OnClientData, OnClientClose, TakeFrame,
             ToClient
      <3>7. HelloFirst'
        BY <2>2, <2>4, <3>2, <3>6 DEF UpCounters, HelloFirst
      <3> QED
        BY <2>1, <2>2, <2>4, <3>1, <3>4, <3>5, <3>7, DaemonFrameCounters
    <2> QED
      BY <1>4, <2>3, <2>4 DEF DaemonRecv
  <1>5. CASE DaemonGone
    <2>1. /\ starts # 0 /\ client' = "none"
          /\ UNCHANGED <<daemon, starts, dOut, outbuf, cIn, pipe, pending, toD, toC, zombie,
                         conn, resets>>
      BY <1>2, <1>5 DEF DaemonGone, centralVars, wireVars, agentVars
    <2>2. HelloFirst'
      BY <1>5, <2>1 DEF UpCounters, HelloFirst, DaemonGone
    <2> QED
      BY <2>1, <2>2 DEF UpCounters, NothingStarted, Numbered, AcksBehind, Gapless, UpToDate, IsFrame
  <1>6. CASE GraceExpire
    <2>1. /\ resets' # 0 /\ outbuf' = <<>> /\ conn' = Shut(conn)
          /\ UNCHANGED <<daemon, starts, client, dOut, cIn, pipe, pending, toD, toC, zombie>>
      BY <1>1, <1>6 DEF GraceExpire, ResetTunnels, centralVars, wireVars
    <2>2. (\A k \in Conns : conn[k] = "idle") => (\A k \in Conns : conn'[k] = "idle")
      BY <2>1 DEF Shut
    <2> QED
      BY <2>1, <2>2 DEF UpCounters, NothingStarted, HelloFirst, IsFrame
  <1>7. CASE DaemonBoot
    <2>1. /\ starts # 0
          /\ UNCHANGED <<starts, client, dOut, outbuf, cIn, pipe, pending, toD, toC, zombie,
                         conn, resets>>
      BY <1>2, <1>7 DEF DaemonBoot, centralVars, wireVars, agentVars
    <2> QED
      BY <2>1 DEF UpCounters, HelloFirst, NothingStarted, Numbered, AcksBehind, Gapless,
         UpToDate, IsFrame
  <1> QED
    BY <1>3, <1>4, <1>5, <1>6, <1>7 DEF DaemonNext

\* A pipe that ends leaves a part of what was on it, in order.
LEMMA CutCounters ==
  ASSUME TypeOK, UpCounters, NEW i \in 0..Len(toD), NEW j \in 0..Len(toC),
         toD' = SubSeq(toD, 1, i), toC' = SubSeq(toC, 1, j), pipe' # "open",
         UNCHANGED <<client, cIn, dOut, resets>>
  PROVE  /\ HelloFirst'
         /\ resets = 0 => AcksBehind(toD)' /\ Gapless' /\ UpToDate'
         /\ toD = <<>> => toD' = <<>>
         /\ toC = <<>> => toC' = <<>>
  <1>1. /\ toD \in Seq(Line) /\ toC \in Seq(Line)
        /\ toD' \in Seq(Line) /\ toC' \in Seq(Line)
    BY SeqOps DEF TypeOK
  <1>2. DOMAIN toD' = 1..i /\ \A m \in 1..i : m \in DOMAIN toD /\ toD'[m] = toD[m]
    BY <1>1, Elements
  <1>3. DOMAIN toC' = 1..j /\ \A m \in 1..j : m \in DOMAIN toC /\ toC'[m] = toC[m]
    BY <1>1, Elements
  <1>4. HelloFirst'
    BY <1>2 DEF UpCounters, HelloFirst
  <1>5. ASSUME resets = 0 PROVE AcksBehind(toD)' /\ Gapless' /\ UpToDate'
    <2>1. AcksBehind(toD) /\ Gapless
      BY <1>5 DEF UpCounters
    <2>2. AcksBehind(toD)'
      BY <1>2, <2>1 DEF AcksBehind
    <2>3. Gapless'
      <3> SUFFICES ASSUME NEW m \in 1..j
                   PROVE  /\ toC'[m].t # "reset"
                          /\ toC'[m].t = "ready" => m = 1 /\ toC'[m].seq >= cIn
                          /\ IsFrame(toC'[m]) =>
                                /\ toC'[m].seq <= dOut
                                /\ toC'[m].seq <= cIn + 1
                                     \/ \E l \in 1..(m - 1) : IsFrame(toC'[l])
                                                    /\ toC'[l].seq = toC'[m].seq - 1
        BY <1>3 DEF Gapless, IsFrame
      <3>1. m \in DOMAIN toC /\ toC'[m] = toC[m] /\ \A l \in 1..(m - 1) : toC'[l] = toC[l]
        BY <1>3
      <3> QED
        BY <2>1, <3>1 DEF Gapless
    <2> QED
      BY <2>2, <2>3 DEF UpToDate
  <1>6. toD = <<>> => toD' = <<>>
    <2> SUFFICES ASSUME toD = <<>> PROVE toD' = <<>>
      OBVIOUS
    <2>1. Len(toD) = 0 /\ i = 0
      BY EmptySeq
    <2> QED
      BY <1>1, <1>2, <2>1, EmptySeq, LenProperties
  <1>7. toC = <<>> => toC' = <<>>
    <2> SUFFICES ASSUME toC = <<>> PROVE toC' = <<>>
      OBVIOUS
    <2>1. Len(toC) = 0 /\ j = 0
      BY EmptySeq
    <2> QED
      BY <1>1, <1>3, <2>1, EmptySeq, LenProperties
  <1> QED
    BY <1>4, <1>5, <1>6, <1>7

LEMMA PipeStepCounters ==
  /\ TypeOK /\ UpCounters /\ (PipeNext \/ Break \/ Drain \/ Close)
  /\ StartDaemon => starts = 0
  => UpCounters'
  <1> SUFFICES ASSUME TypeOK, UpCounters, PipeNext \/ Break \/ Drain \/ Close,
                      StartDaemon => starts = 0
               PROVE  UpCounters'
    OBVIOUS
  <1>1. /\ starts \in Nat /\ cIn \in Nat /\ dOut \in Nat /\ cOut \in Nat
        /\ toD \in Seq(Line) /\ toC \in Seq(Line)
    BY DEF TypeOK, DaemonTypeOK, CentralTypeOK
  <1>2. CASE Attach
    <2> DEFINE h == Control("hello", cOut, cIn)
    <2>1. /\ starts # 0 /\ client' # "cur" /\ toC' = <<>> /\ toD' = <<h>>
          /\ zombie' \in {zombie, toD}
          /\ UNCHANGED <<starts, dOut, outbuf, cIn, pending, resets>>
      BY <1>2 DEF Attach, UpCounters, NothingStarted
    <2>2. h \in Line /\ h.n = cIn /\ h.t = "hello"
      BY <1>1, LineTypes DEF Control, Kinds
    <2> HIDE DEF h
    <2>3. DOMAIN toD' = {1} /\ toD'[1] = h /\ DOMAIN toC' = {}
      BY <2>1, <2>2, EmptySeq
    <2>4. HelloFirst'
      BY <2>1, <2>3 DEF HelloFirst
    <2>5. resets = 0 => AcksBehind(toD)' /\ AcksBehind(zombie)' /\ Gapless' /\ UpToDate'
      BY <1>1, <2>1, <2>2, <2>3 DEF UpCounters, AcksBehind, Gapless, UpToDate
    <2> QED
      BY <2>1, <2>4, <2>5 DEF UpCounters, NothingStarted, Numbered, IsFrame
  <1>3. CASE AttachNoDaemon \/ StartFails \/ PipeDone \/ Drain
    <2>1. /\ pipe' # "open" \/ pipe' = pipe
          /\ UNCHANGED <<daemon, starts, client, dOut, outbuf, cIn, pending, toD, toC, zombie,
                         conn, resets>>
      BY <1>3 DEF AttachNoDaemon, StartFails, PipeDone, Drain, daemonVars, wireVars, agentVars
    <2> QED
      BY <2>1 DEF UpCounters, HelloFirst, NothingStarted, Numbered, AcksBehind, Gapless,
         UpToDate, IsFrame
  <1>4. CASE StartDaemon
    <2>1. starts = 0
      BY <1>4
    <2>2. toD = <<>> /\ toC = <<>> /\ cIn = 0
      BY <2>1 DEF UpCounters, NothingStarted
    <2>3. /\ starts' # 0 /\ client' = "none" /\ dOut' = 0 /\ outbuf' = <<>> /\ cIn' = 0
          /\ toD' = <<>> /\ toC' = <<>> /\ zombie' = <<>> /\ pipe' # "open"
          /\ UNCHANGED <<pending, resets>>
      BY <1>1, <1>4, <2>2 DEF StartDaemon, DaemonDies
    <2>4. DOMAIN <<>> = {} /\ Len(<<>>) = 0
      BY EmptySeq
    <2> QED
      BY <2>3, <2>4 DEF UpCounters, HelloFirst, NothingStarted, Numbered, AcksBehind, Gapless,
         UpToDate, IsFrame
  <1>5. CASE Break
    <2>1. PICK i \in 0..Len(toD), j \in 0..Len(toC) :
             toD' = SubSeq(toD, 1, i) /\ toC' = SubSeq(toC, 1, j)
      BY <1>5 DEF Break
    <2>2. /\ starts # 0 /\ pipe' # "open"
          /\ UNCHANGED <<starts, client, dOut, outbuf, cIn, pending, zombie, resets>>
      BY <1>5 DEF Break, daemonVars, UpCounters, NothingStarted
    <2>3. HelloFirst' /\ (resets = 0 => AcksBehind(toD)' /\ Gapless' /\ UpToDate')
      BY <2>1, <2>2, CutCounters
    <2> QED
      BY <2>2, <2>3 DEF UpCounters, NothingStarted, Numbered, AcksBehind, IsFrame
  <1>6. CASE Close
    <2>1. PICK i \in 0..Len(toD), j \in 0..Len(toC) :
             toD' = SubSeq(toD, 1, i) /\ toC' = SubSeq(toC, 1, j)
      BY <1>6 DEF Close
    <2>2. /\ pipe' # "open" /\ pending' = <<>>
          /\ UNCHANGED <<daemon, starts, client, dOut, outbuf, cIn, zombie, conn, resets>>
      BY <1>6 DEF Close, daemonVars, agentVars
    <2>3. HelloFirst' /\ (resets = 0 => AcksBehind(toD)' /\ Gapless' /\ UpToDate')
          /\ (toD = <<>> => toD' = <<>>) /\ (toC = <<>> => toC' = <<>>)
      BY <2>1, <2>2, CutCounters
    <2>4. NothingStarted'
      BY <2>2, <2>3 DEF UpCounters, NothingStarted
    <2>5. \A n \in DOMAIN pending' : IsFrame(pending'[n])
      BY <2>2, EmptySeq
    <2> QED
      BY <2>2, <2>3, <2>4, <2>5 DEF UpCounters, Numbered, AcksBehind, IsFrame
  <1> QED
    BY <1>2, <1>3, <1>4, <1>5, <1>6 DEF PipeNext

\* Lines central writes that carry no hello and no ack ahead of it leave what
\* the daemon relies on.
LEMMA WriteCounters ==
  ASSUME TypeOK, UpCounters, NEW lines \in Seq(Line), Write(lines),
         \A i \in DOMAIN lines : lines[i].t # "hello" /\ (lines[i].t = "ack" => lines[i].seq <= cIn'),
         cIn' \in Nat, resets = 0 => cIn' >= cIn, UNCHANGED <<client, pipe>>,
         toC' = <<>> \/ ~(pipe = "open" /\ client # "cur")
  PROVE  HelloFirst' /\ (resets = 0 => AcksBehind(toD)')
  <1>1. toD \in Seq(Line) /\ cIn \in Nat
    BY DEF TypeOK, CentralTypeOK
  <1>2. ASSUME resets = 0, NEW i \in DOMAIN toD
        PROVE  /\ toD[i].t = "ack" => toD[i].seq <= cIn'
               /\ toD[i].t = "hello" => toD[i].n <= cIn'
    <2>1. /\ toD[i].t = "ack" => toD[i].seq <= cIn
          /\ toD[i].t = "hello" => toD[i].n <= cIn
      BY <1>2 DEF UpCounters, AcksBehind
    <2>2. toD[i] \in Line
      BY <1>1, Elements
    <2>3. toD[i].seq \in Nat /\ toD[i].n \in Nat
      BY <2>2 DEF Line
    <2>4. cIn <= cIn'
      BY <1>2
    <2> QED
      BY <1>1, <2>1, <2>3, <2>4
  <1>3. CASE pipe # "open"
    <2>1. toD' = toD
      BY <1>3 DEF Write
    <2>2. HelloFirst'
      BY <2>1 DEF UpCounters, HelloFirst
    <2> QED
      BY <1>2, <2>1, <2>2 DEF AcksBehind
  <1>4. CASE pipe = "open"
    <2>1. toD' = toD \o lines
      BY <1>4 DEF Write
    <2>2. /\ Len(toD) \in Nat /\ DOMAIN toD = 1..Len(toD)
          /\ Len(lines) \in Nat /\ DOMAIN lines = 1..Len(lines)
          /\ DOMAIN toD' = 1..(Len(toD) + Len(lines))
          /\ \A i \in 1..Len(toD) : toD'[i] = toD[i] /\ toD[i] \in Line
          /\ \A i \in 1..Len(lines) : toD'[Len(toD) + i] = lines[i]
      BY <1>1, <2>1, Elements
    <2>3. ASSUME NEW i \in DOMAIN toD'
          PROVE  \/ i \in DOMAIN toD /\ toD'[i] = toD[i]
                 \/ i - Len(toD) \in DOMAIN lines /\ toD'[i] = lines[i - Len(toD)]
      <3>1. CASE i <= Len(toD)
        BY <2>2, <3>1
      <3>2. CASE i > Len(toD)
        <4>1. i - Len(toD) \in 1..Len(lines) /\ Len(toD) + (i - Len(toD)) = i
          BY <2>2, <3>2
        <4> QED
          BY <2>2, <4>1
      <3> QED
        BY <2>2, <3>1, <3>2
    <2>4. HelloFirst'
      BY <2>3 DEF UpCounters, HelloFirst
    <2> QED
      BY <1>2, <2>3, <2>4 DEF AcksBehind
  <1> QED
    BY <1>3, <1>4

\* What central does with one line: it writes no hello, acknowledges what it
\* has, and takes no frame but the next one.
LEMMA OnLineCounters ==
  ASSUME TypeOK, UpCounters, NEW f \in Line, OnLine(f),
         resets = 0 => /\ f.t # "reset" /\ (f.t = "ready" => f.seq >= cIn)
                       /\ IsFrame(f) => f.seq <= cIn + 1 /\ f.seq <= dOut
  PROVE  /\ \E lines \in Seq(Line) :
               /\ Write(lines)
               /\ \A i \in DOMAIN lines :
                     lines[i].t # "hello" /\ (lines[i].t = "ack" => lines[i].seq <= cIn')
         /\ \A i \in DOMAIN pending' : IsFrame(pending'[i])
         /\ resets = 0 => /\ cIn' \in {cIn, cIn + 1} /\ cIn' <= dOut
                          /\ IsFrame(f) => f.seq <= cIn'
  <1>1. /\ f.seq \in Nat /\ f.n \in Nat /\ cIn \in Nat /\ dOut \in Nat
        /\ pending \in Seq(Line) /\ toD \in Seq(Line)
    BY DEF Line, TypeOK, CentralTypeOK, DaemonTypeOK
  <1>2. /\ \A i \in DOMAIN pending : IsFrame(pending[i])
        /\ resets = 0 => cIn <= dOut
    BY DEF UpCounters
  <1>3. CASE OnReady(f)
    <2> DEFINE old == IF f.seq < cIn THEN <<>> ELSE pending
               keep == After(old, f.n)
    <2>1. f.t = "ready" /\ pending' = keep /\ Write(keep)
          /\ cIn' = IF f.seq < cIn THEN f.seq ELSE cIn
      BY <1>3 DEF OnReady
    <2>2. old \in Seq(Line) /\ \A i \in DOMAIN old : IsFrame(old[i])
      BY <1>1, <1>2, EmptyQueues, EmptySeq
    <2> HIDE DEF old
    <2>3. keep \in Seq(Line) /\ \A i \in DOMAIN keep : IsFrame(keep[i])
      <3>1. keep \in Seq(Line)
        BY <1>1, <2>2, AfterType
      <3>2. \A i \in DOMAIN keep : \E j \in DOMAIN old : keep[i] = old[j]
        BY <1>1, <2>2, AfterElements
      <3> QED
        BY <2>2, <3>1, <3>2
    <2> HIDE DEF keep
    <2>4. \A i \in DOMAIN keep : keep[i].t # "hello" /\ keep[i].t # "ack"
      BY <2>3 DEF IsFrame
    <2>5. resets = 0 => cIn' = cIn
      BY <1>1, <2>1
    <2> QED
      BY <1>2, <2>1, <2>3, <2>4, <2>5 DEF IsFrame
  <1>4. CASE OnAck(f) \/ OnReset(f)
    <2>1. /\ toD' = toD /\ f.t \in {"ack", "reset"} /\ (f.t = "ack" => cIn' = cIn)
          /\ pending' = Acked(pending, f.seq) \/ pending' = <<>>
      BY <1>4 DEF OnAck, OnReset
    <2>2. \A i \in DOMAIN pending' : IsFrame(pending'[i])
      <3>1. CASE pending' = <<>>
        BY <3>1, EmptySeq
      <3>2. CASE pending' = Acked(pending, f.seq)
        BY <1>1, <1>2, <3>2, AckedElements
      <3> QED
        BY <2>1, <3>1, <3>2
    <2>3. <<>> \in Seq(Line) /\ DOMAIN <<>> = {} /\ Write(<<>>)
      BY <1>1, <2>1, EmptyQueues, EmptySeq, ConcatEmptySeq DEF Write
    <2> QED
      BY <1>2, <2>1, <2>2, <2>3 DEF IsFrame
  <1>5. CASE OnOpen(f) \/ OnData(f) \/ OnClose(f)
    <2> DEFINE l == Control("ack", f.seq, 0)
    <2>1. /\ IsFrame(f) /\ Write(<<l>>) /\ pending' = pending
          /\ cIn' = IF f.seq > cIn THEN f.seq ELSE cIn
      BY <1>5 DEF OnOpen, OnData, OnClose, AckFrame, Fresh, IsFrame
    <2>2. l \in Line /\ l.t = "ack" /\ l.seq = f.seq
      BY <1>1, LineTypes DEF Control, Kinds
    <2> HIDE DEF l
    <2>3. <<l>> \in Seq(Line) /\ DOMAIN <<l>> = {1} /\ <<l>>[1] = l
      BY <2>2
    <2>4. f.seq <= cIn'
      BY <1>1, <2>1
    <2>5. resets = 0 => cIn' \in {cIn, cIn + 1} /\ cIn' <= dOut
      BY <1>1, <1>2, <2>1
    <2> QED
      BY <1>2, <2>1, <2>2, <2>3, <2>4, <2>5
  <1> QED
    BY <1>3, <1>4, <1>5 DEF OnLine

\* The line central reads next, as the invariant describes it.
LEMMA HeadCounters ==
  ASSUME TypeOK, UpCounters, toC # <<>>, resets = 0
  PROVE  LET f == Head(toC) IN
         /\ f \in Line
         /\ f.t # "reset" /\ (f.t = "ready" => f.seq >= cIn)
         /\ IsFrame(f) => f.seq <= cIn + 1 /\ f.seq <= dOut
  <1>1. Head(toC) = toC[1] /\ 1 \in DOMAIN toC /\ Head(toC) \in Line
    BY Elements, SeqOps DEF TypeOK
  <1>2. Gapless
    BY DEF UpCounters
  <1>3. /\ toC[1].t # "reset" /\ (toC[1].t = "ready" => toC[1].seq >= cIn)
        /\ IsFrame(toC[1]) => /\ toC[1].seq <= dOut
                              /\ \/ toC[1].seq <= cIn + 1
                                 \/ \E j \in 1..(1 - 1) : IsFrame(toC[j])
                                                             /\ toC[j].seq = toC[1].seq - 1
    BY <1>1, <1>2 DEF Gapless
  <1>4. 1..(1 - 1) = {}
    OBVIOUS
  <1> QED
    BY <1>1, <1>3, <1>4

LEMMA CentralRecvCounters == TypeOK /\ UpCounters /\ CentralRecv => UpCounters'
  <1> SUFFICES ASSUME TypeOK, UpCounters, CentralRecv PROVE UpCounters'
    OBVIOUS
  <1> DEFINE f == Head(toC)
  <1>1. /\ toC \in Seq(Line) /\ toC # <<>> /\ f \in Line /\ OnLine(f) /\ toC' = Tail(toC)
        /\ cIn \in Nat /\ dOut \in Nat
    BY SeqOps DEF TypeOK, CentralTypeOK, DaemonTypeOK, CentralRecv
  <1>2. /\ Len(toC) \in Nat /\ 1 \in DOMAIN toC /\ f = toC[1] /\ DOMAIN toC = 1..Len(toC)
        /\ DOMAIN toC' = 1..(Len(toC) - 1)
        /\ \A i \in DOMAIN toC : toC[i] \in Line
        /\ \A i \in DOMAIN toC' : i + 1 \in DOMAIN toC /\ toC'[i] = toC[i + 1]
    BY <1>1, Elements
  <1>3. /\ starts # 0 /\ ~(pipe = "open" /\ client # "cur")
        /\ UNCHANGED <<daemon, starts, client, dOut, outbuf, pipe, zombie, conn, resets>>
    BY <1>1 DEF CentralRecv, daemonVars, UpCounters, NothingStarted, HelloFirst
  <1>4. resets = 0 => /\ f.t # "reset" /\ (f.t = "ready" => f.seq >= cIn)
                      /\ IsFrame(f) => f.seq <= cIn + 1 /\ f.seq <= dOut
    BY <1>1, HeadCounters
  <1> HIDE DEF f
  <1>5. /\ \E lines \in Seq(Line) :
              /\ Write(lines)
              /\ \A i \in DOMAIN lines :
                    lines[i].t # "hello" /\ (lines[i].t = "ack" => lines[i].seq <= cIn')
        /\ \A i \in DOMAIN pending' : IsFrame(pending'[i])
        /\ resets = 0 => /\ cIn' \in {cIn, cIn + 1} /\ cIn' <= dOut
                         /\ IsFrame(f) => f.seq <= cIn'
    BY <1>1, <1>4, OnLineCounters
  <1>6. cIn' \in Nat
    BY CentralRecvTypeOK DEF TypeOK, CentralTypeOK
  <1>7. resets = 0 => cIn' >= cIn
    BY <1>1, <1>5
  <1>8. HelloFirst' /\ (resets = 0 => AcksBehind(toD)')
    <2>1. PICK lines \in Seq(Line) :
              /\ Write(lines)
              /\ \A i \in DOMAIN lines :
                    lines[i].t # "hello" /\ (lines[i].t = "ack" => lines[i].seq <= cIn')
      BY <1>5
    <2> QED
      BY <1>3, <1>6, <1>7, <2>1, WriteCounters
  <1>9. NothingStarted'
    BY <1>3 DEF NothingStarted
  <1>10. ASSUME resets = 0
         PROVE  /\ Numbered' /\ dOut' - Len(outbuf') <= cIn' /\ cIn' <= dOut'
                /\ AcksBehind(zombie)' /\ Gapless' /\ UpToDate'
    <2>1. /\ Numbered /\ dOut - Len(outbuf) <= cIn /\ AcksBehind(zombie) /\ Gapless /\ UpToDate
      BY <1>10 DEF UpCounters
    <2>2. Numbered'
      BY <1>3, <2>1 DEF Numbered, IsFrame
    <2>3. dOut' - Len(outbuf') <= cIn' /\ cIn' <= dOut'
      <3>1. Len(outbuf) \in Nat
        BY LenProperties DEF TypeOK, DaemonTypeOK
      <3> QED
        BY <1>1, <1>3, <1>5, <1>6, <1>7, <1>10, <2>1, <3>1
    <2>4. AcksBehind(zombie)'
      <3> SUFFICES ASSUME NEW i \in DOMAIN zombie
                   PROVE  /\ zombie[i].t = "ack" => zombie[i].seq <= cIn'
                          /\ zombie[i].t = "hello" => zombie[i].n <= cIn'
        BY <1>3 DEF AcksBehind
      <3>1. zombie[i] \in Line
        BY Elements DEF TypeOK
      <3>2. zombie[i].seq \in Nat /\ zombie[i].n \in Nat
        BY <3>1 DEF Line
      <3>3. /\ zombie[i].t = "ack" => zombie[i].seq <= cIn
            /\ zombie[i].t = "hello" => zombie[i].n <= cIn
        BY <2>1 DEF AcksBehind
      <3> QED
        BY <1>1, <1>6, <1>7, <1>10, <3>2, <3>3
    <2>5. Gapless'
      <3> SUFFICES ASSUME NEW i \in DOMAIN toC'
                   PROVE  /\ toC'[i].t # "reset"
                          /\ toC'[i].t = "ready" => i = 1 /\ toC'[i].seq >= cIn'
                          /\ IsFrame(toC'[i]) =>
                                /\ toC'[i].seq <= dOut'
                                /\ toC'[i].seq <= cIn' + 1
                                     \/ \E j \in 1..(i - 1) : IsFrame(toC'[j])
                                                    /\ toC'[j].seq = toC'[i].seq - 1
        BY DEF Gapless, IsFrame
      <3>1. /\ i + 1 \in DOMAIN toC /\ toC'[i] = toC[i + 1] /\ i + 1 # 1 /\ (i + 1) - 1 = i
            /\ i \in Nat
        BY <1>2
      <3>2. /\ toC[i + 1].t # "reset" /\ toC[i + 1].t # "ready"
            /\ IsFrame(toC[i + 1]) =>
                  /\ toC[i + 1].seq <= dOut
                  /\ toC[i + 1].seq <= cIn + 1
                       \/ \E j \in 1..i : IsFrame(toC[j]) /\ toC[j].seq = toC[i + 1].seq - 1
        BY <2>1, <3>1 DEF Gapless
      <3>3. toC[i + 1].seq \in Nat /\ f.seq \in Nat
        BY <1>1, <1>2, <3>1 DEF Line
      <3>4. CASE IsFrame(toC[i + 1]) /\ toC[i + 1].seq > cIn' + 1
        <4>1. PICK j \in 1..i : IsFrame(toC[j]) /\ toC[j].seq = toC[i + 1].seq - 1
          BY <1>1, <1>6, <1>7, <1>10, <3>2, <3>3, <3>4
        <4>2. j # 1
          <5> SUFFICES ASSUME j = 1 PROVE FALSE
            OBVIOUS
          <5>1. IsFrame(f) /\ f.seq = toC[i + 1].seq - 1
            BY <1>2, <4>1
          <5>2. f.seq <= cIn'
            BY <1>5, <1>10, <5>1
          <5> QED
            BY <1>6, <3>3, <3>4, <5>1, <5>2
        <4>3. j - 1 \in 1..(i - 1) /\ j - 1 \in DOMAIN toC' /\ (j - 1) + 1 = j
          BY <1>2, <3>1, <4>1, <4>2
        <4>4. toC'[j - 1] = toC[j]
          BY <1>2, <4>3
        <4>5. IsFrame(toC'[j - 1]) /\ toC'[j - 1].seq = toC'[i].seq - 1
          BY <3>1, <4>1, <4>4
        <4> QED
          BY <1>3, <3>1, <3>2, <4>3, <4>5
      <3> QED
        BY <1>3, <1>6, <3>1, <3>2, <3>3, <3>4
    <2>6. UpToDate'
      <3>1. cIn \in Nat /\ dOut \in Nat /\ cIn' \in Nat /\ cIn' >= cIn
        BY <1>1, <1>6, <1>7, <1>10
      <3> DEFINE in == cIn'
      <3>2. \A s \in (in + 1)..dOut : s \in (cIn + 1)..dOut /\ s > in
        <4>1. cIn \in Nat /\ dOut \in Nat /\ in \in Nat /\ in >= cIn
          BY <3>1
        <4> HIDE DEF in
        <4> QED
          BY <4>1
      <3> SUFFICES ASSUME client = "cur" /\ pipe = "open", NEW s \in (cIn' + 1)..dOut
                   PROVE  \E i \in DOMAIN toC' : IsFrame(toC'[i]) /\ toC'[i].seq = s
        BY <1>3 DEF UpToDate, IsFrame
      <3>3. s \in (cIn + 1)..dOut /\ s > cIn'
        BY <3>2
      <3>4. PICK i \in DOMAIN toC : IsFrame(toC[i]) /\ toC[i].seq = s
        BY <2>1, <3>3 DEF UpToDate
      <3>5. i # 1
        <4> SUFFICES ASSUME i = 1 PROVE FALSE
          OBVIOUS
        <4>1. IsFrame(f) /\ f.seq = s
          BY <1>2, <3>4
        <4>2. f.seq <= cIn'
          BY <1>5, <1>10, <4>1
        <4>3. s \in Nat /\ cIn' \in Nat
          BY <1>1, <1>6, <3>3
        <4> QED
          BY <3>3, <4>1, <4>2, <4>3
      <3>6. i - 1 \in DOMAIN toC' /\ (i - 1) + 1 = i
        BY <1>2, <3>5
      <3>7. toC'[i - 1] = toC[i]
        BY <1>2, <3>6
      <3> QED
        BY <3>4, <3>6, <3>7
    <2> QED
      BY <2>2, <2>3, <2>4, <2>5, <2>6
  <1> QED
    BY <1>3, <1>5, <1>8, <1>9, <1>10 DEF UpCounters, IsFrame

\* What #send writes and keeps are frames, whether or not it overflowed.
LEMMA SendCounters ==
  ASSUME TypeOK, UpCounters, NEW t \in {"data", "close"}, NEW k \in Conns, NEW n \in Nat,
         NEW streams \in [Conns -> StreamStates], Send(t, k, n, streams)
  PROVE  /\ \E lines \in Seq(Line) :
               Write(lines) /\ \A i \in DOMAIN lines : lines[i].t \in {"data", "close"}
         /\ \A i \in DOMAIN pending' : IsFrame(pending'[i])
  <1> DEFINE f == Frame(t, k, n, cOut + 1)
             p == Append(pending, f)
             left == {j \in Conns : streams[j] = "mapped"}
  <1>1. /\ pending \in Seq(Line) /\ cOut \in Nat /\ sid \in [Conns -> Nat]
        /\ \A i \in DOMAIN pending : IsFrame(pending[i])
    BY DEF TypeOK, CentralTypeOK, DaemonTypeOK, UpCounters
  <1>2. f \in Line /\ f.t \in {"data", "close"}
    <2>1. f \in Line
      BY <1>1, LineTypes DEF Kinds
    <2> QED
      BY <2>1 DEF Frame
  <1>3. Cardinality(left) \in Nat
    <2>1. IsFiniteSet(Conns)
      BY BoundsAssumption, FS_Interval DEF Conns
    <2> QED
      BY <2>1, FS_Subset, FS_CardinalityType
  <1>4. <<>> \in Seq(Line) /\ \A i \in DOMAIN <<>> : <<>>[i].t \in {"data", "close"}
    BY EmptyQueues, EmptySeq
  <1> HIDE DEF f
  <1>5. /\ <<f>> \in Seq(Line) /\ Len(<<f>>) = 1
        /\ \A i \in DOMAIN <<f>> : <<f>>[i].t \in {"data", "close"}
    BY <1>2
  <1>6. CASE Len(p) <= MaxBuffer
    <2>1. pending' = p /\ Write(IF ready THEN <<f>> ELSE <<>>)
      BY <1>6 DEF Send, f
    <2>2. /\ Len(pending) \in Nat /\ DOMAIN pending = 1..Len(pending)
          /\ DOMAIN p = 1..(Len(pending) + 1)
          /\ \A i \in 1..Len(pending) : p[i] = pending[i]
          /\ p[Len(pending) + 1] = f
      BY <1>1, <1>2, AppendProperties, LenProperties
    <2> HIDE DEF p
    <2>3. \A i \in DOMAIN p : IsFrame(p[i])
      <3> TAKE i \in DOMAIN p
      <3>1. CASE i \in 1..Len(pending)
        BY <1>1, <2>2, <3>1
      <3>2. CASE i = Len(pending) + 1
        BY <1>2, <2>2, <3>2 DEF IsFrame
      <3> QED
        BY <2>2, <3>1, <3>2
    <2> QED
      BY <1>4, <1>5, <2>1, <2>3 DEF IsFrame
  <1>7. CASE ~(Len(p) <= MaxBuffer)
    <2> HIDE DEF left
    <2>1. PICK order \in [1..Cardinality(left) -> left] :
                 LET closes == [i \in 1..Cardinality(left) |->
                                   Frame("close", order[i], 0, cOut + 1 + i)]
                 IN pending' = closes /\ Write(IF ready THEN <<f>> \o closes ELSE <<>>)
      BY <1>7 DEF Send, f, left
    <2> DEFINE closes == [i \in 1..Cardinality(left) |->
                                   Frame("close", order[i], 0, cOut + 1 + i)]
    <2>2. /\ closes \in Seq(Line) /\ DOMAIN closes = 1..Cardinality(left)
          /\ \A i \in 1..Cardinality(left) : closes[i].t = "close"
      <3>1. \A i \in 1..Cardinality(left) : order[i] \in Conns /\ cOut + 1 + i \in Nat
        <4>1. left \subseteq Conns
          BY DEF left
        <4>2. \A i \in 1..Cardinality(left) : order[i] \in left
          BY <2>1
        <4>3. \A i \in 1..Cardinality(left) : cOut + 1 + i \in Nat
          BY <1>1, <1>3
        <4> QED
          BY <4>1, <4>2, <4>3
      <3>2. \A i \in 1..Cardinality(left) : Frame("close", order[i], 0, cOut + 1 + i) \in Line
        BY <1>1, <3>1, LineTypes DEF Kinds
      <3>3. closes \in [1..Cardinality(left) -> Line]
        BY <3>2
      <3>4. \A i \in 1..Cardinality(left) : closes[i].t = "close"
        BY DEF Frame
      <3> HIDE DEF closes
      <3> QED
        BY <1>3, <3>3, <3>4, SeqDef
    <2> HIDE DEF closes
    <2>3. pending' = closes /\ Write(IF ready THEN <<f>> \o closes ELSE <<>>)
      BY <2>1 DEF closes
    <2>4. \A i \in DOMAIN pending' : IsFrame(pending'[i])
      BY <2>2, <2>3 DEF IsFrame
    <2>5. /\ <<f>> \o closes \in Seq(Line)
          /\ \A i \in DOMAIN (<<f>> \o closes) : (<<f>> \o closes)[i].t \in {"data", "close"}
      <3> DEFINE all == <<f>> \o closes
      <3>1. /\ all \in Seq(Line) /\ DOMAIN all = 1..(1 + Len(closes))
            /\ \A i \in 1..1 : all[i] = <<f>>[i]
            /\ \A i \in 1..Len(closes) : all[1 + i] = closes[i]
            /\ Len(closes) \in Nat /\ DOMAIN closes = 1..Len(closes)
        BY <1>5, <2>2, Elements, SeqOps
      <3> HIDE DEF all
      <3>2. ASSUME NEW i \in DOMAIN all PROVE all[i].t \in {"data", "close"}
        <4>1. CASE i = 1
          BY <1>2, <3>1, <4>1
        <4>2. CASE i # 1
          <5>1. Len(closes) \in Nat /\ i \in 1..(1 + Len(closes))
            BY <3>1
          <5>2. i - 1 \in 1..Len(closes) /\ 1 + (i - 1) = i
            BY <4>2, <5>1
          <5>3. all[1 + (i - 1)] = closes[i - 1] /\ i - 1 \in DOMAIN closes
            BY <3>1, <5>2
          <5> QED
            BY <2>2, <5>2, <5>3
        <4> QED
          BY <4>1, <4>2
      <3> QED
        BY <3>1, <3>2 DEF all
    <2> QED
      BY <1>4, <2>3, <2>4, <2>5
  <1> QED
    BY <1>6, <1>7

LEMMA RouteStepCounters == TypeOK /\ UpCounters /\ RouteNext => UpCounters'
  <1> SUFFICES ASSUME TypeOK, UpCounters, NEW k \in Conns,
                      RouteSend(k) \/ RouteEnd(k) \/ RouteDestroy(k) \/ RouteFinish(k)
               PROVE  UpCounters'
    BY DEF RouteNext
  <1>1. CASE RouteFinish(k)
    BY <1>1 DEF RouteFinish, daemonVars, wireVars, agentVars, UpCounters, HelloFirst,
       NothingStarted, Numbered, AcksBehind, Gapless, UpToDate, IsFrame
  <1>2. CASE RouteSend(k) \/ RouteEnd(k) \/ RouteDestroy(k)
    <2>1. PICK t \in {"data", "close"}, n \in Nat, streams \in [Conns -> StreamStates] :
             Send(t, k, n, streams)
      <3>1. /\ stream \in [Conns -> StreamStates]
            /\ [stream EXCEPT ![k] = "ended"] \in [Conns -> StreamStates]
            /\ [stream EXCEPT ![k] = "gone"] \in [Conns -> StreamStates]
            /\ sentDn[k] + 1 \in Nat
        BY DEF TypeOK, CentralTypeOK, AgentTypeOK, StreamStates
      <3>2. \/ Send("data", k, sentDn[k] + 1, stream)
            \/ Send("close", k, 0, [stream EXCEPT ![k] = "ended"])
            \/ Send("close", k, 0, [stream EXCEPT ![k] = "gone"])
        BY <1>2 DEF RouteSend, RouteEnd, RouteDestroy
      <3> QED
        BY <3>1, <3>2
    <2>2. UNCHANGED <<daemon, starts, client, dOut, outbuf, cIn, pipe, toC, zombie, conn, resets>>
      BY <1>2 DEF RouteSend, RouteEnd, RouteDestroy, routeUnchanged, daemonVars
    <2>3. PICK lines \in Seq(Line) :
             Write(lines) /\ \A i \in DOMAIN lines : lines[i].t \in {"data", "close"}
      BY <2>1, SendCounters
    <2>4. \A i \in DOMAIN pending' : IsFrame(pending'[i])
      BY <2>1, SendCounters
    <2>5. cIn \in Nat /\ cIn' >= cIn
      BY <2>2 DEF TypeOK, CentralTypeOK
    <2>6. HelloFirst' /\ (resets = 0 => AcksBehind(toD)')
      <3>1. \A i \in DOMAIN lines : lines[i].t # "hello" /\ lines[i].t # "ack"
        BY <2>3
      <3>2. toC' = <<>> \/ ~(pipe = "open" /\ client # "cur")
        BY <2>2 DEF UpCounters, HelloFirst
      <3> QED
        BY <2>2, <2>3, <2>5, <3>1, <3>2, WriteCounters
    <2>7. NothingStarted'
      <3>1. pipe # "open" => toD' = toD
        BY <2>3 DEF Write
      <3> QED
        BY <2>2, <3>1 DEF UpCounters, NothingStarted
    <2> QED
      BY <2>2, <2>4, <2>6, <2>7 DEF UpCounters, Numbered, AcksBehind, Gapless, UpToDate, IsFrame
  <1> QED
    BY <1>1, <1>2

\* While the first daemon runs, the counters of the two ends, the replay
\* buffer and the pipe between them never lose a frame towards central.
THEOREM CountersAgree == Spec => [](OneDaemon => UpCounters)
  <1> DEFINE I == OneDaemon => UpCounters
  <1>1. Init => I
    BY InitCounters
  <1>2. TypeOK /\ I /\ [Next]_vars => I'
    <2> SUFFICES ASSUME TypeOK, I, [Next]_vars, OneDaemon' PROVE UpCounters'
      OBVIOUS
    <2>1. CASE Next
      <3>1. /\ UpCounters
            /\ StartDaemon => starts = 0
            /\ DaemonCrash => starts = 0 /\ daemon # "none"
        BY <2>1, FirstDaemon
      <3>2. ~DaemonCrash
        BY <3>1 DEF UpCounters, NothingStarted
      <3> QED
        BY <2>1, <3>1, <3>2, AgentStepCounters, DaemonStepCounters, PipeStepCounters,
           CentralRecvCounters, RouteStepCounters DEF Next, FaultNext
    <2>2. CASE UNCHANGED vars
      <3>1. OneDaemon /\ UpCounters
        BY <2>2 DEF vars, daemonVars, OneDaemon
      <3> QED
        BY <2>2, <3>1 DEF vars, daemonVars, centralVars, wireVars, agentVars, UpCounters, HelloFirst,
           NothingStarted, Numbered, AcksBehind, Gapless, UpToDate, IsFrame
    <2> QED
      BY <2>1, <2>2
  <1> QED
    BY <1>1, <1>2, TypeCorrect, PTL DEF Spec

\* So central takes each frame exactly once and in order, until a reset.
THEOREM TakesNextFrame ==
  Spec /\ []OneDaemon => NextFrameOnly
  <1>1. TypeOK /\ UpCounters /\ [Next]_vars => [cIn' \in {cIn, cIn + 1} \/ resets > 0]_vars
    <2> SUFFICES ASSUME TypeOK, UpCounters, Next, resets = 0
                 PROVE  cIn' \in {cIn, cIn + 1}
      BY DEF TypeOK
    <2>1. CASE CentralRecv
      <3>1. toC # <<>> /\ OnLine(Head(toC))
        BY <2>1 DEF CentralRecv
      <3> DEFINE f == Head(toC)
      <3>2. /\ f \in Line
            /\ f.t # "reset" /\ (f.t = "ready" => f.seq >= cIn)
            /\ IsFrame(f) => f.seq <= cIn + 1 /\ f.seq <= dOut
        BY <3>1, HeadCounters
      <3> HIDE DEF f
      <3> QED
        BY <3>1, <3>2, OnLineCounters DEF f
    <2>2. CASE ~CentralRecv
      BY <2>2 DEF Next, AgentNext, AgentConnect, AgentSend, AgentClose, AgentRead, DaemonNext,
         DaemonHello, DaemonRecv, DaemonGone, GraceExpire, DaemonBoot, PipeNext, Attach,
         AttachNoDaemon, StartDaemon, StartFails, PipeDone, Drain, RouteNext, RouteSend, RouteEnd,
         RouteDestroy, RouteFinish, routeUnchanged, FaultNext, Break, DaemonCrash, Close, centralVars
    <2> QED
      BY <2>1, <2>2
  <1> QED
    BY <1>1, TypeCorrect, CountersAgree, PTL DEF Spec, NextFrameOnly

----------------------------------------------------------------------------
(* Back-pressure: who has paused whom, and why. *)

\* An acknowledged queue is no longer than it was.
LEMMA AfterShorter ==
  ASSUME NEW q \in Seq(Line), NEW s \in Nat
  PROVE  Len(After(q, s)) <= Len(q)
  <1> DEFINE c == Cardinality({i \in DOMAIN q : q[i].seq <= s})
  <1>1. c \in Nat /\ Len(q) \in Nat
    <2>1. IsFiniteSet(1..Len(q)) /\ DOMAIN q = 1..Len(q) /\ Len(q) \in Nat
      BY LenProperties, FS_Interval
    <2>2. IsFiniteSet({i \in DOMAIN q : q[i].seq <= s})
      BY <2>1, FS_Subset
    <2> QED
      BY <2>1, <2>2, FS_CardinalityType
  <1> HIDE DEF c
  <1>2. After(q, s) = SubSeq(q, 1 + c, Len(q))
    BY DEF After, c
  <1>3. Len(SubSeq(q, 1 + c, Len(q))) = IF 1 + c <= Len(q) THEN Len(q) - (1 + c) + 1 ELSE 0
    <2>1. 1 + c \in Nat /\ 1 + c >= 1 /\ Len(q) <= Len(q)
      BY <1>1
    <2> QED
      BY <1>1, <2>1, SubSeqLines
  <1> QED
    BY <1>1, <1>2, <1>3

\* So is one from which an ack takes a frame.
LEMMA AckedShorter ==
  ASSUME NEW q \in Seq(Line), NEW s \in Nat
  PROVE  Len(Acked(q, s)) <= Len(q)
  <1>1. CASE \E i \in DOMAIN q : q[i].seq = s
    <2> DEFINE i == CHOOSE i \in DOMAIN q : q[i].seq = s
               a == SubSeq(q, 1, i - 1)
               b == SubSeq(q, i + 1, Len(q))
    <2>1. i \in 1..Len(q) /\ Len(q) \in Nat
      BY <1>1, LenProperties
    <2> HIDE DEF i
    <2>2. /\ a \in Seq(Line) /\ Len(a) = IF 1 <= i - 1 THEN i - 1 - 1 + 1 ELSE 0
          /\ b \in Seq(Line)
          /\ Len(b) = IF i + 1 <= Len(q) THEN Len(q) - (i + 1) + 1 ELSE 0
      BY <2>1, SubSeqLines
    <2> HIDE DEF a, b
    <2>3. Len(a \o b) = Len(a) + Len(b)
      BY <2>2, ConcatProperties
    <2>4. Len(a) = i - 1 /\ Len(b) = Len(q) - i
      BY <2>1, <2>2
    <2>5. Len(a \o b) <= Len(q)
      BY <2>1, <2>3, <2>4
    <2> QED
      BY <1>1, <2>5 DEF Acked, a, b, i
  <1>2. CASE ~ \E i \in DOMAIN q : q[i].seq = s
    <2>1. Acked(q, s) = q /\ Len(q) \in Nat
      BY <1>2, LenProperties DEF Acked
    <2> QED
      BY <2>1
  <1> QED
    BY <1>1, <1>2

\* What #flow decides: paused over the high water, or held; if paused for no
\* other reason, over the low water.
LEMMA FlowDecides ==
  ASSUME NEW p, Len(p) \in Nat, NEW pz \in BOOLEAN, NEW hold \in BOOLEAN
  PROVE  /\ hold \/ Len(p) > HighWater => Flow(p, pz, hold)
         /\ Flow(p, pz, hold) /\ ~hold => Len(p) > LowWater
  BY LimitsAssumption DEF Flow

\* Between two pipes central has read all there was, and is not ready.
BetweenPipes == pipe \in {"none", "missing"} => ~ready /\ toC = <<>>

Paused == Backpressure /\ BetweenPipes

\* The lengths the limits are compared with.
LEMMA LengthTypes ==
  TypeOK => /\ Len(pending) \in Nat /\ Len(outbuf) \in Nat /\ Len(<<>>) = 0
            /\ paused \in BOOLEAN /\ ready \in BOOLEAN /\ blocked \in BOOLEAN
            /\ HighWater \in Nat /\ LowWater \in Nat /\ MaxBuffer \in Nat /\ DaemonBuffer \in Nat
  BY SeqOps, EmptySeq, LimitsAssumption DEF TypeOK, DaemonTypeOK, CentralTypeOK

\* What the daemon sends or resets keeps its buffer within its cap.
LEMMA EmitPaused ==
  ASSUME TypeOK, Paused, NEW f, NEW c, NEW q, Emit(f, c, q), UNCHANGED centralVars
  PROVE  Paused'
  <1>1. Len(outbuf') <= DaemonBuffer
    <2>1. CASE Len(outbuf) + 1 > DaemonBuffer
      BY <2>1, LengthTypes DEF Emit, ResetTunnels
    <2>2. CASE ~(Len(outbuf) + 1 > DaemonBuffer)
      <3>1. Len(outbuf') = Len(outbuf) + 1
        BY <2>2, AppendProperties DEF Emit, TypeOK, DaemonTypeOK
      <3> QED
        BY <2>2, <3>1, LengthTypes
    <2> QED
      BY <2>1, <2>2
  <1>2. pipe # "open" => toC' = toC
    BY DEF Emit, ToClient
  <1> QED
    BY <1>1, <1>2 DEF Paused, Backpressure, BetweenPipes, centralVars

\* The agent's steps.
LEMMA AgentStepPaused == TypeOK /\ Paused /\ AgentNext => Paused'
  <1> SUFFICES ASSUME TypeOK, Paused, NEW k \in Conns,
                      AgentConnect(k) \/ AgentSend(k) \/ AgentClose(k) \/ AgentRead(k)
               PROVE  Paused'
    BY DEF AgentNext
  <1>1. CASE AgentConnect(k)
    BY <1>1, EmitPaused DEF AgentConnect
  <1>2. CASE AgentSend(k)
    BY <1>2, EmitPaused DEF AgentSend
  <1>3. CASE AgentClose(k)
    BY <1>3, EmitPaused DEF AgentClose
  <1>4. CASE AgentRead(k)
    BY <1>4 DEF AgentRead, daemonVars, centralVars, wireVars, Paused, Backpressure, BetweenPipes
  <1> QED
    BY <1>1, <1>2, <1>3, <1>4

\* The daemon's steps, and its death.
LEMMA DaemonStepPaused == TypeOK /\ Paused /\ (DaemonNext \/ DaemonCrash) => Paused'
  <1> SUFFICES ASSUME TypeOK, Paused, DaemonNext \/ DaemonCrash PROVE Paused'
    OBVIOUS
  <1> USE DEF Paused, Backpressure, BetweenPipes, centralVars
  <1>0. /\ outbuf \in Seq(Line) /\ toD \in Seq(Line) /\ zombie \in Seq(Line)
        /\ DaemonBuffer \in Nat /\ Len(outbuf) \in Nat
    BY LengthTypes DEF TypeOK, DaemonTypeOK
  <1>1. CASE DaemonHello
    <2>1. Head(toD).n \in Nat
      <3>1. Head(toD) \in Line
        BY <1>0, <1>1, SeqOps DEF DaemonHello
      <3> QED
        BY <3>1 DEF Line
    <2>2. Len(outbuf') <= Len(outbuf) /\ Len(outbuf') \in Nat
      BY <1>0, <1>1, <2>1, AfterShorter, AfterType DEF DaemonHello
    <2>3. pipe # "open" => toC' = toC
      BY <1>1 DEF DaemonHello
    <2>4. Len(outbuf') <= DaemonBuffer
      BY <1>0, <2>2
    <2> QED
      BY <1>1, <2>3, <2>4 DEF DaemonHello
  <1>2. CASE DaemonRecv
    <2>1. PICK f \in Line : DaemonFrame(f)
      BY <1>0, <1>2, SeqOps DEF DaemonRecv
    <2>2. Len(outbuf') <= DaemonBuffer
      <3>1. CASE OnClientAck(f)
        <4>1. f.seq \in Nat
          BY DEF Line
        <4>2. Len(outbuf') <= Len(outbuf) /\ Len(outbuf') \in Nat
          BY <1>0, <3>1, <4>1, AfterShorter, AfterType DEF OnClientAck
        <4> QED
          BY <1>0, <4>2
      <3> QED
        BY <2>1, <3>1 DEF DaemonFrame, OnClientData, OnClientClose
    <2>3. pipe # "open" => toC' = toC
      BY <2>1 DEF DaemonFrame, OnClientAck, OnClientData, OnClientClose, TakeFrame, ToClient
    <2> QED
      BY <1>2, <2>2, <2>3 DEF DaemonRecv
  <1>3. CASE DaemonGone
    BY <1>3 DEF DaemonGone, wireVars
  <1>4. CASE GraceExpire
    BY <1>4, LengthTypes DEF GraceExpire, ResetTunnels, wireVars
  <1>5. CASE DaemonBoot
    BY <1>5 DEF DaemonBoot, wireVars
  <1>6. CASE DaemonCrash
    <2>1. pipe' \in {"none", "missing"} => toC' = <<>>
      <3> SUFFICES ASSUME pipe' \in {"none", "missing"} PROVE toC' = <<>>
        OBVIOUS
      <3>1. toC = <<>>
        BY <1>6 DEF DaemonCrash
      <3>2. PICK j \in 0..Len(toC) : toC' = SubSeq(toC, 1, j)
        BY <1>6 DEF DaemonCrash
      <3>3. j = 0
        BY <3>1, <3>2, EmptySeq
      <3> QED
        BY <3>1, <3>2, <3>3
    <2> QED
      BY <1>6, <2>1, LengthTypes DEF DaemonCrash, DaemonDies
  <1> QED
    BY <1>1, <1>2, <1>3, <1>4, <1>5, <1>6 DEF DaemonNext

\* Steps of the pipe.
LEMMA PipeStepPaused == TypeOK /\ Paused /\ (PipeNext \/ Break \/ Drain \/ Close) => Paused'
  <1> SUFFICES ASSUME TypeOK, Paused, PipeNext \/ Break \/ Drain \/ Close PROVE Paused'
    OBVIOUS
  <1> USE DEF Paused, Backpressure, BetweenPipes, daemonVars
  <1>0. /\ Len(pending) \in Nat /\ paused \in BOOLEAN /\ ready \in BOOLEAN
        /\ MaxBuffer \in Nat /\ Len(<<>>) = 0 /\ HighWater \in Nat
    BY LengthTypes
  <1>1. CASE Attach
    BY <1>1 DEF Attach
  <1>2. CASE AttachNoDaemon
    BY <1>0, <1>2, FlowDecides DEF AttachNoDaemon, wireVars
  <1>3. CASE StartDaemon
    BY <1>3, LengthTypes DEF StartDaemon, DaemonDies
  <1>4. CASE StartFails
    BY <1>4 DEF StartFails, wireVars
  <1>5. CASE PipeDone
    BY <1>0, <1>5, FlowDecides DEF PipeDone, wireVars
  <1>6. CASE Break
    BY <1>6 DEF Break
  <1>7. CASE Drain
    <2>1. /\ paused' = Flow(pending, paused, ~ready) /\ (~ready) \in BOOLEAN
          /\ UNCHANGED <<outbuf, pipe, ready, pending, toC>>
      BY <1>0, <1>7 DEF Drain, wireVars
    <2>2. /\ ~ready \/ Len(pending) > HighWater => paused'
          /\ paused' /\ ready => Len(pending) > LowWater
      BY <1>0, <2>1, FlowDecides
    <2> QED
      BY <2>1, <2>2
  <1>8. CASE Close
    BY <1>0, <1>8 DEF Close
  <1> QED
    BY <1>1, <1>2, <1>3, <1>4, <1>5, <1>6, <1>7, <1>8 DEF PipeNext

\* A line central reads.
LEMMA CentralRecvPaused == TypeOK /\ Paused /\ CentralRecv => Paused'
  <1> SUFFICES ASSUME TypeOK, Paused, CentralRecv PROVE Paused'
    OBVIOUS
  <1> DEFINE f == Head(toC)
  <1>0. /\ Len(pending) \in Nat /\ paused \in BOOLEAN /\ ready \in BOOLEAN /\ blocked \in BOOLEAN
        /\ MaxBuffer \in Nat /\ Len(<<>>) = 0 /\ HighWater \in Nat /\ pending \in Seq(Line)
    BY LengthTypes DEF TypeOK, CentralTypeOK
  <1>1. /\ f \in Line /\ OnLine(f) /\ toC # <<>>
        /\ UNCHANGED <<outbuf, pipe>>
    BY SeqOps DEF CentralRecv, TypeOK, daemonVars
  <1>2. f.n \in Nat /\ f.seq \in Nat
    BY <1>1 DEF Line
  <1> HIDE DEF f
  <1>3. BetweenPipes'
    BY <1>1 DEF Paused, BetweenPipes
  <1>4. SUFFICES /\ paused' /\ ready' /\ ~blocked' => Len(pending') > LowWater
                 /\ Len(pending') > HighWater => paused'
                 /\ Len(pending') <= MaxBuffer
    BY <1>1, <1>3 DEF Paused, Backpressure
  <1>5. /\ paused /\ ready /\ ~blocked => Len(pending) > LowWater
        /\ Len(pending) > HighWater => paused
        /\ Len(pending) <= MaxBuffer
    BY DEF Paused, Backpressure
  <1>6. CASE OnReady(f)
    <2> DEFINE q == IF f.seq < cIn THEN <<>> ELSE pending
               keep == After(q, f.n)
    <2>1. q \in Seq(Line) /\ Len(q) <= Len(pending)
      BY <1>0, EmptyQueues
    <2> HIDE DEF q
    <2>2. keep \in Seq(Line) /\ Len(keep) \in Nat /\ Len(keep) <= Len(q) /\ Len(q) \in Nat
      BY <1>2, <2>1, AfterType, AfterShorter, SeqOps
    <2>3. /\ pending' = keep /\ paused' = Flow(keep, paused, blocked')
          /\ blocked' \in IF keep = <<>> THEN {blocked} ELSE BlockedAfter
      BY <1>6 DEF OnReady, q
    <2> HIDE DEF keep
    <2>4. blocked' \in BOOLEAN
      BY <1>0, <2>3, BlockedType
    <2>5. /\ Len(keep) > HighWater => paused'
          /\ paused' /\ ~blocked' => Len(keep) > LowWater
      BY <1>0, <2>2, <2>3, <2>4, FlowDecides
    <2>6. Len(keep) <= MaxBuffer
      BY <1>0, <1>5, <2>1, <2>2
    <2> QED
      BY <2>3, <2>5, <2>6
  <1>7. CASE OnAck(f)
    <2>1. /\ pending' = Acked(pending, f.seq) /\ UNCHANGED <<ready, blocked>>
          /\ paused' = Flow(pending', paused, ~ready \/ blocked)
      BY <1>7 DEF OnAck
    <2>2. Len(pending') \in Nat /\ Len(pending') <= Len(pending)
      BY <1>0, <1>2, <2>1, AckedType, AckedShorter, SeqOps
    <2>3. (~ready \/ blocked) \in BOOLEAN
      OBVIOUS
    <2>4. /\ Len(pending') > HighWater => paused'
          /\ paused' /\ ready' /\ ~blocked' => Len(pending') > LowWater
      BY <1>0, <2>1, <2>2, <2>3, FlowDecides
    <2>5. Len(pending') <= MaxBuffer
      BY <1>0, <1>5, <2>2
    <2> QED
      BY <2>4, <2>5
  <1>8. CASE OnReset(f)
    <2>1. /\ pending' = <<>> /\ UNCHANGED <<ready, blocked>>
          /\ paused' = Flow(<<>>, paused, ~ready \/ blocked)
      BY <1>8 DEF OnReset
    <2>2. (~ready \/ blocked) \in BOOLEAN
      OBVIOUS
    <2>3. paused' /\ ready' /\ ~blocked' => Len(pending') > LowWater
      BY <1>0, <2>1, <2>2, FlowDecides
    <2> QED
      BY <1>0, <2>1, <2>3
  <1>9. CASE AckFrame(f)
    <2>1. /\ blocked' = blocked \/ blocked' = TRUE
          /\ UNCHANGED <<ready, paused, pending>>
      BY <1>9 DEF AckFrame, BlockedAfter
    <2> QED
      BY <1>5, <2>1
  <1> QED
    BY <1>1, <1>6, <1>7, <1>8, <1>9 DEF OnLine, OnOpen, OnData, OnClose

\* #send: within the limit the queue is one longer; over it only the closes
\* are left, at most one per stream.
LEMMA SendPaused ==
  ASSUME TypeOK, Paused, NEW t \in Kinds, NEW k \in Conns, NEW n \in Nat,
         NEW streams \in [Conns -> StreamStates], Send(t, k, n, streams),
         UNCHANGED <<outbuf, pipe, ready, toC>>
  PROVE  Paused'
  <1> DEFINE f == Frame(t, k, n, cOut + 1)
             p == Append(pending, f)
             left == {j \in Conns : streams[j] = "mapped"}
  <1>0. /\ Len(pending) \in Nat /\ paused \in BOOLEAN /\ ready \in BOOLEAN /\ blocked \in BOOLEAN
        /\ MaxBuffer \in Nat /\ HighWater \in Nat /\ pending \in Seq(Line) /\ Len(<<>>) = 0
    BY LengthTypes DEF TypeOK, CentralTypeOK
  <1>1. PICK b \in IF ready THEN BlockedAfter ELSE {blocked} :
           /\ blocked' = b
           /\ \/ Len(p) <= MaxBuffer /\ pending' = p /\ paused' = Flow(p, paused, ~ready \/ b)
              \/ \E order \in [1..Cardinality(left) -> left] :
                   LET closes == [i \in 1..Cardinality(left) |->
                                     Frame("close", order[i], 0, cOut + 1 + i)]
                   IN /\ pending' = closes
                      /\ paused' = (closes # <<>> /\ Flow(closes, FALSE, ~ready \/ b))
    BY Zenon DEF Send
  <1>2. b \in BOOLEAN /\ (~ready \/ b) \in BOOLEAN
    BY <1>0, BlockedType
  <1>3. BetweenPipes'
    BY DEF Paused, BetweenPipes
  <1>4. SUFFICES /\ paused' /\ ready' /\ ~blocked' => Len(pending') > LowWater
                 /\ Len(pending') > HighWater => paused'
                 /\ Len(pending') <= MaxBuffer
    BY <1>3 DEF Paused, Backpressure
  <1> HIDE DEF f
  <1>5. CASE Len(p) <= MaxBuffer /\ pending' = p /\ paused' = Flow(p, paused, ~ready \/ b)
    <2>1. Len(p) = Len(pending) + 1
      BY <1>0, AppendProperties
    <2>2. Len(p) \in Nat
      BY <1>0, <2>1
    <2> HIDE DEF p
    <2>3. /\ Len(p) > HighWater => paused'
          /\ paused' /\ ready /\ ~b => Len(p) > LowWater
      BY <1>0, <1>2, <1>5, <2>2, FlowDecides
    <2> QED
      BY <1>1, <1>5, <2>3
  <1>6. ASSUME NEW closes, closes \in Seq(Line), Len(closes) <= MaxConns, pending' = closes,
               paused' <=> closes # <<>> /\ Flow(closes, FALSE, ~ready \/ b)
        PROVE  /\ paused' /\ ready' /\ ~blocked' => Len(pending') > LowWater
               /\ Len(pending') > HighWater => paused'
               /\ Len(pending') <= MaxBuffer
    <2>1. Len(closes) \in Nat
      BY <1>6, SeqOps
    <2>2. /\ Len(closes) > HighWater => Flow(closes, FALSE, ~ready \/ b)
          /\ Flow(closes, FALSE, ~ready \/ b) /\ ready /\ ~b => Len(closes) > LowWater
      BY <1>2, <2>1, FlowDecides
    <2>3. Len(closes) > HighWater => closes # <<>>
      BY <1>0, <2>1
    <2>4. Len(closes) <= MaxBuffer
      BY <1>0, <1>6, <2>1, LimitsAssumption, BoundsAssumption
    <2> QED
      BY <1>1, <1>6, <2>2, <2>3, <2>4
  <1>7. ASSUME NEW order \in [1..Cardinality(left) -> left],
               pending' = [i \in 1..Cardinality(left) |-> Frame("close", order[i], 0, cOut + 1 + i)],
               paused' = (pending' # <<>> /\ Flow(pending', FALSE, ~ready \/ b))
        PROVE  /\ paused' /\ ready' /\ ~blocked' => Len(pending') > LowWater
               /\ Len(pending') > HighWater => paused'
               /\ Len(pending') <= MaxBuffer
    <2> DEFINE c == Cardinality(left)
    <2>1. c \in Nat /\ c <= MaxConns
      <3>1. IsFiniteSet(Conns) /\ Cardinality(Conns) = MaxConns
        BY BoundsAssumption, FS_Interval DEF Conns
      <3>2. left \subseteq Conns
        OBVIOUS
      <3> HIDE DEF left
      <3>3. IsFiniteSet(left) /\ Cardinality(left) <= MaxConns
        BY <3>1, <3>2, FS_Subset
      <3> QED
        BY <3>3, FS_CardinalityType
    <2>2. \A i \in 1..c : order[i] \in Conns
      BY <1>7
    <2> HIDE DEF c, left
    <2>3. sid \in [Conns -> Nat] /\ cOut \in Nat
      BY DEF TypeOK, DaemonTypeOK, CentralTypeOK
    <2>4. \A i \in 1..c : Frame("close", order[i], 0, cOut + 1 + i) \in Line
      BY <2>1, <2>2, <2>3, LineTypes DEF Kinds
    <2>5. pending' \in [1..c -> Line]
      BY <1>7, <2>4 DEF c
    <2>6. pending' \in Seq(Line) /\ Len(pending') = c
      BY <2>1, <2>5, SeqDef, LenProperties
    <2> HIDE DEF c
    <2> QED
      BY <1>6, <1>7, <2>1, <2>6
  <1> QED
    BY <1>1, <1>5, <1>7

\* What a route sends or ends.
LEMMA RouteStepPaused == TypeOK /\ Paused /\ RouteNext => Paused'
  <1> SUFFICES ASSUME TypeOK, Paused, NEW k \in Conns,
                      RouteSend(k) \/ RouteEnd(k) \/ RouteDestroy(k) \/ RouteFinish(k)
               PROVE  Paused'
    BY DEF RouteNext
  <1>0. stream \in [Conns -> StreamStates] /\ sentDn[k] + 1 \in Nat
    BY DEF TypeOK, CentralTypeOK, AgentTypeOK
  <1>1. CASE RouteSend(k)
    BY <1>0, <1>1, SendPaused DEF RouteSend, routeUnchanged, daemonVars, Kinds
  <1>2. CASE RouteEnd(k)
    <2>1. [stream EXCEPT ![k] = "ended"] \in [Conns -> StreamStates]
      BY <1>0 DEF StreamStates
    <2> QED
      BY <1>2, <2>1, SendPaused DEF RouteEnd, routeUnchanged, daemonVars, Kinds
  <1>3. CASE RouteDestroy(k)
    <2>1. [stream EXCEPT ![k] = "gone"] \in [Conns -> StreamStates]
      BY <1>0 DEF StreamStates
    <2> QED
      BY <1>3, <2>1, SendPaused DEF RouteDestroy, routeUnchanged, daemonVars, Kinds
  <1>4. CASE RouteFinish(k)
    BY <1>4 DEF RouteFinish, daemonVars, wireVars, Paused, Backpressure, BetweenPipes
  <1> QED
    BY <1>1, <1>2, <1>3, <1>4

\* #flow (exec-relay.ts:384): whatever pipes break, acks are late and buffers
\* overflow, streams stay paused only while there is no pipe, the pipe is
\* blocked or more than the low water is unacknowledged, and neither end holds
\* more than its limit.
THEOREM PausedForAReason == Spec => []Backpressure
  <1>1. Init => Paused
    BY EmptySeq, LimitsAssumption DEF Init, Paused, Backpressure, BetweenPipes
  <1>2. TypeOK /\ Paused /\ [Next]_vars => Paused'
    <2> SUFFICES ASSUME TypeOK, Paused, [Next]_vars PROVE Paused'
      OBVIOUS
    <2>1. CASE UNCHANGED vars
      BY <2>1 DEF vars, daemonVars, centralVars, wireVars, Paused, Backpressure, BetweenPipes
    <2> QED
      BY <2>1, AgentStepPaused, DaemonStepPaused, PipeStepPaused, CentralRecvPaused, RouteStepPaused
         DEF Next, FaultNext
  <1>3. Paused => Backpressure
    BY DEF Paused
  <1> QED
    BY <1>1, <1>2, <1>3, TypeCorrect, PTL DEF Spec

-----------------------------------------------------------------------------
(* The frames of a queue as a set, and their order.                        *)

Lines(q) == {q[i] : i \in DOMAIN q}
Frames(q) == {l \in Lines(q) : IsFrame(l)}

Increasing(q) ==
  \A i, j \in DOMAIN q : i < j /\ IsFrame(q[i]) /\ IsFrame(q[j]) => q[i].seq < q[j].seq

\* The lines of a queue are lines.
LEMMA LinesType ==
  ASSUME NEW q \in Seq(Line)
  PROVE  Lines(q) \subseteq Line /\ Frames(q) \subseteq Line
  BY Elements DEF Lines, Frames

\* What a line is made of.
LEMMA LineFields ==
  ASSUME NEW f \in Line
  PROVE  f.seq \in Nat /\ f.n \in Nat /\ f.id \in Nat /\ f.conn \in Nat /\ f.t \in Kinds
  BY DEF Line

\* The empty queue.
LEMMA NoLines == Lines(<<>>) = {} /\ Frames(<<>>) = {} /\ Increasing(<<>>)
  BY EmptySeq DEF Lines, Frames, Increasing

\* One queue after another.
LEMMA ConcatLines ==
  ASSUME NEW q \in Seq(Line), NEW r \in Seq(Line)
  PROVE  /\ Lines(q \o r) = Lines(q) \cup Lines(r)
         /\ Frames(q \o r) = Frames(q) \cup Frames(r)
         /\ /\ Increasing(q) /\ Increasing(r)
            /\ \A f \in Frames(q), g \in Frames(r) : f.seq < g.seq
            => Increasing(q \o r)
  <1>1. /\ Len(q) \in Nat /\ Len(r) \in Nat /\ DOMAIN q = 1..Len(q) /\ DOMAIN r = 1..Len(r)
        /\ DOMAIN (q \o r) = 1..(Len(q) + Len(r))
        /\ \A i \in 1..Len(q) : (q \o r)[i] = q[i]
        /\ \A i \in 1..Len(r) : (q \o r)[Len(q) + i] = r[i]
    BY Elements
  <1> DEFINE w == q \o r
  <1> HIDE DEF w
  <1>2. \A i \in DOMAIN w :
          \/ i \in DOMAIN q /\ w[i] = q[i]
          \/ i - Len(q) \in DOMAIN r /\ w[i] = r[i - Len(q)]
    <2> TAKE i \in DOMAIN w
    <2>1. \/ i \in 1..Len(q)
          \/ i - Len(q) \in 1..Len(r) /\ Len(q) + (i - Len(q)) = i
      BY <1>1 DEF w
    <2> DEFINE j == i - Len(q)
    <2> HIDE DEF j
    <2>2. \/ i \in 1..Len(q)
          \/ j \in 1..Len(r) /\ Len(q) + j = i
      BY <2>1 DEF j
    <2>3. CASE i \in 1..Len(q)
      BY <1>1, <2>3 DEF w
    <2>4. CASE j \in 1..Len(r) /\ Len(q) + j = i
      <3>1. w[Len(q) + j] = r[j]
        BY <1>1, <2>4 DEF w
      <3> QED
        BY <1>1, <2>4, <3>1 DEF j
    <2> QED
      BY <2>2, <2>3, <2>4
  <1>3. /\ \A i \in DOMAIN q : i \in DOMAIN w /\ w[i] = q[i]
        /\ \A i \in DOMAIN r : Len(q) + i \in DOMAIN w /\ w[Len(q) + i] = r[i]
    BY <1>1 DEF w
  <1>4. Lines(w) = Lines(q) \cup Lines(r)
    <2>1. \A l \in Lines(w) : l \in Lines(q) \/ l \in Lines(r)
      <3> TAKE l \in Lines(w)
      <3>1. PICK i \in DOMAIN w : l = w[i]
        BY DEF Lines
      <3> QED
        BY <1>2, <3>1 DEF Lines
    <2>2. Lines(q) \subseteq Lines(w) /\ Lines(r) \subseteq Lines(w)
      BY <1>3 DEF Lines
    <2> QED
      BY <2>1, <2>2
  <1>5. Frames(w) = Frames(q) \cup Frames(r)
    BY <1>4 DEF Frames
  <1>6. ASSUME Increasing(q), Increasing(r), \A f \in Frames(q), g \in Frames(r) : f.seq < g.seq
        PROVE  Increasing(w)
    <2> SUFFICES ASSUME NEW i \in DOMAIN w, NEW j \in DOMAIN w, i < j, IsFrame(w[i]), IsFrame(w[j])
                 PROVE  w[i].seq < w[j].seq
      BY DEF Increasing
    <2>0. i \in Nat /\ j \in Nat
      BY <1>1 DEF w
    <2>1. CASE i \in DOMAIN q /\ j \in DOMAIN q
      BY <1>3, <1>6, <2>1 DEF Increasing
    <2>2. CASE i \in DOMAIN q /\ j \notin DOMAIN q
      <3>1. w[i] \in Frames(q) /\ w[j] \in Frames(r)
        BY <1>2, <1>3, <2>2 DEF Frames, Lines
      <3> QED
        BY <1>6, <3>1
    <2>3. CASE i \notin DOMAIN q
      <3>1. j \notin DOMAIN q
        BY <1>1, <2>0, <2>3 DEF w
      <3>2. /\ i - Len(q) \in DOMAIN r /\ w[i] = r[i - Len(q)]
            /\ j - Len(q) \in DOMAIN r /\ w[j] = r[j - Len(q)]
        BY <1>2, <2>3, <3>1
      <3>3. i - Len(q) < j - Len(q)
        BY <1>1, <2>0
      <3> QED
        BY <1>6, <3>2, <3>3 DEF Increasing
    <2> QED
      BY <2>1, <2>2, <2>3
  <1> QED
    BY <1>4, <1>5, <1>6 DEF w

\* A line at the end of a queue, and a queue of one line.
LEMMA OneLine ==
  ASSUME NEW l \in Line
  PROVE  /\ <<l>> \in Seq(Line) /\ Lines(<<l>>) = {l} /\ Increasing(<<l>>)
         /\ Frames(<<l>>) = IF IsFrame(l) THEN {l} ELSE {}
         /\ Len(<<l>>) = 1 /\ <<l>>[1] = l
  <1>1. <<l>> \in Seq(Line) /\ DOMAIN <<l>> = {1} /\ <<l>>[1] = l /\ Len(<<l>>) = 1
    BY SMT
  <1>2. Lines(<<l>>) = {l}
    BY <1>1 DEF Lines
  <1>3. Increasing(<<l>>)
    BY <1>1 DEF Increasing
  <1> QED
    BY <1>1, <1>2, <1>3 DEF Frames

\* One line more.
LEMMA AppendLines ==
  ASSUME NEW q \in Seq(Line), NEW l \in Line
  PROVE  /\ Append(q, l) = q \o <<l>>
         /\ Lines(q \o <<l>>) = Lines(q) \cup {l}
         /\ Frames(q \o <<l>>) = Frames(q) \cup (IF IsFrame(l) THEN {l} ELSE {})
         /\ /\ Increasing(q)
            /\ IsFrame(l) => \A f \in Frames(q) : f.seq < l.seq
            => Increasing(q \o <<l>>)
  <1>1. <<l>> \in Seq(Line) /\ Lines(<<l>>) = {l} /\ Increasing(<<l>>)
        /\ Frames(<<l>>) = IF IsFrame(l) THEN {l} ELSE {}
    BY OneLine
  <1>2. Append(q, l) = q \o <<l>>
    BY AppendIsConcat
  <1> QED
    BY <1>1, <1>2, ConcatLines

\* The first line of a queue and the rest of it.
LEMMA TailLines ==
  ASSUME NEW q \in Seq(Line), q # <<>>
  PROVE  /\ Head(q) \in Lines(q) /\ Tail(q) \in Seq(Line)
         /\ Lines(q) = Lines(Tail(q)) \cup {Head(q)}
         /\ Frames(q) = Frames(Tail(q)) \cup (IF IsFrame(Head(q)) THEN {Head(q)} ELSE {})
         /\ Increasing(q) =>
              /\ Increasing(Tail(q))
              /\ IsFrame(Head(q)) => \A f \in Frames(Tail(q)) : Head(q).seq < f.seq
  <1>1. /\ Len(q) \in Nat /\ DOMAIN q = 1..Len(q)
        /\ 1 \in DOMAIN q /\ Head(q) = q[1]
        /\ DOMAIN Tail(q) = 1..(Len(q) - 1)
        /\ \A i \in DOMAIN Tail(q) : i + 1 \in DOMAIN q /\ Tail(q)[i] = q[i + 1]
    BY Elements
  <1>2. Tail(q) \in Seq(Line)
    BY SeqOps
  <1> DEFINE r == Tail(q)
  <1> HIDE DEF r
  <1>3. \A i \in DOMAIN q : i = 1 \/ (i - 1 \in DOMAIN r /\ r[i - 1] = q[i])
    <2> TAKE i \in DOMAIN q
    <2> DEFINE j == i - 1
    <2>1. i = 1 \/ (j \in 1..(Len(q) - 1) /\ j + 1 = i)
      BY <1>1
    <2> HIDE DEF j
    <2>2. ASSUME j \in 1..(Len(q) - 1), j + 1 = i
          PROVE  j \in DOMAIN r /\ r[j] = q[i]
      <3>1. r[j] = q[j + 1]
        BY <1>1, <2>2 DEF r
      <3> QED
        BY <1>1, <2>2, <3>1 DEF r
    <2> QED
      BY <2>1, <2>2 DEF j
  <1>4. Lines(q) = Lines(r) \cup {Head(q)}
    <2>1. \A l \in Lines(q) : l \in Lines(r) \/ l = Head(q)
      <3> TAKE l \in Lines(q)
      <3>1. PICK i \in DOMAIN q : l = q[i]
        BY DEF Lines
      <3> QED
        BY <1>1, <1>3, <3>1 DEF Lines
    <2>2. Lines(r) \subseteq Lines(q) /\ Head(q) \in Lines(q)
      BY <1>1 DEF Lines, r
    <2> QED
      BY <2>1, <2>2
  <1>5. ASSUME Increasing(q)
        PROVE  /\ Increasing(r)
               /\ IsFrame(Head(q)) => \A f \in Frames(r) : Head(q).seq < f.seq
    <2>1. \A i \in DOMAIN r : i + 1 \in DOMAIN q /\ r[i] = q[i + 1] /\ i \in Nat /\ 1 < i + 1
      BY <1>1 DEF r
    <2>2. \A i, j \in DOMAIN r : i < j => i + 1 < j + 1
      BY <2>1
    <2>3. Increasing(r)
      BY <1>5, <2>1, <2>2 DEF Increasing
    <2>4. ASSUME IsFrame(Head(q)), NEW f \in Frames(r) PROVE Head(q).seq < f.seq
      <3>1. PICK i \in DOMAIN r : f = r[i]
        BY <2>4 DEF Frames, Lines
      <3>2. IsFrame(q[1]) /\ IsFrame(q[i + 1]) /\ 1 < i + 1 /\ i + 1 \in DOMAIN q /\ f = q[i + 1]
        BY <1>1, <2>1, <2>4, <3>1 DEF Frames
      <3> QED
        BY <1>1, <1>5, <3>2 DEF Increasing
    <2> QED
      BY <2>3, <2>4
  <1> QED
    BY <1>2, <1>4, <1>5 DEF Frames, r

\* What arrives of a queue that is cut: no frame without those before it.
LEMMA CutLines ==
  ASSUME NEW q \in Seq(Line), NEW n \in 0..Len(q)
  PROVE  LET r == SubSeq(q, 1, n) IN
         /\ r \in Seq(Line) /\ Lines(r) \subseteq Lines(q) /\ Frames(r) \subseteq Frames(q)
         /\ DOMAIN r \subseteq DOMAIN q /\ \A i \in DOMAIN r : r[i] = q[i]
         /\ Increasing(q) =>
              /\ Increasing(r)
              /\ \A f \in Frames(r), g \in Frames(q) : g.seq <= f.seq => g \in Frames(r)
  <1> DEFINE r == SubSeq(q, 1, n)
  <1>1. /\ Len(q) \in Nat /\ DOMAIN q = 1..Len(q) /\ DOMAIN r = 1..n
        /\ \A i \in 1..n : i \in DOMAIN q /\ r[i] = q[i]
        /\ r \in Seq(Line) /\ n \in Nat /\ n <= Len(q)
    BY Elements, SeqOps
  <1> HIDE DEF r
  <1>2. Lines(r) \subseteq Lines(q)
    BY <1>1 DEF Lines
  <1>3. ASSUME Increasing(q) PROVE Increasing(r)
    BY <1>1, <1>3 DEF Increasing
  <1>4. ASSUME Increasing(q), NEW f \in Frames(r), NEW g \in Frames(q), g.seq <= f.seq
        PROVE  g \in Frames(r)
    <2>1. PICK i \in DOMAIN r : f = r[i]
      BY DEF Frames, Lines
    <2>2. PICK j \in DOMAIN q : g = q[j]
      BY DEF Frames, Lines
    <2>3. f \in Line /\ g \in Line
      BY <1>1, LinesType
    <2>4. f.seq \in Nat /\ g.seq \in Nat
      BY <2>3, LineFields
    <2>5. IsFrame(q[i]) /\ IsFrame(q[j]) /\ i \in DOMAIN q /\ q[i] = f
      BY <1>1, <2>1, <2>2 DEF Frames
    <2>6. ~(i < j)
      BY <1>4, <2>2, <2>4, <2>5 DEF Increasing
    <2>7. j \in DOMAIN r
      BY <1>1, <2>1, <2>2, <2>6
    <2> QED
      BY <1>1, <2>2, <2>5, <2>7 DEF Frames, Lines
  <1> QED
    BY <1>1, <1>2, <1>3, <1>4 DEF Frames, r

\* Of a queue of frames in order an acknowledgement leaves those after it.
LEMMA AfterFrames ==
  ASSUME NEW q \in Seq(Line), NEW s \in Nat, Increasing(q), \A i \in DOMAIN q : IsFrame(q[i])
  PROVE  LET r == After(q, s) IN
         /\ r \in Seq(Line) /\ Increasing(r) /\ \A i \in DOMAIN r : IsFrame(r[i])
         /\ Frames(r) = {f \in Frames(q) : f.seq > s}
  <1> DEFINE N == Len(q)
             seen == {i \in DOMAIN q : q[i].seq <= s}
             c == Cardinality(seen)
             r == SubSeq(q, 1 + c, N)
  <1>1. N \in Nat /\ DOMAIN q = 1..N /\ \A i \in 1..N : q[i] \in Line /\ q[i].seq \in Nat
    BY Elements, LineFields
  <1> HIDE DEF N
  <1>2. IsFiniteSet(1..N) /\ Cardinality(1..N) = N /\ seen \subseteq 1..N
    BY <1>1, FS_Interval
  <1> HIDE DEF seen
  <1>3. IsFiniteSet(seen) /\ c \in Nat /\ c <= N
    BY <1>2, FS_Subset, FS_CardinalityType
  <1> HIDE DEF c
  <1>4. \A i \in 1..N : q[i].seq > s <=> i > c
    <2> TAKE i \in 1..N
    <2>1. ASSUME q[i].seq > s PROVE i > c
      <3>1. seen \subseteq 1..(i - 1)
        <4> SUFFICES ASSUME NEW j \in seen PROVE j \in 1..(i - 1)
          OBVIOUS
        <4>1. j \in 1..N /\ q[j].seq <= s
          BY <1>1 DEF seen
        <4>2. ~(i < j) /\ i # j
          BY <1>1, <2>1, <4>1 DEF Increasing
        <4> QED
          BY <1>1, <4>1, <4>2
      <3>2. IsFiniteSet(1..(i - 1)) /\ Cardinality(1..(i - 1)) = i - 1
        <4>1. i - 1 \in Nat /\ 1 \in Nat
          BY <1>1
        <4>2. IsFiniteSet(1..(i - 1)) /\ Cardinality(1..(i - 1)) = IF 1 > i - 1 THEN 0 ELSE i - 1 - 1 + 1
          BY <4>1, FS_Interval
        <4> QED
          BY <4>1, <4>2
      <3>3. c <= i - 1
        BY <3>1, <3>2, FS_Subset DEF c
      <3> QED
        BY <1>1, <1>3, <3>3
    <2>2. ASSUME ~(q[i].seq > s) PROVE ~(i > c)
      <3>1. 1..i \subseteq seen
        <4> SUFFICES ASSUME NEW j \in 1..i PROVE j \in seen
          OBVIOUS
        <4>1. j \in 1..N /\ (j = i \/ j < i)
          BY <1>1
        <4>2. q[j].seq <= q[i].seq
          <5>1. CASE j = i
            BY <1>1, <5>1
          <5>2. CASE j < i
            BY <1>1, <4>1, <5>2 DEF Increasing
          <5> QED
            BY <4>1, <5>1, <5>2
        <4>3. q[j].seq <= s
          BY <1>1, <2>2, <4>1, <4>2
        <4> QED
          BY <1>1, <4>1, <4>3 DEF seen
      <3>2. Cardinality(1..i) = i
        <4>1. i \in Nat /\ 1 \in Nat /\ i >= 1
          BY <1>1
        <4>2. Cardinality(1..i) = IF 1 > i THEN 0 ELSE i - 1 + 1
          BY <4>1, FS_Interval
        <4> QED
          BY <4>1, <4>2
      <3>3. i <= c
        BY <1>3, <3>1, <3>2, FS_Subset DEF c
      <3> QED
        BY <1>1, <1>3, <3>3
    <2> QED
      BY <2>1, <2>2
  <1>5. /\ r \in Seq(Line) /\ DOMAIN r = 1..(N - c)
        /\ \A i \in 1..(N - c) : c + i \in 1..N /\ r[i] = q[c + i]
    <2>1. 1 + c \in Nat /\ 1 + c >= 1 /\ N <= Len(q)
      BY <1>1, <1>3 DEF N
    <2>2. /\ r \in Seq(Line)
          /\ Len(r) = IF 1 + c <= N THEN N - (1 + c) + 1 ELSE 0
          /\ \A i \in 1..(N - (1 + c) + 1) : r[i] = q[(1 + c) + i - 1]
      BY <1>1, <2>1, SubSeqLines
    <2> HIDE DEF r
    <2>3. Len(r) = N - c /\ N - (1 + c) + 1 = N - c
      BY <1>1, <1>3, <2>2
    <2>4. DOMAIN r = 1..(N - c)
      BY <2>2, <2>3, LenProperties
    <2>5. \A i \in 1..(N - c) : c + i \in 1..N /\ (1 + c) + i - 1 = c + i
      BY <1>1, <1>3
    <2> QED
      BY <2>2, <2>3, <2>4, <2>5
  <1> HIDE DEF r
  <1>6. Increasing(r) /\ \A i \in DOMAIN r : IsFrame(r[i])
    <2>1. \A i, j \in 1..(N - c) : i < j => c + i < c + j
      BY <1>1, <1>3
    <2> QED
      BY <1>1, <1>5, <2>1 DEF Increasing
  <1>7. Frames(r) = {f \in Frames(q) : f.seq > s}
    <2>1. ASSUME NEW f \in Frames(r) PROVE f \in Frames(q) /\ f.seq > s
      <3>1. PICK i \in 1..(N - c) : f = r[i]
        BY <1>5 DEF Frames, Lines
      <3>2. c + i \in 1..N /\ f = q[c + i] /\ c + i > c
        BY <1>1, <1>3, <1>5, <3>1
      <3> QED
        BY <1>1, <1>4, <3>2 DEF Frames, Lines
    <2>2. ASSUME NEW f \in Frames(q), f.seq > s PROVE f \in Frames(r)
      <3>1. PICK i \in 1..N : f = q[i]
        BY <1>1 DEF Frames, Lines
      <3>2. i - c \in 1..(N - c) /\ c + (i - c) = i
        BY <1>1, <1>3, <1>4, <2>2, <3>1
      <3>3. r[i - c] = f /\ i - c \in DOMAIN r
        BY <1>5, <3>1, <3>2
      <3> QED
        BY <3>3, <2>2 DEF Frames, Lines
    <2> QED
      BY <2>1, <2>2
  <1>8. After(q, s) = r
    BY DEF After, r, c, seen, N
  <1> QED
    BY <1>5, <1>6, <1>7, <1>8

\* An ack takes one frame out of the queue.
LEMMA AckedFrames ==
  ASSUME NEW q \in Seq(Line), NEW s \in Nat, Increasing(q), \A i \in DOMAIN q : IsFrame(q[i])
  PROVE  LET r == Acked(q, s) IN
         /\ r \in Seq(Line) /\ Increasing(r) /\ \A i \in DOMAIN r : IsFrame(r[i])
         /\ Frames(r) = {f \in Frames(q) : f.seq # s}
  <1>1. CASE \E i \in DOMAIN q : q[i].seq = s
    <2> DEFINE N == Len(q)
               i == CHOOSE i \in DOMAIN q : q[i].seq = s
               a == SubSeq(q, 1, i - 1)
               b == SubSeq(q, i + 1, N)
    <2>1. i \in 1..N /\ N \in Nat /\ DOMAIN q = 1..N /\ q[i].seq = s
          /\ \A j \in 1..N : q[j] \in Line /\ q[j].seq \in Nat
      BY <1>1, Elements, LineFields
    <2> HIDE DEF i
    <2>2. /\ a \in Seq(Line) /\ DOMAIN a = 1..(i - 1)
          /\ \A j \in 1..(i - 1) : j \in 1..N /\ a[j] = q[j]
      <3>1. i - 1 \in 0..Len(q)
        BY <2>1
      <3> QED
        BY <3>1, Elements, SeqOps
    <2>3. /\ b \in Seq(Line) /\ DOMAIN b = 1..(N - i)
          /\ \A j \in 1..(N - i) : i + j \in 1..N /\ b[j] = q[i + j]
      <3>1. i + 1 \in Nat /\ i + 1 >= 1 /\ N <= Len(q)
        BY <2>1
      <3>2. /\ b \in Seq(Line)
            /\ Len(b) = IF i + 1 <= N THEN N - (i + 1) + 1 ELSE 0
            /\ \A j \in 1..(N - (i + 1) + 1) : b[j] = q[(i + 1) + j - 1]
        BY <2>1, <3>1, SubSeqLines
      <3> HIDE DEF b, N
      <3>3. Len(b) = N - i /\ N - (i + 1) + 1 = N - i
        BY <2>1, <3>2
      <3>4. DOMAIN b = 1..(N - i)
        BY <3>2, <3>3, LenProperties
      <3>5. \A j \in 1..(N - i) : i + j \in 1..N /\ (i + 1) + j - 1 = i + j
        BY <2>1
      <3> QED
        BY <3>2, <3>3, <3>4, <3>5
    <2> HIDE DEF a, b, N
    <2>4. Increasing(a) /\ Increasing(b)
      <3>1. \A j, m \in 1..(N - i) : j < m => i + j < i + m
        BY <2>1
      <3> QED
        BY <2>1, <2>2, <2>3, <3>1 DEF Increasing
    <2>5. \A f \in Frames(a) : f \in Frames(q) /\ f.seq < s
      <3> SUFFICES ASSUME NEW j \in DOMAIN a PROVE q[j].seq < s /\ a[j] = q[j] /\ j \in DOMAIN q
        BY DEF Frames, Lines
      <3>1. j \in 1..N /\ a[j] = q[j] /\ j < i
        BY <2>1, <2>2
      <3> QED
        BY <2>1, <3>1 DEF Increasing
    <2>6. \A f \in Frames(b) : f \in Frames(q) /\ s < f.seq
      <3> SUFFICES ASSUME NEW j \in DOMAIN b PROVE s < q[i + j].seq /\ b[j] = q[i + j] /\ i + j \in DOMAIN q
        BY DEF Frames, Lines
      <3>1. i + j \in 1..N /\ b[j] = q[i + j] /\ i < i + j
        BY <2>1, <2>3
      <3> QED
        BY <2>1, <3>1 DEF Increasing
    <2>7. /\ a \o b \in Seq(Line) /\ Frames(a \o b) = Frames(a) \cup Frames(b)
          /\ Lines(a \o b) = Lines(a) \cup Lines(b) /\ Increasing(a \o b)
      <3>1. ASSUME NEW f \in Frames(a), NEW g \in Frames(b) PROVE f.seq < g.seq
        <4>1. f.seq \in Nat /\ g.seq \in Nat /\ f.seq < s /\ s < g.seq
          BY <2>2, <2>3, <2>5, <2>6, LinesType, LineFields
        <4> QED
          BY <4>1
      <3> QED
        BY <2>2, <2>3, <2>4, <3>1, ConcatLines, SeqOps
    <2>8. Frames(q) \subseteq Frames(a) \cup Frames(b) \cup {q[i]}
      <3> SUFFICES ASSUME NEW j \in 1..N, IsFrame(q[j])
                   PROVE  q[j] \in Frames(a) \cup Frames(b) \cup {q[i]}
        BY <2>1 DEF Frames, Lines
      <3>1. CASE j < i
        <4>1. j \in DOMAIN a
          BY <2>1, <2>2, <3>1
        <4> QED
          BY <2>2, <4>1 DEF Frames, Lines
      <3>2. CASE j > i
        <4>1. j - i \in DOMAIN b /\ i + (j - i) = j
          BY <2>1, <2>3, <3>2
        <4>2. b[j - i] = q[j]
          BY <2>3, <4>1
        <4> QED
          BY <4>1, <4>2 DEF Frames, Lines
      <3> QED
        BY <2>1, <3>1, <3>2
    <2>9. \A j \in DOMAIN (a \o b) : IsFrame((a \o b)[j])
      <3>1. \A l \in Lines(a) \cup Lines(b) : IsFrame(l)
        BY <2>1, <2>2, <2>3 DEF Lines
      <3> QED
        BY <2>7, <3>1 DEF Lines
    <2>10. Frames(a \o b) = {f \in Frames(q) : f.seq # s}
      <3>1. \A f \in Frames(q) : f.seq \in Nat
        BY LinesType, LineFields
      <3>2. \A f \in Frames(a) \cup Frames(b) : f \in Frames(q) /\ f.seq # s
        BY <2>5, <2>6, <3>1
      <3> QED
        BY <2>1, <2>7, <2>8, <3>2
    <2>11. Acked(q, s) = a \o b
      BY <1>1 DEF Acked, a, b, i, N
    <2> QED
      BY <2>7, <2>9, <2>10, <2>11
  <1>2. CASE ~ \E i \in DOMAIN q : q[i].seq = s
    <2>1. Acked(q, s) = q
      BY <1>2 DEF Acked
    <2>2. \A f \in Frames(q) : f.seq # s
      BY <1>2 DEF Frames, Lines
    <2> QED
      BY <2>1, <2>2
  <1> QED
    BY <1>1, <1>2

-----------------------------------------------------------------------------
(* One daemon: what the two ends owe each other.                           *)

\* The frames the daemon keeps and central has not taken; those central keeps
\* and the daemon has not; and those on their way to the daemon.
Due   == {f \in Frames(outbuf) : f.seq > cIn}
Owed  == {f \in Frames(pending) : f.seq > dIn}
OnWay == Frames(toD) \cup Frames(zombie)
UpFrames == Frames(outbuf) \cup Frames(toC)
DnFrames == Frames(pending) \cup OnWay

Key(f) == <<f.t, f.conn, f.n>>

\* The two ends of a connection, and what each has read of the other.
Ends ==
  /\ \A k \in Conns : conn[k] # "idle" => sid[k] < nextStream
  /\ \A j, k \in Conns : conn[j] # "idle" /\ conn[k] # "idle" /\ sid[j] = sid[k] => j = k
  /\ \A k \in Conns :
       /\ conn[k] = "idle" => stream[k] = "none" /\ sentUp[k] = 0
       /\ stream[k] = "none" => /\ gotUp[k] = <<>> /\ gotDn[k] = <<>> /\ queue[k] = <<>>
                                /\ sentDn[k] = 0
       /\ stream[k] \in {"left", "stuck"} => conn[k] = "closed"
       /\ queue[k] # <<>> => conn[k] = "open"

\* What was read of a connection is a beginning of what was sent.
Prefixes ==
  \A k \in Conns :
    /\ Len(gotUp[k]) <= sentUp[k]
    /\ Len(gotDn[k]) + Len(queue[k]) <= sentDn[k]
    /\ \A i \in DOMAIN gotUp[k] : gotUp[k][i] = <<k, i>>
    /\ \A i \in DOMAIN gotDn[k] : gotDn[k][i] = <<k, i>>
    /\ \A i \in DOMAIN queue[k] : queue[k][i] = <<k, Len(gotDn[k]) + i>>

\* What is on the pipes between two ends that are not at the same point.
Pipes ==
  /\ pipe \in {"none", "missing"} => ~ready /\ toC = <<>>
  /\ pipe = "open" /\ client # "cur" => ~ready /\ toC = <<>>
  /\ client # "cur" => Frames(toD) = {}
  /\ client # "old" => zombie = <<>>
  /\ client = "old" => toC = <<>>
  /\ \A i \in DOMAIN toD : toD[i].t = "hello" =>
       /\ i = 1 /\ client # "cur" /\ toC = <<>> /\ toD[i].n = cIn /\ toD[i].seq >= dIn
       /\ \A f \in Frames(zombie) : f.seq <= toD[i].seq
  /\ \A i \in DOMAIN toC : toC[i].t = "ready" =>
       /\ i = 1 /\ ~ready /\ toC[i].seq >= cIn /\ toC[i].n = dIn /\ Frames(toD) = {}

\* A frame towards central is one the daemon sent on a connection it has, and
\* is known by its number as by what it carries.
UpSound ==
  /\ \A f \in UpFrames :
       /\ f.conn \in Conns /\ conn[f.conn] # "idle" /\ f.id = sid[f.conn] /\ f.seq <= dOut
       /\ f.t = "data" => f.n \in 1..sentUp[f.conn]
       /\ f.t # "data" => f.n = 0
       /\ f.t = "close" => conn[f.conn] = "closed"
  /\ \A f, g \in UpFrames : f.seq = g.seq \/ Key(f) = Key(g) => f = g

\* A reset on the pipe comes after the frames it made void and before those kept.
ResetsClear(q) ==
  \A i \in DOMAIN q : q[i].t = "reset" =>
    \A g \in Frames(outbuf) :
      g.seq > cIn /\ \A j \in 1..(i - 1) : IsFrame(q[j]) => q[j].seq < g.seq

\* The frames on the pipe are those central takes next, in order.
UpWire ==
  /\ cIn <= dOut
  /\ Increasing(outbuf) /\ \A i \in DOMAIN outbuf : IsFrame(outbuf[i])
  /\ Increasing(toC) /\ ResetsClear(toC)
  /\ \A f \in Frames(toC) : f.seq > cIn
  /\ \A f \in Frames(toC), g \in Due : g.seq <= f.seq => g \in Frames(toC)
  /\ client = "cur" /\ pipe = "open" => Due \subseteq Frames(toC)

\* An ack on its way is of frames central took.
UpAcks ==
  \A a \in Lines(toD) \cup Lines(zombie) : a.t = "ack" =>
    a.seq <= dOut /\ \A g \in Frames(outbuf) : g.seq <= a.seq => g.seq <= cIn

\* The frames of F of a connection are all there is from what its route read on.
UpNext(F) ==
  \A f \in F :
    /\ f.t = "open" => stream[f.conn] = "none"
    /\ f.t = "data" /\ stream[f.conn] \in {"none", "mapped"} =>
         \/ f.n = Len(gotUp[f.conn]) + 1
         \/ \E g \in F : g.t = "data" /\ g.conn = f.conn /\ g.n + 1 = f.n /\ g.seq < f.seq
    /\ f.t # "open" /\ stream[f.conn] = "none" =>
         \E g \in F : g.t = "open" /\ g.conn = f.conn /\ g.seq < f.seq

\* The daemon keeps what a route that still reads has not read.
UpHeld ==
  \A k \in Conns : conn[k] = "open" =>
    /\ stream[k] \in {"none", "mapped"} =>
         \A n \in (Len(gotUp[k]) + 1)..sentUp[k] :
           \E g \in Due : g.t = "data" /\ g.conn = k /\ g.n = n
    /\ stream[k] = "none" => \E g \in Due : g.t = "open" /\ g.conn = k

UpInv == UpSound /\ UpWire /\ UpAcks /\ UpNext(Due) /\ UpNext(Frames(toC)) /\ UpHeld

\* The same towards the agent.
DnSound ==
  /\ \A f \in DnFrames :
       /\ f.t \in {"data", "close"}
       /\ f.conn \in Conns /\ stream[f.conn] # "none" /\ f.id = sid[f.conn] /\ f.seq <= cOut
       /\ f.t = "data" => f.n \in 1..sentDn[f.conn]
       /\ f.t = "close" => f.n = 0 /\ stream[f.conn] # "mapped"
  /\ \A f, g \in DnFrames : f.seq = g.seq \/ Key(f) = Key(g) => f = g

DnWire ==
  /\ dIn <= cOut
  /\ \A i \in DOMAIN pending : IsFrame(pending[i])
  /\ Increasing(pending) /\ Increasing(toD) /\ Increasing(zombie)
  /\ \A f \in OnWay : f.seq > dIn
  /\ \A f \in OnWay, g \in Owed : g.seq <= f.seq => g \in OnWay
  /\ ready /\ pipe = "open" => Owed \subseteq OnWay

DnAcks == \A a \in Lines(toC) : a.t = "ack" => a.seq <= dIn

DnNext(F) ==
  \A f \in F : f.t = "data" /\ conn[f.conn] = "open" =>
    \/ f.n = Len(gotDn[f.conn]) + Len(queue[f.conn]) + 1
    \/ \E g \in F : g.t = "data" /\ g.conn = f.conn /\ g.n + 1 = f.n /\ g.seq < f.seq

DnKept ==
  \A k \in Conns : stream[k] = "mapped" /\ conn[k] = "open" =>
    \A n \in (Len(gotDn[k]) + Len(queue[k]) + 1)..sentDn[k] :
      \E g \in Owed : g.t = "data" /\ g.conn = k /\ g.n = n

DnInv == DnSound /\ DnWire /\ DnAcks /\ DnNext(Owed) /\ DnNext(OnWay) /\ DnKept

\* Without a reset, the close of a connection the agent ended is kept until
\* its route saw it.
ClosesDue ==
  resets = 0 =>
    /\ \A i \in DOMAIN toC : toC[i].t # "reset"
    /\ \A k \in Conns : conn[k] = "closed" /\ stream[k] \in {"none", "mapped"} =>
         \E g \in Due : g.t = "close" /\ g.conn = k

Transit == Ends /\ Prefixes /\ Pipes /\ UpInv /\ DnInv /\ ClosesDue

-----------------------------------------------------------------------------
(* Steps that leave one direction as it is.                                *)

\* What these proofs use of TypeOK.
LEMMA WireTypes ==
  TypeOK => /\ outbuf \in Seq(Line) /\ pending \in Seq(Line)
            /\ toD \in Seq(Line) /\ toC \in Seq(Line) /\ zombie \in Seq(Line)
            /\ dOut \in Nat /\ dIn \in Nat /\ cOut \in Nat /\ cIn \in Nat
            /\ nextStream \in Nat /\ sid \in [Conns -> Nat] /\ resets \in Nat
            /\ stream \in [Conns -> StreamStates]
            /\ conn \in [Conns -> {"idle", "open", "closed"}]
            /\ sentUp \in [Conns -> Nat] /\ sentDn \in [Conns -> Nat]
            /\ ready \in BOOLEAN
  BY DEF TypeOK, DaemonTypeOK, CentralTypeOK, AgentTypeOK

\* The same of what went through.
LEMMA ReadTypes ==
  TypeOK => \A k \in Conns :
     /\ gotUp[k] \in Seq(Chunk) /\ gotDn[k] \in Seq(Chunk) /\ queue[k] \in Seq(Chunk)
     /\ Len(gotUp[k]) \in Nat /\ Len(gotDn[k]) \in Nat /\ Len(queue[k]) \in Nat
     /\ sentUp[k] \in Nat /\ sentDn[k] \in Nat
  BY LenProperties DEF TypeOK, AgentTypeOK

\* Every frame has a number, and so has the chunk it carries.
LEMMA FrameTypes ==
  ASSUME TypeOK
  PROVE  /\ UpFrames \subseteq Line /\ DnFrames \subseteq Line
         /\ \A f \in UpFrames \cup DnFrames : f.seq \in Nat /\ f.n \in Nat
         /\ Due \subseteq UpFrames /\ Owed \subseteq DnFrames /\ OnWay \subseteq DnFrames
         /\ Frames(toC) \subseteq UpFrames /\ Frames(outbuf) \subseteq UpFrames
         /\ Frames(pending) \subseteq DnFrames
  <1>1. UpFrames \subseteq Line /\ DnFrames \subseteq Line
    BY WireTypes, LinesType DEF UpFrames, DnFrames, OnWay
  <1>2. \A f \in UpFrames \cup DnFrames : f.seq \in Nat /\ f.n \in Nat
    BY <1>1, LineFields
  <1> QED
    BY <1>1, <1>2 DEF UpFrames, DnFrames, Due, Owed, OnWay

\* A step that sends, takes and drops nothing towards central: the pipe may be
\* cut, and connections and streams may end.
LEMMA UpStays ==
  ASSUME TypeOK, UpInv,
         UNCHANGED <<dOut, sid, gotUp, sentUp>>,
         cIn' \in Nat, cIn' <= cIn, Due' = Due, Frames(outbuf') \subseteq Frames(outbuf),
         Increasing(outbuf'), \A i \in DOMAIN outbuf' : IsFrame(outbuf'[i]),
         \A k \in Conns : conn'[k] = conn[k] \/ (conn[k] = "open" /\ conn'[k] = "closed"),
         \A k \in Conns : \/ stream'[k] = stream[k]
                          \/ stream[k] # "none" /\ stream'[k] \notin {"none", "mapped"},
         Frames(toC') \subseteq Frames(toC), Increasing(toC'), ResetsClear(toC)',
         \A f \in Frames(toC'), g \in Frames(toC) : g.seq <= f.seq => g \in Frames(toC'),
         client' = "cur" /\ pipe' = "open" =>
           client = "cur" /\ pipe = "open" /\ Frames(toC') = Frames(toC),
         \A a \in Lines(toD') \cup Lines(zombie') : a.t = "ack" => a \in Lines(toD) \cup Lines(zombie)
  PROVE  UpInv'
  <1>1. UpFrames' \subseteq UpFrames
    BY DEF UpFrames
  <1>2. UpSound'
    BY <1>1 DEF UpInv, UpSound, Key
  <1>3. UpWire'
    <2>1. UpWire
      BY DEF UpInv
    <2>2. \A f \in Frames(toC'), g \in Due : g.seq <= f.seq => g \in Frames(toC')
      BY <2>1 DEF UpWire
    <2>3. client' = "cur" /\ pipe' = "open" => Due' \subseteq Frames(toC')
      BY <2>1 DEF UpWire
    <2>4. cIn' <= dOut' /\ \A f \in Frames(toC') : f.seq > cIn'
      BY <2>1, WireTypes, FrameTypes DEF UpWire
    <2>5. \A f \in Frames(toC'), g \in Due' : g.seq <= f.seq => g \in Frames(toC')
      BY <2>2
    <2> QED
      BY <2>3, <2>4, <2>5 DEF UpWire, Increasing, IsFrame
  <1>4. UpAcks'
    <2> SUFFICES ASSUME NEW a \in Lines(toD') \cup Lines(zombie'), a.t = "ack"
                 PROVE  a.seq <= dOut' /\ \A g \in Frames(outbuf') : g.seq <= a.seq => g.seq <= cIn'
      BY DEF UpAcks
    <2>1. a.seq <= dOut /\ \A g \in Frames(outbuf) : g.seq <= a.seq => g.seq <= cIn
      BY DEF UpInv, UpAcks
    <2>2. ASSUME NEW g \in Frames(outbuf'), g.seq <= cIn PROVE g.seq <= cIn'
      <3>1. g \in Frames(outbuf) /\ g.seq \in Nat
        BY FrameTypes
      <3>2. g \notin Due
        BY <2>2, <3>1, WireTypes DEF Due
      <3> QED
        BY <2>2, <3>1, <3>2 DEF Due
    <2> QED
      BY <2>1, <2>2
  <1>5. ASSUME NEW F, NEW G, UpNext(F), G \subseteq F, \A f \in F : f.conn \in Conns,
               \A f \in G, g \in F : g.seq < f.seq => g \in G
        PROVE  \A f \in G :
                 /\ f.t = "open" => stream'[f.conn] = "none"
                 /\ f.t = "data" /\ stream'[f.conn] \in {"none", "mapped"} =>
                      \/ f.n = Len(gotUp'[f.conn]) + 1
                      \/ \E g \in G : g.t = "data" /\ g.conn = f.conn /\ g.n + 1 = f.n /\ g.seq < f.seq
                 /\ f.t # "open" /\ stream'[f.conn] = "none" =>
                      \E g \in G : g.t = "open" /\ g.conn = f.conn /\ g.seq < f.seq
    <2> SUFFICES ASSUME NEW f \in G
                 PROVE  /\ f.t = "open" => stream'[f.conn] = "none"
                        /\ f.t = "data" /\ stream'[f.conn] \in {"none", "mapped"} =>
                             \/ f.n = Len(gotUp'[f.conn]) + 1
                             \/ \E g \in G : g.t = "data" /\ g.conn = f.conn /\ g.n + 1 = f.n /\ g.seq < f.seq
                        /\ f.t # "open" /\ stream'[f.conn] = "none" =>
                             \E g \in G : g.t = "open" /\ g.conn = f.conn /\ g.seq < f.seq
      OBVIOUS
    <2>1. f \in F /\ f.conn \in Conns
      BY <1>5
    <2>2. \/ stream'[f.conn] = stream[f.conn]
          \/ stream[f.conn] # "none" /\ stream'[f.conn] \notin {"none", "mapped"}
      BY <2>1
    <2> QED
      BY <1>5, <2>1, <2>2 DEF UpNext
  <1>6. \A f \in UpFrames : f.conn \in Conns /\ f.seq \in Nat
    BY FrameTypes DEF UpInv, UpSound
  <1>7. UpNext(Due)'
    <2>1. \A f \in Due : f.conn \in Conns
      BY <1>6, FrameTypes
    <2>2. UpNext(Due)
      BY DEF UpInv
    <2> HIDE DEF Due
    <2> QED
      BY <1>5, <2>1, <2>2 DEF UpNext
  <1>8. UpNext(Frames(toC))'
    <2>1. \A f \in Frames(toC) : f.conn \in Conns /\ f.seq \in Nat
      BY <1>6, FrameTypes
    <2>2. \A f \in Frames(toC'), g \in Frames(toC) : g.seq < f.seq => g \in Frames(toC')
      BY <2>1
    <2>3. UpNext(Frames(toC))
      BY DEF UpInv
    <2> QED
      BY <1>5, <2>1, <2>2, <2>3 DEF UpNext
  <1>9. UpHeld'
    <2> SUFFICES ASSUME NEW k \in Conns, conn'[k] = "open"
                 PROVE  /\ stream'[k] \in {"none", "mapped"} =>
                             \A n \in (Len(gotUp[k]) + 1)..sentUp[k] :
                               \E g \in Due : g.t = "data" /\ g.conn = k /\ g.n = n
                        /\ stream'[k] = "none" => \E g \in Due : g.t = "open" /\ g.conn = k
      BY DEF UpHeld
    <2>1. conn[k] = "open"
      OBVIOUS
    <2>2. \/ stream'[k] = stream[k]
          \/ stream[k] # "none" /\ stream'[k] \notin {"none", "mapped"}
      OBVIOUS
    <2> QED
      BY <2>1, <2>2 DEF UpInv, UpHeld
  <1> QED
    BY <1>2, <1>3, <1>4, <1>7, <1>8, <1>9 DEF UpInv

\* A step that sends and takes nothing towards the agent: the pipe may be cut,
\* frames that were taken may be dropped, or all of them with their streams.
LEMMA DnStays ==
  ASSUME TypeOK, TypeOK', DnInv,
         UNCHANGED <<dIn, cOut, sentDn>>,
         \A k \in Conns : stream[k] # "none" =>
           sid'[k] = sid[k] /\ stream'[k] # "none" /\ (stream[k] # "mapped" => stream'[k] # "mapped"),
         \A k \in Conns : stream[k] # "none" /\ conn'[k] = "open" =>
           conn[k] = "open" /\ Len(gotDn'[k]) + Len(queue'[k]) = Len(gotDn[k]) + Len(queue[k]),
         \A k \in Conns : stream[k] = "none" => sentDn[k] = 0,
         Frames(pending') \subseteq Frames(pending), Increasing(pending'),
         \A i \in DOMAIN pending' : IsFrame(pending'[i]),
         Owed' = Owed \/ (Owed' = {} /\ \A k \in Conns : stream'[k] # "mapped"),
         Increasing(toD'), Increasing(zombie'), OnWay' \subseteq OnWay,
         \A f \in OnWay', g \in OnWay : g.seq <= f.seq => g \in OnWay',
         ready' /\ pipe' = "open" => ready /\ pipe = "open" /\ OnWay' = OnWay,
         \A a \in Lines(toC') : a.t = "ack" => a \in Lines(toC)
  PROVE  DnInv'
  <1>1. DnFrames' \subseteq DnFrames /\ Owed' \subseteq Owed
    BY DEF DnFrames
  <1>2. DnSound'
    <2>1. \A f \in DnFrames' :
            /\ f.t \in {"data", "close"} /\ f.conn \in Conns /\ stream[f.conn] # "none"
            /\ f.id = sid[f.conn] /\ f.seq <= cOut
            /\ f.t = "data" => f.n \in 1..sentDn[f.conn]
            /\ f.t = "close" => f.n = 0 /\ stream[f.conn] # "mapped"
      BY <1>1 DEF DnInv, DnSound
    <2>2. \A f, g \in DnFrames' : f.seq = g.seq \/ Key(f) = Key(g) => f = g
      BY <1>1 DEF DnInv, DnSound
    <2> QED
      BY <2>1, <2>2 DEF DnSound, Key
  <1>3. DnWire'
    <2>1. DnWire
      BY DEF DnInv
    <2>2. \A f \in OnWay', g \in Owed' : g.seq <= f.seq => g \in OnWay'
      BY <1>1, <2>1 DEF DnWire
    <2>3. ready' /\ pipe' = "open" => Owed' \subseteq OnWay'
      BY <1>1, <2>1 DEF DnWire
    <2>4. Increasing(pending)' /\ Increasing(toD)' /\ Increasing(zombie)'
      BY DEF Increasing, IsFrame
    <2> QED
      BY <2>1, <2>2, <2>3, <2>4 DEF DnWire, IsFrame
  <1>4. DnAcks'
    BY DEF DnInv, DnAcks
  <1>5. \A f \in DnFrames : f.conn \in Conns /\ stream[f.conn] # "none" /\ f.seq \in Nat
    BY FrameTypes DEF DnInv, DnSound
  <1>6. ASSUME NEW F, NEW G, DnNext(F), G \subseteq F,
               \A f \in F : f.conn \in Conns /\ stream[f.conn] # "none",
               \A f \in G, g \in F : g.seq < f.seq => g \in G
        PROVE  \A f \in G : f.t = "data" /\ conn'[f.conn] = "open" =>
                 \/ f.n = Len(gotDn'[f.conn]) + Len(queue'[f.conn]) + 1
                 \/ \E g \in G : g.t = "data" /\ g.conn = f.conn /\ g.n + 1 = f.n /\ g.seq < f.seq
    <2> SUFFICES ASSUME NEW f \in G, f.t = "data", conn'[f.conn] = "open"
                 PROVE  \/ f.n = Len(gotDn'[f.conn]) + Len(queue'[f.conn]) + 1
                        \/ \E g \in G : g.t = "data" /\ g.conn = f.conn /\ g.n + 1 = f.n /\ g.seq < f.seq
      OBVIOUS
    <2>1. f \in F /\ f.conn \in Conns /\ stream[f.conn] # "none"
      BY <1>6
    <2>2. /\ conn[f.conn] = "open"
          /\ Len(gotDn'[f.conn]) + Len(queue'[f.conn]) = Len(gotDn[f.conn]) + Len(queue[f.conn])
      BY <2>1
    <2> QED
      BY <1>6, <2>1, <2>2 DEF DnNext
  <1>7. DnNext(Owed)'
    <2>1. \A f \in Owed : f.conn \in Conns /\ stream[f.conn] # "none"
      BY <1>5, FrameTypes
    <2>2. DnNext(Owed)
      BY DEF DnInv
    <2>3. CASE Owed' = Owed
      <3> HIDE DEF Owed
      <3>1. \A f \in Owed : f.t = "data" /\ conn'[f.conn] = "open" =>
              \/ f.n = Len(gotDn'[f.conn]) + Len(queue'[f.conn]) + 1
              \/ \E g \in Owed : g.t = "data" /\ g.conn = f.conn /\ g.n + 1 = f.n /\ g.seq < f.seq
        BY <1>6, <2>1, <2>2
      <3> QED
        BY <2>3, <3>1 DEF DnNext
    <2>4. CASE Owed' = {}
      BY <2>4 DEF DnNext
    <2> QED
      BY <2>3, <2>4
  <1>8. DnNext(OnWay)'
    <2>1. \A f \in OnWay : f.conn \in Conns /\ stream[f.conn] # "none" /\ f.seq \in Nat
      BY <1>5, FrameTypes
    <2>2. DnNext(OnWay)
      BY DEF DnInv
    <2>3. \A f \in OnWay', g \in OnWay : g.seq < f.seq => g \in OnWay'
      BY <2>1
    <2> HIDE DEF OnWay
    <2>4. \A f \in OnWay' : f.t = "data" /\ conn'[f.conn] = "open" =>
              \/ f.n = Len(gotDn'[f.conn]) + Len(queue'[f.conn]) + 1
              \/ \E g \in OnWay' : g.t = "data" /\ g.conn = f.conn /\ g.n + 1 = f.n /\ g.seq < f.seq
      BY <1>6, <2>1, <2>2, <2>3
    <2> QED
      BY <2>4 DEF DnNext
  <1>9. DnKept'
    <2> SUFFICES ASSUME NEW k \in Conns, stream'[k] = "mapped", conn'[k] = "open",
                        NEW n \in (Len(gotDn'[k]) + Len(queue'[k]) + 1)..sentDn[k]
                 PROVE  \E g \in Owed' : g.t = "data" /\ g.conn = k /\ g.n = n
      BY DEF DnKept
    <2>1. CASE stream[k] = "none"
      <3>1. sentDn[k] = 0 /\ Len(gotDn'[k]) \in Nat /\ Len(queue'[k]) \in Nat
        <4>1. gotDn'[k] \in Seq(Chunk) /\ queue'[k] \in Seq(Chunk)
          BY DEF TypeOK, AgentTypeOK
        <4>2. Len(gotDn'[k]) \in Nat /\ Len(queue'[k]) \in Nat
          BY <4>1, LenProperties
        <4> QED
          BY <2>1, <4>2
      <3>2. \A a, b \in Nat : (a + b + 1)..0 = {}
        OBVIOUS
      <3>3. (Len(gotDn'[k]) + Len(queue'[k]) + 1)..sentDn[k] = {}
        BY <3>1, <3>2
      <3> QED
        BY <3>3
    <2>2. CASE stream[k] # "none"
      <3>1. /\ stream[k] = "mapped" /\ conn[k] = "open" /\ Owed' = Owed
            /\ Len(gotDn'[k]) + Len(queue'[k]) = Len(gotDn[k]) + Len(queue[k])
        BY <2>2
      <3>2. n \in (Len(gotDn[k]) + Len(queue[k]) + 1)..sentDn[k]
        BY <3>1
      <3> QED
        BY <3>1, <3>2 DEF DnInv, DnKept
    <2> QED
      BY <2>1, <2>2
  <1> QED
    BY <1>2, <1>3, <1>4, <1>7, <1>8, <1>9 DEF DnInv

\* A line at the end of the pipe to central, where one is attached.
LEMMA ToClientLines ==
  ASSUME toC \in Seq(Line), NEW l \in Line, ToClient(<<l>>), Increasing(toC),
         IsFrame(l) => \A f \in Frames(toC) : f.seq < l.seq
  PROVE  /\ Increasing(toC')
         /\ Lines(toC') \subseteq Lines(toC) \cup {l} /\ Lines(toC) \subseteq Lines(toC')
         /\ Frames(toC') \subseteq Frames(toC) \cup (IF IsFrame(l) THEN {l} ELSE {})
         /\ Frames(toC) \subseteq Frames(toC')
         /\ client = "cur" /\ pipe = "open" => l \in Lines(toC')
         /\ ~(client = "cur" /\ pipe = "open") => toC' = toC
         /\ \A i \in DOMAIN toC' : \/ i \in DOMAIN toC /\ toC'[i] = toC[i]
                                   \/ i = Len(toC) + 1 /\ toC'[i] = l
         /\ \A i \in DOMAIN toC : toC'[i] = toC[i]
         /\ DOMAIN toC = 1..Len(toC) /\ Len(toC) \in Nat
  <1>1. CASE client = "cur" /\ pipe = "open"
    <2>1. toC' = toC \o <<l>>
      BY <1>1 DEF ToClient
    <2>2. /\ Lines(toC') = Lines(toC) \cup {l} /\ Increasing(toC')
          /\ Frames(toC') = Frames(toC) \cup (IF IsFrame(l) THEN {l} ELSE {})
      BY <2>1, AppendLines
    <2>3. /\ DOMAIN toC = 1..Len(toC) /\ Len(toC) \in Nat
          /\ DOMAIN toC' = 1..(Len(toC) + 1)
          /\ \A i \in 1..Len(toC) : toC'[i] = toC[i]
          /\ toC'[Len(toC) + 1] = l
      BY <2>1, Elements, OneLine
    <2> QED
      BY <1>1, <2>2, <2>3
  <1>2. CASE ~(client = "cur" /\ pipe = "open")
    <2>1. toC' = toC
      BY <1>2 DEF ToClient
    <2> QED
      BY <1>2, <2>1, Elements
  <1> QED
    BY <1>1, <1>2

\* emit, within the daemon's limit.
LEMMA EmitUp ==
  ASSUME TypeOK, TypeOK', UpInv,
         NEW k \in Conns, NEW f \in Line, IsFrame(f), f.seq = dOut + 1, f.conn = k, f.id = sid'[k],
         \A g \in UpFrames : Key(g) # Key(f),
         outbuf' = Append(outbuf, f), dOut' = dOut + 1, ToClient(<<f>>),
         UNCHANGED <<cIn, stream, gotUp, toD, zombie, client, pipe>>,
         \A j \in Conns : conn[j] # "idle" =>
           /\ sid'[j] = sid[j] /\ conn'[j] # "idle" /\ sentUp[j] <= sentUp'[j]
           /\ conn[j] = "closed" => conn'[j] = "closed",
         conn'[k] # "idle",
         f.t = "data" => f.n \in 1..sentUp'[k],
         f.t # "data" => f.n = 0,
         f.t = "close" => conn'[k] = "closed",
         f.t = "open" => stream[k] = "none",
         f.t = "data" /\ stream[k] \in {"none", "mapped"} =>
           \/ f.n = Len(gotUp[k]) + 1
           \/ \E g \in Due : g.t = "data" /\ g.conn = k /\ g.n + 1 = f.n,
         f.t # "open" /\ stream[k] = "none" => \E g \in Due : g.t = "open" /\ g.conn = k,
         \A j \in Conns, n \in Nat : conn'[j] = "open" /\ n <= sentUp'[j] =>
           \/ conn[j] = "open" /\ n <= sentUp[j]
           \/ j = k /\ f.t = "data" /\ f.n = n
           \/ n = 0,
         \A j \in Conns : conn'[j] = "open" => conn[j] = "open" \/ (j = k /\ f.t = "open")
  PROVE  UpInv' /\ Due' = Due \cup {f} /\ f \notin Due
  <1> USE DEF UpInv
  <1>1. /\ outbuf \in Seq(Line) /\ toC \in Seq(Line) /\ dOut \in Nat /\ cIn \in Nat
        /\ \A g \in UpFrames : g.seq \in Nat /\ g.conn \in Conns /\ conn[g.conn] # "idle"
                               /\ g.seq <= dOut
    BY WireTypes, FrameTypes DEF UpSound
  <1>2. \A g \in UpFrames : g.seq < f.seq
    BY <1>1
  <1>3. /\ Frames(outbuf') = Frames(outbuf) \cup {f} /\ Increasing(outbuf')
        /\ \A i \in DOMAIN outbuf' : IsFrame(outbuf'[i])
    <2>1. /\ outbuf' = outbuf \o <<f>> /\ Frames(outbuf \o <<f>>) = Frames(outbuf) \cup {f}
          /\ Lines(outbuf \o <<f>>) = Lines(outbuf) \cup {f}
          /\ Increasing(outbuf \o <<f>>)
      BY <1>1, <1>2, AppendLines, FrameTypes DEF UpWire
    <2>2. \A l \in Lines(outbuf) : IsFrame(l)
      BY DEF UpWire, Lines
    <2>3. \A l \in Lines(outbuf') : IsFrame(l)
      BY <2>1, <2>2
    <2> QED
      BY <2>1, <2>3 DEF Lines
  <1>4. /\ Increasing(toC') /\ Frames(toC') \subseteq Frames(toC) \cup {f}
        /\ Frames(toC) \subseteq Frames(toC')
        /\ client = "cur" /\ pipe = "open" => f \in Frames(toC')
        /\ ~(client = "cur" /\ pipe = "open") => toC' = toC
        /\ \A i \in DOMAIN toC' : \/ i \in DOMAIN toC /\ toC'[i] = toC[i]
                                  \/ i = Len(toC) + 1 /\ toC'[i] = f
        /\ \A i \in DOMAIN toC : toC'[i] = toC[i]
        /\ DOMAIN toC = 1..Len(toC) /\ Len(toC) \in Nat
    <2>1. Increasing(toC) /\ \A g \in Frames(toC) : g.seq < f.seq
      BY <1>2, FrameTypes DEF UpWire
    <2> QED
      BY <1>1, <2>1, ToClientLines DEF Frames
  <1>5. Due' = Due \cup {f} /\ f \notin Due /\ f \notin UpFrames
    <2>1. f.seq > cIn
      BY <1>1 DEF UpWire
    <2>2. f \notin UpFrames
      BY <1>1, <1>2
    <2> QED
      BY <1>3, <2>1, <2>2, FrameTypes DEF Due
  <1>6. UpFrames' = UpFrames \cup {f}
    BY <1>3, <1>4 DEF UpFrames
  <1>7. UpSound'
    <2>1. ASSUME NEW g \in UpFrames'
          PROVE  /\ g.conn \in Conns /\ conn'[g.conn] # "idle" /\ g.id = sid'[g.conn] /\ g.seq <= dOut'
                 /\ g.t = "data" => g.n \in 1..sentUp'[g.conn]
                 /\ g.t # "data" => g.n = 0
                 /\ g.t = "close" => conn'[g.conn] = "closed"
      <3>1. CASE g \in UpFrames
        <4>1. /\ g.conn \in Conns /\ conn[g.conn] # "idle" /\ g.id = sid[g.conn] /\ g.seq <= dOut
              /\ g.t = "data" => g.n \in 1..sentUp[g.conn]
              /\ g.t # "data" => g.n = 0
              /\ g.t = "close" => conn[g.conn] = "closed"
          BY <3>1 DEF UpSound
        <4>2. sentUp[g.conn] \in Nat /\ sentUp'[g.conn] \in Nat /\ sentUp[g.conn] <= sentUp'[g.conn]
          BY <4>1, WireTypes DEF TypeOK, AgentTypeOK
        <4>3. g.seq <= dOut'
          BY <1>1, <3>1
        <4> QED
          BY <4>1, <4>2, <4>3
      <3>2. CASE g = f
        BY <1>1, <3>2
      <3> QED
        BY <1>6, <3>1, <3>2
    <2>2. ASSUME NEW g \in UpFrames', NEW h \in UpFrames', g.seq = h.seq \/ Key(g) = Key(h)
          PROVE  g = h
      <3>1. CASE g \in UpFrames /\ h \in UpFrames
        BY <2>2, <3>1 DEF UpSound
      <3>2. CASE g = f /\ h \in UpFrames
        BY <1>1, <1>2, <2>2, <3>2
      <3>3. CASE h = f /\ g \in UpFrames
        BY <1>1, <1>2, <2>2, <3>3
      <3> QED
        BY <1>6, <3>1, <3>2, <3>3
    <2> QED
      BY <2>1, <2>2 DEF UpSound, Key
  <1>8. UpWire'
    <2>1. cIn' <= dOut' /\ \A g \in Frames(toC') : g.seq > cIn'
      BY <1>1, <1>4 DEF UpWire
    <2>2. \A g \in Frames(toC'), h \in Due' : h.seq <= g.seq => h \in Frames(toC')
      <3> SUFFICES ASSUME NEW g \in Frames(toC'), NEW h \in Due', h.seq <= g.seq
                   PROVE  h \in Frames(toC')
        OBVIOUS
      <3>1. CASE client = "cur" /\ pipe = "open"
        BY <1>4, <1>5, <3>1 DEF UpWire
      <3>2. CASE ~(client = "cur" /\ pipe = "open")
        <4>1. g \in Frames(toC) /\ g \in UpFrames
          BY <1>4, <3>2, FrameTypes
        <4>2. h \in Due
          BY <1>1, <1>2, <1>5, <4>1
        <4> QED
          BY <1>4, <4>1, <4>2 DEF UpWire
      <3> QED
        BY <3>1, <3>2
    <2>3. client' = "cur" /\ pipe' = "open" => Due' \subseteq Frames(toC')
      BY <1>4, <1>5 DEF UpWire
    <2>4. ResetsClear(toC)'
      <3> SUFFICES ASSUME NEW i \in DOMAIN toC', toC'[i].t = "reset", NEW g \in Frames(outbuf')
                   PROVE  g.seq > cIn /\ \A j \in 1..(i - 1) : IsFrame(toC'[j]) => toC'[j].seq < g.seq
        BY DEF ResetsClear, IsFrame
      <3>1. i \in DOMAIN toC /\ toC[i].t = "reset"
        BY <1>4 DEF IsFrame
      <3>2. \A j \in 1..(i - 1) : j \in DOMAIN toC /\ toC'[j] = toC[j]
        BY <1>4, <3>1
      <3>3. CASE g \in Frames(outbuf)
        BY <3>1, <3>2, <3>3 DEF UpWire, ResetsClear
      <3>4. CASE g = f
        <4>1. \A j \in 1..(i - 1) : IsFrame(toC[j]) => toC[j] \in UpFrames
          BY <3>2, FrameTypes DEF Frames, Lines
        <4>2. g.seq > cIn
          BY <1>1, <3>4 DEF UpWire
        <4> QED
          BY <1>2, <3>2, <3>4, <4>1, <4>2
      <3> QED
        BY <1>3, <3>3, <3>4
    <2>5. Increasing(outbuf)' /\ Increasing(toC)'
      BY <1>3, <1>4 DEF Increasing, IsFrame
    <2> QED
      BY <1>3, <2>1, <2>2, <2>3, <2>4, <2>5 DEF UpWire, IsFrame
  <1>9. UpAcks'
    <2> SUFFICES ASSUME NEW a \in Lines(toD) \cup Lines(zombie), a.t = "ack"
                 PROVE  a.seq <= dOut' /\ \A g \in Frames(outbuf') : g.seq <= a.seq => g.seq <= cIn
      BY DEF UpAcks
    <2>1. a.seq <= dOut /\ a.seq \in Nat
      BY WireTypes, LinesType, LineFields DEF UpAcks
    <2>2. a.seq <= dOut' /\ ~(f.seq <= a.seq)
      BY <1>1, <2>1
    <2> QED
      BY <1>3, <2>2 DEF UpAcks
  <1>10. ASSUME NEW F, UpNext(F), F \subseteq UpFrames, Due \subseteq F
         PROVE  UpNext(F \cup {f})
    <2> SUFFICES ASSUME NEW g \in F \cup {f}
                 PROVE  /\ g.t = "open" => stream[g.conn] = "none"
                        /\ g.t = "data" /\ stream[g.conn] \in {"none", "mapped"} =>
                             \/ g.n = Len(gotUp[g.conn]) + 1
                             \/ \E h \in F \cup {f} : h.t = "data" /\ h.conn = g.conn /\ h.n + 1 = g.n /\ h.seq < g.seq
                        /\ g.t # "open" /\ stream[g.conn] = "none" =>
                             \E h \in F \cup {f} : h.t = "open" /\ h.conn = g.conn /\ h.seq < g.seq
      BY DEF UpNext
    <2>1. CASE g \in F
      BY <1>10, <2>1 DEF UpNext
    <2>2. CASE g = f
      <3>1. \A h \in Due : h \in F /\ h.seq < f.seq
        BY <1>2, <1>10
      <3> QED
        BY <2>2, <3>1
    <2> QED
      BY <2>1, <2>2
  <1>11. UpNext(Due)'
    <2>1. UpNext(Due \cup {f})
      <3>1. UpNext(Due) /\ Due \subseteq UpFrames
        BY FrameTypes
      <3> HIDE DEF Due
      <3> QED
        BY <1>10, <3>1
    <2> QED
      BY <1>5, <2>1 DEF UpNext
  <1>12. UpNext(Frames(toC))'
    <2>1. CASE client = "cur" /\ pipe = "open"
      <3>1. UpNext(Frames(toC)) /\ Frames(toC) \subseteq UpFrames /\ Due \subseteq Frames(toC)
        BY <2>1, FrameTypes DEF UpWire
      <3>2. Frames(toC') = Frames(toC) \cup {f}
        BY <1>4, <2>1
      <3>3. UpNext(Frames(toC) \cup {f})
        BY <1>10, <3>1
      <3> QED
        BY <3>2, <3>3 DEF UpNext
    <2>2. CASE ~(client = "cur" /\ pipe = "open")
      BY <1>4, <2>2 DEF UpNext
    <2> QED
      BY <2>1, <2>2
  <1>13. UpHeld'
    <2> SUFFICES ASSUME NEW j \in Conns, conn'[j] = "open"
                 PROVE  /\ stream[j] \in {"none", "mapped"} =>
                             \A n \in (Len(gotUp[j]) + 1)..sentUp'[j] :
                               \E g \in Due' : g.t = "data" /\ g.conn = j /\ g.n = n
                        /\ stream[j] = "none" => \E g \in Due' : g.t = "open" /\ g.conn = j
      BY DEF UpHeld
    <2>1. ASSUME stream[j] \in {"none", "mapped"}, NEW n \in (Len(gotUp[j]) + 1)..sentUp'[j]
          PROVE  \E g \in Due' : g.t = "data" /\ g.conn = j /\ g.n = n
      <3>1. Len(gotUp[j]) \in Nat /\ sentUp[j] \in Nat /\ sentUp'[j] \in Nat
        BY ReadTypes DEF TypeOK, AgentTypeOK
      <3>2. n \in Nat /\ n > 0 /\ n <= sentUp'[j] /\ n >= Len(gotUp[j]) + 1
        BY <3>1
      <3>3. CASE conn[j] = "open" /\ n <= sentUp[j]
        <4>1. n \in (Len(gotUp[j]) + 1)..sentUp[j]
          BY <3>1, <3>2, <3>3
        <4> QED
          BY <1>5, <2>1, <3>3, <4>1 DEF UpHeld
      <3>4. CASE j = k /\ f.t = "data" /\ f.n = n
        BY <1>5, <3>4
      <3> QED
        BY <3>2, <3>3, <3>4
    <2>2. stream[j] = "none" => \E g \in Due' : g.t = "open" /\ g.conn = j
      BY <1>5 DEF UpHeld
    <2> QED
      BY <2>1, <2>2
  <1> QED
    BY <1>5, <1>7, <1>8, <1>9, <1>11, <1>12, <1>13

\* resetTunnels: nothing is kept, and the pipe may bring word of it.
LEMMA ResetUp ==
  ASSUME TypeOK, TypeOK', UpInv,
         outbuf' = <<>>, dOut <= dOut', toC' = toC \/ ToClient(<<Control("reset", 0, 0)>>),
         UNCHANGED <<cIn, stream, gotUp, toD, zombie, client, pipe>>,
         \A j \in Conns : conn[j] # "idle" =>
           sid'[j] = sid[j] /\ conn'[j] = "closed" /\ sentUp[j] <= sentUp'[j],
         \A j \in Conns : conn'[j] # "open"
  PROVE  UpInv'
  <1> USE DEF UpInv
  <1>1. /\ toC \in Seq(Line) /\ dOut \in Nat /\ cIn \in Nat /\ dOut' \in Nat
        /\ \A g \in UpFrames : g.seq \in Nat /\ g.conn \in Conns /\ conn[g.conn] # "idle"
                               /\ g.seq <= dOut
    BY WireTypes, FrameTypes DEF UpSound, TypeOK, DaemonTypeOK
  <1>2. Frames(toC') = Frames(toC) /\ Increasing(toC')
    <2> DEFINE l == Control("reset", 0, 0)
    <2>1. l \in Line /\ ~IsFrame(l)
      BY LineTypes DEF Kinds, Control, IsFrame
    <2> HIDE DEF l
    <2>2. ToClient(<<l>>) => Frames(toC') = Frames(toC) /\ Increasing(toC')
      BY <1>1, <2>1, ToClientLines DEF UpWire
    <2> QED
      BY <2>2 DEF UpWire, l
  <1>3. Frames(outbuf') = {} /\ Due' = {} /\ UpFrames' \subseteq UpFrames
        /\ DOMAIN outbuf' = {} /\ Increasing(outbuf')
    BY <1>2, NoLines, EmptySeq DEF Due, UpFrames
  <1>4. UpSound'
    <2>1. ASSUME NEW g \in UpFrames'
          PROVE  /\ g.conn \in Conns /\ conn'[g.conn] # "idle" /\ g.id = sid'[g.conn] /\ g.seq <= dOut'
                 /\ g.t = "data" => g.n \in 1..sentUp'[g.conn]
                 /\ g.t # "data" => g.n = 0
                 /\ g.t = "close" => conn'[g.conn] = "closed"
      <3>1. /\ g.conn \in Conns /\ conn[g.conn] # "idle" /\ g.id = sid[g.conn] /\ g.seq <= dOut
            /\ g.t = "data" => g.n \in 1..sentUp[g.conn]
            /\ g.t # "data" => g.n = 0
        BY <1>3 DEF UpSound
      <3>2. sentUp[g.conn] \in Nat /\ sentUp'[g.conn] \in Nat /\ sentUp[g.conn] <= sentUp'[g.conn]
        BY <3>1 DEF TypeOK, AgentTypeOK
      <3>3. g.seq <= dOut'
        BY <1>1, <1>3, <3>1
      <3> QED
        BY <3>1, <3>2, <3>3
    <2>2. \A g, h \in UpFrames' : g.seq = h.seq \/ Key(g) = Key(h) => g = h
      BY <1>3 DEF UpSound
    <2> QED
      BY <2>1, <2>2 DEF UpSound, Key
  <1>5. UpWire'
    <2>1. cIn' <= dOut'
      BY <1>1 DEF UpWire
    <2>2. ResetsClear(toC)'
      BY <1>3 DEF ResetsClear
    <2>3. Increasing(outbuf)' /\ Increasing(toC)'
      BY <1>2, <1>3 DEF Increasing, IsFrame
    <2>4. \A g \in Frames(toC') : g.seq > cIn'
      BY <1>2 DEF UpWire
    <2> QED
      BY <1>3, <2>1, <2>2, <2>3, <2>4 DEF UpWire
  <1>6. UpAcks'
    <2> SUFFICES ASSUME NEW a \in Lines(toD) \cup Lines(zombie), a.t = "ack"
                 PROVE  a.seq <= dOut'
      BY <1>3 DEF UpAcks
    <2>1. a.seq <= dOut /\ a.seq \in Nat
      BY WireTypes, LinesType, LineFields DEF UpAcks
    <2> QED
      BY <1>1, <2>1
  <1>7. UpNext(Due)' /\ UpNext(Frames(toC))' /\ UpHeld'
    BY <1>2, <1>3 DEF UpNext, UpHeld
  <1> QED
    BY <1>4, <1>5, <1>6, <1>7

\* ResetsClear, for what is left of a queue, and with a line more.
LEMMA ResetsLater ==
  ASSUME NEW q \in Seq(Line), ResetsClear(q)
  PROVE  /\ q # <<>> => ResetsClear(Tail(q))
         /\ \A n \in 0..Len(q) : ResetsClear(SubSeq(q, 1, n))
         /\ \A l \in Line : l.t # "reset" => ResetsClear(q \o <<l>>)
         /\ ResetsClear(<<>>)
  <1>1. ASSUME q # <<>> PROVE ResetsClear(Tail(q))
    <2>1. /\ DOMAIN q = 1..Len(q) /\ Len(q) \in Nat
          /\ DOMAIN Tail(q) = 1..(Len(q) - 1)
          /\ \A i \in DOMAIN Tail(q) : i + 1 \in DOMAIN q /\ Tail(q)[i] = q[i + 1]
      BY <1>1, Elements
    <2> SUFFICES ASSUME NEW i \in DOMAIN Tail(q), Tail(q)[i].t = "reset", NEW g \in Frames(outbuf)
                 PROVE  g.seq > cIn /\ \A j \in 1..(i - 1) : IsFrame(Tail(q)[j]) => Tail(q)[j].seq < g.seq
      BY DEF ResetsClear
    <2>2. q[i + 1].t = "reset" /\ i + 1 \in DOMAIN q /\ i \in Nat
      BY <2>1
    <2>3. g.seq > cIn /\ \A j \in 1..((i + 1) - 1) : IsFrame(q[j]) => q[j].seq < g.seq
      BY <2>2 DEF ResetsClear
    <2>4. \A j \in 1..(i - 1) : j \in DOMAIN Tail(q) /\ j + 1 \in 1..((i + 1) - 1)
      BY <2>1, <2>2
    <2> QED
      BY <2>1, <2>3, <2>4
  <1>2. ASSUME NEW n \in 0..Len(q) PROVE ResetsClear(SubSeq(q, 1, n))
    <2> DEFINE r == SubSeq(q, 1, n)
    <2>1. /\ DOMAIN r \subseteq DOMAIN q /\ \A i \in DOMAIN r : r[i] = q[i]
          /\ r \in Seq(Line)
      BY CutLines
    <2>2. \A i \in DOMAIN r : \A j \in 1..(i - 1) : j \in DOMAIN r
      BY <2>1, Elements
    <2> HIDE DEF r
    <2>3. ResetsClear(r)
      BY <2>1, <2>2 DEF ResetsClear
    <2> QED
      BY <2>3 DEF r
  <1>3. ASSUME NEW l \in Line, l.t # "reset" PROVE ResetsClear(q \o <<l>>)
    <2>1. /\ <<l>> \in Seq(Line) /\ Len(<<l>>) = 1 /\ <<l>>[1] = l
      BY OneLine
    <2>2. /\ DOMAIN (q \o <<l>>) = 1..(Len(q) + 1) /\ Len(q) \in Nat /\ DOMAIN q = 1..Len(q)
          /\ \A i \in 1..Len(q) : (q \o <<l>>)[i] = q[i]
          /\ (q \o <<l>>)[Len(q) + 1] = l
      BY <2>1, Elements
    <2> DEFINE r == q \o <<l>>
    <2> HIDE DEF r
    <2> SUFFICES ASSUME NEW i \in DOMAIN r, r[i].t = "reset", NEW g \in Frames(outbuf)
                 PROVE  g.seq > cIn /\ \A j \in 1..(i - 1) : IsFrame(r[j]) => r[j].seq < g.seq
      BY DEF ResetsClear, r
    <2>3. i \in 1..Len(q) /\ q[i].t = "reset"
      BY <1>3, <2>2 DEF r
    <2>4. \A j \in 1..(i - 1) : j \in 1..Len(q) /\ r[j] = q[j]
      BY <2>2, <2>3 DEF r
    <2> QED
      BY <2>2, <2>3, <2>4 DEF ResetsClear
  <1>4. ResetsClear(<<>>)
    BY EmptySeq DEF ResetsClear
  <1> QED
    BY <1>1, <1>2, <1>3, <1>4

\* A frame names one connection.
LEMMA OneEnd ==
  ASSUME Ends, NEW f, f.conn \in Conns, conn[f.conn] # "idle", f.id = sid[f.conn]
  PROVE  /\ Mapped(f.id) = {k \in Conns : k = f.conn /\ stream[k] = "mapped"}
         /\ Socket(f.id) = {k \in Conns : k = f.conn /\ conn[k] = "open"}
  <1>1. \A k \in Conns : stream[k] = "mapped" => conn[k] # "idle"
    BY DEF Ends
  <1> QED
    BY <1>1 DEF Ends, Mapped, Socket


\* UpNext for streams str of which got was read.
UpNextFor(F, str, got) ==
  \A f \in F :
    /\ f.t = "open" => str[f.conn] = "none"
    /\ f.t = "data" /\ str[f.conn] \in {"none", "mapped"} =>
         \/ f.n = Len(got[f.conn]) + 1
         \/ \E g \in F : g.t = "data" /\ g.conn = f.conn /\ g.n + 1 = f.n /\ g.seq < f.seq
    /\ f.t # "open" /\ str[f.conn] = "none" =>
         \E g \in F : g.t = "open" /\ g.conn = f.conn /\ g.seq < f.seq

\* What central makes of the first frame f on the pipe.
Took(f) ==
  /\ f.t = "open" => stream' = [stream EXCEPT ![f.conn] = "mapped"] /\ gotUp' = gotUp
  /\ f.t = "data" =>
       /\ stream' = stream
       /\ \A k \in Conns : gotUp'[k] = IF k = f.conn /\ stream[k] = "mapped"
                                       THEN Append(gotUp[k], <<f.conn, f.n>>) ELSE gotUp[k]
  /\ f.t = "close" =>
       /\ gotUp' = gotUp
       /\ \A k \in Conns : IF k = f.conn /\ stream[k] = "mapped"
                           THEN stream'[k] \in {"left", "stuck"} ELSE stream'[k] = stream[k]

\* Of frames that are each next on their connection, those but the first are.
LEMMA TakeNext ==
  ASSUME TypeOK, TypeOK', NEW F, NEW f \in F \cup UpFrames, UpNext(F), F \subseteq UpFrames, UpSound,
         \A g \in F : g.seq >= f.seq, Took(f), IsFrame(f),
         stream[f.conn] = "none" <=> f.t = "open",
         f.t = "data" /\ stream[f.conn] = "mapped" => f.n = Len(gotUp[f.conn]) + 1
  PROVE  UpNextFor(F \ {f}, stream', gotUp')
  <1>1. /\ \A g \in F : g.conn \in Conns /\ g.n \in Nat /\ g.seq \in Nat
        /\ f.conn \in Conns /\ f.n \in Nat /\ stream \in [Conns -> StreamStates]
        /\ \A g \in F : Key(g) = Key(f) => g = f
    BY FrameTypes, WireTypes DEF UpSound
  <1> SUFFICES ASSUME NEW g \in F, g # f
               PROVE  /\ g.t = "open" => stream'[g.conn] = "none"
                      /\ g.t = "data" /\ stream'[g.conn] \in {"none", "mapped"} =>
                           \/ g.n = Len(gotUp'[g.conn]) + 1
                           \/ \E h \in F \ {f} : h.t = "data" /\ h.conn = g.conn /\ h.n + 1 = g.n /\ h.seq < g.seq
                      /\ g.t # "open" /\ stream'[g.conn] = "none" =>
                           \E h \in F \ {f} : h.t = "open" /\ h.conn = g.conn /\ h.seq < g.seq
    BY DEF UpNextFor
  <1>2. /\ g.t = "open" => stream[g.conn] = "none"
        /\ g.t = "data" /\ stream[g.conn] \in {"none", "mapped"} =>
             \/ g.n = Len(gotUp[g.conn]) + 1
             \/ \E h \in F : h.t = "data" /\ h.conn = g.conn /\ h.n + 1 = g.n /\ h.seq < g.seq
        /\ g.t # "open" /\ stream[g.conn] = "none" =>
             \E h \in F : h.t = "open" /\ h.conn = g.conn /\ h.seq < g.seq
    BY DEF UpNext
  <1>3. CASE f.t = "open"
    <2>1. /\ stream'[f.conn] = "mapped" /\ gotUp' = gotUp
          /\ \A k \in Conns : k # f.conn => stream'[k] = stream[k]
      BY <1>1, <1>3 DEF Took
    <2>2. f.n = 0 /\ (g.t = "open" => g.n = 0)
      BY <1>3 DEF UpSound
    <2>3. g.t = "open" => g.conn # f.conn
      BY <1>1, <1>3, <2>2 DEF Key
    <2> QED
      BY <1>1, <1>2, <1>3, <2>1, <2>3
  <1>4. CASE f.t = "data"
    <2>1. stream' = stream /\ stream[f.conn] # "none"
          /\ \A k \in Conns : k # f.conn \/ stream[k] # "mapped" => gotUp'[k] = gotUp[k]
      BY <1>4 DEF Took
    <2>2. ASSUME g.conn = f.conn, stream[f.conn] = "mapped"
          PROVE  Len(gotUp'[f.conn]) = Len(gotUp[f.conn]) + 1 /\ f.n = Len(gotUp[f.conn]) + 1
      <3>1. gotUp'[f.conn] = Append(gotUp[f.conn], <<f.conn, f.n>>)
        BY <1>1, <1>4, <2>2 DEF Took
      <3>2. gotUp[f.conn] \in Seq(Chunk)
        BY <1>1, ReadTypes
      <3>3. <<f.conn, f.n>> \in Chunk
        BY <1>1, BoundsAssumption DEF Chunk, Conns
      <3> QED
        BY <1>4, <2>2, <3>1, <3>2, <3>3, AppendProperties
    <2>3. ASSUME g.t = "data", g.conn = f.conn, stream[f.conn] = "mapped"
          PROVE  \/ g.n = Len(gotUp'[g.conn]) + 1
                 \/ \E h \in F \ {f} : h.t = "data" /\ h.conn = g.conn /\ h.n + 1 = g.n /\ h.seq < g.seq
      <3>1. CASE g.n = Len(gotUp[g.conn]) + 1
        BY <1>1, <1>4, <2>2, <2>3, <3>1 DEF Key
      <3>2. CASE g.n # Len(gotUp[g.conn]) + 1
        <4>1. PICK h \in F : h.t = "data" /\ h.conn = g.conn /\ h.n + 1 = g.n /\ h.seq < g.seq
          BY <1>2, <2>3, <3>2
        <4> QED
          BY <2>2, <2>3, <4>1
      <3> QED
        BY <3>1, <3>2
    <2> QED
      BY <1>1, <1>2, <1>4, <2>1, <2>3
  <1>5. CASE f.t = "close"
    <2>1. /\ gotUp' = gotUp
          /\ \A k \in Conns : \/ stream'[k] = stream[k]
                              \/ k = f.conn /\ stream[k] = "mapped" /\ stream'[k] \notin {"none", "mapped"}
      BY <1>5 DEF Took
    <2> QED
      BY <1>1, <1>2, <1>5, <2>1
  <1> QED
    BY <1>3, <1>4, <1>5 DEF IsFrame

\* The first frame on the pipe is the next of its connection.
LEMMA HeadUp ==
  ASSUME TypeOK, Ends, UpInv, toC # <<>>, IsFrame(Head(toC))
  PROVE  LET f == Head(toC) IN
         /\ f \in Frames(toC) /\ f \in UpFrames /\ f \in Line /\ f.conn \in Conns
         /\ f.seq \in Nat /\ f.seq > cIn /\ f.seq <= dOut
         /\ Frames(toC) = Frames(Tail(toC)) \cup {f} /\ Tail(toC) \in Seq(Line)
         /\ Increasing(Tail(toC)) /\ \A g \in Frames(Tail(toC)) : f.seq < g.seq
         /\ \A g \in Due : g = f \/ f.seq < g.seq
         /\ stream[f.conn] = "none" <=> f.t = "open"
         /\ f.t = "data" /\ stream[f.conn] = "mapped" => f.n = Len(gotUp[f.conn]) + 1
         /\ Mapped(f.id) = {k \in Conns : k = f.conn /\ stream[k] = "mapped"}
  <1> DEFINE f == Head(toC)
  <1> USE DEF UpInv
  <1>1. /\ toC \in Seq(Line) /\ cIn \in Nat /\ dOut \in Nat
        /\ \A g \in UpFrames : g \in Line /\ g.seq \in Nat /\ g.conn \in Conns
                               /\ conn[g.conn] # "idle" /\ g.id = sid[g.conn] /\ g.seq <= dOut
    BY WireTypes, FrameTypes DEF UpSound
  <1>2. /\ f \in Frames(toC) /\ Frames(toC) = Frames(Tail(toC)) \cup {f}
        /\ Increasing(Tail(toC)) /\ \A g \in Frames(Tail(toC)) : f.seq < g.seq
        /\ Tail(toC) \in Seq(Line)
    <2>1. Increasing(toC)
      BY DEF UpWire
    <2> QED
      BY <1>1, <2>1, TailLines DEF Frames
  <1>3. f \in UpFrames /\ f.seq > cIn
    BY <1>2, FrameTypes DEF UpWire
  <1> HIDE DEF f
  <1>4. \A g \in Frames(toC) : g = f \/ f.seq < g.seq
    BY <1>2
  <1>5. \A g \in Due : g = f \/ f.seq < g.seq
    <2> SUFFICES ASSUME NEW g \in Due, ~(f.seq < g.seq) PROVE g = f
      OBVIOUS
    <2>1. g.seq \in Nat /\ f.seq \in Nat
      BY <1>1, <1>3, FrameTypes
    <2>2. g.seq <= f.seq
      BY <2>1
    <2>3. g \in Frames(toC)
      BY <1>2, <2>2 DEF UpWire
    <2> QED
      BY <1>4, <2>3
  <1>6. \A g \in Frames(toC) : ~(g.seq < f.seq)
    BY <1>1, <1>3, <1>4, FrameTypes
  <1>7. /\ f.t = "open" => stream[f.conn] = "none"
        /\ f.t # "open" => stream[f.conn] # "none"
        /\ f.t = "data" /\ stream[f.conn] = "mapped" => f.n = Len(gotUp[f.conn]) + 1
    BY <1>2, <1>6 DEF UpNext
  <1>8. Mapped(f.id) = {k \in Conns : k = f.conn /\ stream[k] = "mapped"}
    BY <1>1, <1>3, OneEnd
  <1>9. f \in Line /\ f.conn \in Conns /\ f.seq \in Nat /\ f.seq <= dOut
    BY <1>1, <1>3
  <1>10. stream[f.conn] = "none" <=> f.t = "open"
    BY <1>7
  <1> QED
    BY <1>2, <1>3, <1>5, <1>7, <1>8, <1>9, <1>10 DEF f

\* Central takes a frame.
LEMMA TakeUp ==
  ASSUME TypeOK, TypeOK', Ends, UpInv, toC # <<>>, IsFrame(Head(toC)), Took(Head(toC)),
         toC' = Tail(toC), cIn' = Head(toC).seq,
         UNCHANGED <<outbuf, dOut, sid, sentUp, conn, client, pipe, zombie>>,
         \A a \in Lines(toD') : a.t = "ack" => a \in Lines(toD) \/ a.seq = Head(toC).seq
  PROVE  UpInv' /\ Due' = Due \ {Head(toC)}
  <1> DEFINE f == Head(toC)
  <1> USE DEF UpInv
  <1>1. /\ f \in Frames(toC) /\ f \in UpFrames /\ f \in Line /\ f.conn \in Conns
        /\ f.seq \in Nat /\ f.seq > cIn /\ f.seq <= dOut /\ IsFrame(f)
        /\ Frames(toC) = Frames(toC') \cup {f}
        /\ Increasing(toC') /\ \A g \in Frames(toC') : f.seq < g.seq
        /\ \A g \in Due : g = f \/ f.seq < g.seq
        /\ stream[f.conn] = "none" <=> f.t = "open"
        /\ f.t = "data" /\ stream[f.conn] = "mapped" => f.n = Len(gotUp[f.conn]) + 1
        /\ Took(f) /\ cIn' = f.seq
        /\ \A a \in Lines(toD') : a.t = "ack" => a \in Lines(toD) \/ a.seq = f.seq
    BY HeadUp
  <1>2. ResetsClear(Tail(toC))
    BY WireTypes, ResetsLater DEF UpWire
  <1>3. /\ \A i \in DOMAIN toC' : toC'[i].t = "reset" =>
              \A g \in Frames(outbuf) : f.seq < g.seq
    <2>1. /\ DOMAIN toC = 1..Len(toC) /\ Len(toC) \in Nat
          /\ DOMAIN toC' = 1..(Len(toC) - 1)
          /\ \A i \in DOMAIN toC' : i + 1 \in DOMAIN toC /\ toC'[i] = toC[i + 1]
          /\ f = toC[1]
      BY WireTypes, Elements
    <2> SUFFICES ASSUME NEW i \in DOMAIN toC', toC'[i].t = "reset", NEW g \in Frames(outbuf)
                 PROVE  f.seq < g.seq
      OBVIOUS
    <2>2. toC[i + 1].t = "reset" /\ i + 1 \in DOMAIN toC /\ 1 \in 1..((i + 1) - 1)
      BY <2>1
    <2>3. \A j \in 1..((i + 1) - 1) : IsFrame(toC[j]) => toC[j].seq < g.seq
      BY <2>2 DEF UpWire, ResetsClear
    <2> QED
      BY <1>1, <2>1, <2>2, <2>3
  <1> HIDE DEF f
  <1>4. /\ \A g \in UpFrames : g.seq \in Nat /\ g.conn \in Conns /\ g.n \in Nat
        /\ cIn \in Nat /\ dOut \in Nat /\ UpFrames' \subseteq UpFrames
        /\ Due \subseteq UpFrames /\ Frames(toC) \subseteq UpFrames
        /\ stream \in [Conns -> StreamStates] /\ Frames(outbuf) \subseteq UpFrames
        /\ Frames(toC') = Frames(toC) \ {f}
    <2>1. Frames(toC') = Frames(toC) \ {f}
      <3>1. \A g \in Frames(toC') : g # f
        BY <1>1
      <3> QED
        BY <1>1, <3>1
    <2>2. \A g \in UpFrames : g.seq \in Nat /\ g.conn \in Conns /\ g.n \in Nat
      BY FrameTypes DEF UpSound
    <2>3. UpFrames' \subseteq UpFrames
      BY <2>1 DEF UpFrames
    <2> QED
      BY <2>1, <2>2, <2>3, WireTypes, FrameTypes
  <1>5. Due' = Due \ {f}
    <2>1. ASSUME NEW g \in Frames(outbuf) PROVE g.seq > f.seq <=> g \in Due /\ g # f
      <3>1. g.seq \in Nat /\ (g \in Due <=> g.seq > cIn)
        BY <1>4 DEF Due
      <3> QED
        BY <1>1, <1>4, <3>1
    <2> QED
      BY <1>1, <2>1 DEF Due
  <1>6. UpSound'
    BY <1>4 DEF UpSound, Key
  <1>7. UpWire'
    <2>1. cIn' <= dOut' /\ \A g \in Frames(toC') : g.seq > cIn'
      BY <1>1, <1>4
    <2>2. \A g \in Frames(toC'), h \in Due' : h.seq <= g.seq => h \in Frames(toC')
      BY <1>4, <1>5 DEF UpWire
    <2>3. client' = "cur" /\ pipe' = "open" => Due' \subseteq Frames(toC')
      BY <1>4, <1>5 DEF UpWire
    <2>4. ResetsClear(toC)'
      <3> SUFFICES ASSUME NEW i \in DOMAIN toC', toC'[i].t = "reset", NEW g \in Frames(outbuf)
                   PROVE  g.seq > cIn' /\ \A j \in 1..(i - 1) : IsFrame(toC'[j]) => toC'[j].seq < g.seq
        BY DEF ResetsClear, IsFrame
      <3>1. g.seq \in Nat /\ f.seq < g.seq
        BY <1>3, <1>4
      <3>2. \A j \in 1..(i - 1) : IsFrame(toC'[j]) => toC'[j].seq < g.seq
        BY <1>2 DEF ResetsClear
      <3> QED
        BY <1>1, <3>1, <3>2
    <2>5. Increasing(outbuf)' /\ Increasing(toC)' /\ \A i \in DOMAIN outbuf' : IsFrame(outbuf'[i])
      BY <1>1 DEF UpWire, Increasing, IsFrame
    <2> QED
      BY <2>1, <2>2, <2>3, <2>4, <2>5 DEF UpWire, IsFrame
  <1>8. UpAcks'
    <2> SUFFICES ASSUME NEW a \in Lines(toD') \cup Lines(zombie), a.t = "ack"
                 PROVE  a.seq <= dOut /\ \A g \in Frames(outbuf) : g.seq <= a.seq => g.seq <= cIn'
      BY DEF UpAcks
    <2>1. CASE a.seq = f.seq
      BY <1>1, <2>1
    <2>2. CASE a \in Lines(toD) \cup Lines(zombie)
      <3>1. a.seq <= dOut /\ \A g \in Frames(outbuf) : g.seq <= a.seq => g.seq <= cIn
        BY <2>2 DEF UpAcks
      <3>2. \A g \in Frames(outbuf) : g.seq <= cIn => g.seq <= cIn'
        BY <1>1, <1>4
      <3> QED
        BY <3>1, <3>2
    <2> QED
      BY <1>1, <2>1, <2>2
  <1>9. UpNext(Due)' /\ UpNext(Frames(toC))'
    <2>1. UpNext(Due) /\ UpNext(Frames(toC)) /\ UpSound
      OBVIOUS
    <2>2. /\ \A g \in Due : g.seq >= f.seq
          /\ \A g \in Frames(toC) : g.seq >= f.seq
      BY <1>1, <1>4
    <2>3. UpNextFor(Frames(toC) \ {f}, stream', gotUp')
      BY <1>1, <1>4, <2>1, <2>2, TakeNext
    <2>4. UpNextFor(Due \ {f}, stream', gotUp')
      <3> HIDE DEF Due
      <3> QED
        BY <1>1, <1>4, <2>1, <2>2, TakeNext
    <2>5. UpNextFor(Due', stream', gotUp') /\ UpNextFor(Frames(toC'), stream', gotUp')
      BY <1>4, <1>5, <2>3, <2>4
    <2>6. UpNext(Due)'
      <3> HIDE DEF Due
      <3> QED
        BY <2>5 DEF UpNext, UpNextFor
    <2>7. UpNext(Frames(toC))'
      BY <2>5 DEF UpNext, UpNextFor
    <2> QED
      BY <2>6, <2>7
  <1>10. UpHeld'
    <2> SUFFICES ASSUME NEW k \in Conns, conn[k] = "open"
                 PROVE  /\ stream'[k] \in {"none", "mapped"} =>
                             \A n \in (Len(gotUp'[k]) + 1)..sentUp[k] :
                               \E g \in Due \ {f} : g.t = "data" /\ g.conn = k /\ g.n = n
                        /\ stream'[k] = "none" => \E g \in Due \ {f} : g.t = "open" /\ g.conn = k
      BY <1>5 DEF UpHeld
    <2>1. /\ stream[k] \in {"none", "mapped"} =>
               \A n \in (Len(gotUp[k]) + 1)..sentUp[k] :
                 \E g \in Due : g.t = "data" /\ g.conn = k /\ g.n = n
          /\ stream[k] = "none" => \E g \in Due : g.t = "open" /\ g.conn = k
      BY DEF UpHeld
    <2>2. CASE f.t = "open" \/ f.t = "close"
      <3>1. /\ gotUp' = gotUp
            /\ stream'[k] \in {"none", "mapped"} => stream[k] \in {"none", "mapped"}
            /\ stream'[k] = "none" => stream[k] = "none" /\ k # f.conn
        BY <1>1, <1>4, <2>2 DEF Took
      <3> QED
        BY <2>1, <2>2, <3>1
    <2>3. CASE f.t = "data"
      <3>1. /\ stream' = stream
            /\ k # f.conn \/ stream[k] # "mapped" => gotUp'[k] = gotUp[k]
            /\ k = f.conn /\ stream[k] = "mapped" => gotUp'[k] = Append(gotUp[k], <<f.conn, f.n>>)
        BY <1>1, <2>3 DEF Took
      <3>2. CASE k = f.conn /\ stream[k] = "mapped"
        <4>1. <<f.conn, f.n>> \in Chunk /\ gotUp[k] \in Seq(Chunk)
          BY <1>1, <1>4, ReadTypes, BoundsAssumption DEF Chunk, Conns
        <4>2. Len(gotUp'[k]) = Len(gotUp[k]) + 1 /\ Len(gotUp[k]) \in Nat /\ f.n = Len(gotUp[k]) + 1
          BY <1>1, <2>3, <3>1, <3>2, <4>1, AppendProperties, ReadTypes
        <4>3. sentUp[k] \in Nat
          BY ReadTypes
        <4>4. \A n \in (Len(gotUp'[k]) + 1)..sentUp[k] : n \in (Len(gotUp[k]) + 1)..sentUp[k] /\ n # f.n
          BY <4>2, <4>3
        <4> QED
          BY <2>1, <3>1, <3>2, <4>4
      <3>3. CASE k # f.conn \/ stream[k] # "mapped"
        <4>1. k = f.conn => stream[k] \notin {"none", "mapped"}
          BY <1>1, <2>3, <3>3
        <4> QED
          BY <2>1, <2>3, <3>1, <3>3, <4>1
      <3> QED
        BY <3>2, <3>3
    <2> QED
      BY <1>1, <2>2, <2>3 DEF IsFrame
  <1> QED
    BY <1>5, <1>6, <1>7, <1>8, <1>9, <1>10 DEF f

\* A hello brings back what central has not taken.
LEMMA HelloUp ==
  ASSUME TypeOK, TypeOK', Pipes, UpInv, DaemonHello
  PROVE  UpInv' /\ Due' = Due
  <1> USE DEF UpInv
  <1> DEFINE h == Head(toD)
             left == After(outbuf, cIn)
             r == Control("ready", dOut, dIn')
  <1>1. /\ toD \in Seq(Line) /\ toC \in Seq(Line) /\ outbuf \in Seq(Line)
        /\ cIn \in Nat /\ dOut \in Nat /\ dIn' \in Nat
    BY WireTypes DEF TypeOK, DaemonTypeOK
  <1>2. h.t = "hello" /\ h.n = cIn /\ toC = <<>>
    <2>1. h = toD[1] /\ 1 \in DOMAIN toD
      BY <1>1, Elements DEF DaemonHello
    <2> QED
      BY <2>1 DEF Pipes, DaemonHello
  <1>3. /\ outbuf' = left
        /\ toC' = IF pipe = "open" THEN <<r>> \o left ELSE <<>>
        /\ UNCHANGED <<dOut, cIn, sid, sentUp, gotUp, conn, stream, pipe>>
        /\ toD' = Tail(toD) /\ zombie' = <<>> /\ toD # <<>>
    <2>1. dIn' = IF h.seq < dIn THEN h.seq ELSE dIn
      BY DEF DaemonHello
    <2>2. toC' = IF pipe = "open" THEN toC \o <<r>> \o left ELSE toC
      BY <1>2, <2>1 DEF DaemonHello
    <2>3. <<>> \o <<r>> = <<r>>
      BY SMT
    <2> QED
      BY <1>2, <2>2, <2>3 DEF DaemonHello, centralVars, agentVars
  <1>4. /\ left \in Seq(Line) /\ Increasing(left) /\ \A i \in DOMAIN left : IsFrame(left[i])
        /\ Frames(left) = Due
    BY <1>1, AfterFrames DEF UpWire, Due
  <1>5. r \in Line /\ ~IsFrame(r) /\ r.t = "ready"
    BY <1>1, LineTypes DEF Control, Kinds, IsFrame
  <1> HIDE DEF left, r
  <1>6. /\ Frames(toC') = (IF pipe = "open" THEN Due ELSE {}) /\ Increasing(toC')
        /\ \A i \in DOMAIN toC' : toC'[i].t # "reset"
    <2>1. CASE pipe = "open"
      <3>1. /\ <<r>> \in Seq(Line) /\ Lines(<<r>>) = {r} /\ Frames(<<r>>) = {} /\ Increasing(<<r>>)
        BY <1>5, OneLine
      <3>2. /\ Lines(<<r>> \o left) = {r} \cup Lines(left) /\ Frames(<<r>> \o left) = Due
            /\ Increasing(<<r>> \o left)
        <4> HIDE DEF Due
        <4>1. \A f \in Frames(<<r>>), g \in Frames(left) : f.seq < g.seq
          BY <3>1
        <4>2. /\ Lines(<<r>> \o left) = Lines(<<r>>) \cup Lines(left)
              /\ Frames(<<r>> \o left) = Frames(<<r>>) \cup Frames(left)
              /\ Increasing(<<r>> \o left)
          BY <1>4, <3>1, <4>1, ConcatLines
        <4> QED
          BY <1>4, <3>1, <4>2
      <3>3. \A l \in Lines(left) : l.t # "reset"
        BY <1>4 DEF Lines, IsFrame
      <3>4. \A l \in Lines(toC') : l.t # "reset"
        BY <1>3, <1>5, <2>1, <3>2, <3>3
      <3> QED
        BY <1>3, <2>1, <3>2, <3>4 DEF Lines
    <2>2. CASE pipe # "open"
      BY <1>3, <2>2, NoLines, EmptySeq
    <2> QED
      BY <2>1, <2>2
  <1>7. Due' = Due
    <2>1. Due' = {f \in Due : f.seq > cIn}
      BY <1>3, <1>4 DEF Due
    <2> QED
      BY <2>1 DEF Due
  <1>8. UpFrames' \subseteq UpFrames /\ Frames(outbuf') = Due
    BY <1>3, <1>4, <1>6, FrameTypes DEF UpFrames
  <1>9. UpSound'
    BY <1>3, <1>8 DEF UpSound, Key
  <1>10. UpWire'
    <2>1. \A f \in Frames(toC') : f.seq > cIn
      BY <1>6 DEF Due
    <2>2. \A f \in Frames(toC'), g \in Due' : g.seq <= f.seq => g \in Frames(toC')
      BY <1>6, <1>7
    <2>3. client' = "cur" /\ pipe' = "open" => Due' \subseteq Frames(toC')
      BY <1>3, <1>6, <1>7
    <2>4. ResetsClear(toC)'
      BY <1>6 DEF ResetsClear
    <2>5. cIn <= dOut
      BY DEF UpWire
    <2> QED
      BY <1>3, <1>4, <1>6, <2>1, <2>2, <2>3, <2>4, <2>5 DEF UpWire, Increasing, IsFrame
  <1>11. UpAcks'
    <2>1. Lines(toD') \subseteq Lines(toD) /\ Lines(zombie') = {}
      BY <1>1, <1>3, TailLines, NoLines
    <2>2. \A a \in Lines(toD) : a.t = "ack" => a.seq <= dOut /\ \A g \in Frames(outbuf) : g.seq <= a.seq => g.seq <= cIn
      BY DEF UpAcks
    <2>3. Frames(outbuf') \subseteq Frames(outbuf)
      BY <1>8 DEF Due
    <2> QED
      BY <1>3, <2>1, <2>2, <2>3 DEF UpAcks
  <1>12. UpNext(Due)'
    <2>1. UpNext(Due)
      OBVIOUS
    <2> HIDE DEF Due
    <2> QED
      BY <1>3, <1>7, <2>1 DEF UpNext
  <1>13. UpNext(Frames(toC))'
    <2>1. UpNext(Due)
      OBVIOUS
    <2> HIDE DEF Due
    <2>2. CASE pipe = "open"
      BY <1>3, <1>6, <2>1, <2>2 DEF UpNext
    <2>3. CASE pipe # "open"
      BY <1>6, <2>3 DEF UpNext
    <2> QED
      BY <2>2, <2>3
  <1>14. UpHeld'
    <2>1. UpHeld
      OBVIOUS
    <2> HIDE DEF Due
    <2> QED
      BY <1>3, <1>7, <2>1 DEF UpHeld
  <1> QED
    BY <1>7, <1>9, <1>10, <1>11, <1>12, <1>13, <1>14

\* DnNext for connections con that read got and have q to read.
DnNextFor(F, con, got, q) ==
  \A f \in F : f.t = "data" /\ con[f.conn] = "open" =>
    \/ f.n = Len(got[f.conn]) + Len(q[f.conn]) + 1
    \/ \E g \in F : g.t = "data" /\ g.conn = f.conn /\ g.n + 1 = f.n /\ g.seq < f.seq

\* What the daemon makes of the first frame f on its way.
Gave(f) ==
  /\ f.t = "data" =>
       /\ conn' = conn
       /\ \A k \in Conns : queue'[k] = IF k = f.conn /\ conn[k] = "open"
                                       THEN Append(queue[k], <<f.conn, f.n>>) ELSE queue[k]
  /\ f.t = "close" =>
       \A k \in Conns : IF k = f.conn /\ conn[k] = "open"
                        THEN conn'[k] = "closed" /\ queue'[k] = <<>>
                        ELSE conn'[k] = conn[k] /\ queue'[k] = queue[k]

\* The first frame on its way is the next of its connection.
LEMMA HeadDn ==
  ASSUME TypeOK, Ends, DnInv, NEW q \in Seq(Line), Frames(q) = OnWay, Increasing(q), q # <<>>,
         IsFrame(Head(q))
  PROVE  LET f == Head(q) IN
         /\ f \in OnWay /\ f \in DnFrames /\ f \in Line /\ f.conn \in Conns
         /\ f.seq \in Nat /\ f.seq > dIn /\ f.seq <= cOut /\ f.t \in {"data", "close"}
         /\ OnWay = Frames(Tail(q)) \cup {f} /\ Tail(q) \in Seq(Line)
         /\ Increasing(Tail(q)) /\ \A g \in Frames(Tail(q)) : f.seq < g.seq
         /\ \A g \in Owed : g = f \/ f.seq < g.seq
         /\ stream[f.conn] # "none"
         /\ f.t = "data" /\ conn[f.conn] = "open" => f.n = Len(gotDn[f.conn]) + Len(queue[f.conn]) + 1
         /\ Socket(f.id) = {k \in Conns : k = f.conn /\ conn[k] = "open"}
  <1> DEFINE f == Head(q)
  <1> USE DEF DnInv
  <1>1. /\ dIn \in Nat /\ cOut \in Nat
        /\ \A g \in DnFrames : g \in Line /\ g.seq \in Nat /\ g.conn \in Conns
                               /\ stream[g.conn] # "none" /\ g.id = sid[g.conn] /\ g.seq <= cOut
                               /\ g.t \in {"data", "close"}
    BY WireTypes, FrameTypes DEF DnSound
  <1>2. /\ f \in OnWay /\ OnWay = Frames(Tail(q)) \cup {f}
        /\ Increasing(Tail(q)) /\ \A g \in Frames(Tail(q)) : f.seq < g.seq
        /\ Tail(q) \in Seq(Line)
    <2>1. f \in Frames(q)
      BY TailLines DEF Frames
    <2>2. /\ Frames(q) = Frames(Tail(q)) \cup {f} /\ Tail(q) \in Seq(Line)
          /\ Increasing(Tail(q)) /\ \A g \in Frames(Tail(q)) : f.seq < g.seq
      BY TailLines
    <2> QED
      BY <2>1, <2>2
  <1>3. f \in DnFrames /\ f.seq > dIn
    BY <1>2, FrameTypes DEF DnWire
  <1> HIDE DEF f
  <1>4. \A g \in OnWay : g = f \/ f.seq < g.seq
    BY <1>2
  <1>5. \A g \in Owed : g = f \/ f.seq < g.seq
    <2> SUFFICES ASSUME NEW g \in Owed, ~(f.seq < g.seq) PROVE g = f
      OBVIOUS
    <2>1. g.seq \in Nat /\ f.seq \in Nat
      BY <1>1, <1>3, FrameTypes
    <2>2. g.seq <= f.seq
      BY <2>1
    <2>3. g \in OnWay
      BY <1>2, <2>2 DEF DnWire
    <2> QED
      BY <1>4, <2>3
  <1>6. \A g \in OnWay : ~(g.seq < f.seq)
    BY <1>1, <1>3, <1>4, FrameTypes
  <1>7. f.t = "data" /\ conn[f.conn] = "open" => f.n = Len(gotDn[f.conn]) + Len(queue[f.conn]) + 1
    BY <1>2, <1>6 DEF DnNext
  <1>8. Socket(f.id) = {k \in Conns : k = f.conn /\ conn[k] = "open"}
    <2>1. conn[f.conn] # "idle"
      BY <1>1, <1>3 DEF Ends
    <2> QED
      BY <1>1, <1>3, <2>1, OneEnd
  <1>9. /\ f \in Line /\ f.conn \in Conns /\ f.seq \in Nat /\ f.seq <= cOut
        /\ stream[f.conn] # "none" /\ f.t \in {"data", "close"}
    BY <1>1, <1>3
  <1> QED
    BY <1>2, <1>3, <1>5, <1>7, <1>8, <1>9 DEF f

\* What the daemon has written to the sockets, once f is given.
LEMMA GaveLengths ==
  ASSUME TypeOK, NEW f \in Line, f.conn \in Conns, Gave(f), f.t \in {"data", "close"},
         NEW k \in Conns
  PROVE  /\ Len(gotDn[k]) \in Nat /\ Len(queue[k]) \in Nat
         /\ conn'[k] = "open" =>
              /\ conn[k] = "open"
              /\ f.t = "data" /\ k = f.conn => Len(queue'[k]) = Len(queue[k]) + 1
              /\ ~(f.t = "data" /\ k = f.conn) => queue'[k] = queue[k]
  <1>1. Len(gotDn[k]) \in Nat /\ Len(queue[k]) \in Nat /\ queue[k] \in Seq(Chunk)
    BY ReadTypes
  <1>2. ASSUME conn'[k] = "open", f.t = "data", k = f.conn
        PROVE  conn[k] = "open" /\ Len(queue'[k]) = Len(queue[k]) + 1
    <2>1. conn[k] = "open" /\ queue'[k] = Append(queue[k], <<f.conn, f.n>>)
      BY <1>2 DEF Gave
    <2>2. <<f.conn, f.n>> \in Chunk
      BY LineFields DEF Chunk
    <2> QED
      BY <1>1, <2>1, <2>2, AppendProperties
  <1>3. ASSUME conn'[k] = "open", ~(f.t = "data" /\ k = f.conn)
        PROVE  conn[k] = "open" /\ queue'[k] = queue[k]
    BY <1>3 DEF Gave
  <1> QED
    BY <1>1, <1>2, <1>3

\* Of frames that are each next on their connection, those but the first are.
LEMMA GiveNext ==
  ASSUME TypeOK, NEW F, NEW f \in DnFrames, DnNext(F), F \subseteq DnFrames, DnSound,
         Gave(f), gotDn' = gotDn,
         f.t = "data" /\ conn[f.conn] = "open" => f.n = Len(gotDn[f.conn]) + Len(queue[f.conn]) + 1
  PROVE  DnNextFor(F \ {f}, conn', gotDn', queue')
  <1>1. /\ \A g \in F : g.conn \in Conns /\ g.n \in Nat /\ g.seq \in Nat
        /\ f.conn \in Conns /\ f.n \in Nat /\ f \in Line /\ f.t \in {"data", "close"}
        /\ \A g \in F : Key(g) = Key(f) => g = f
    BY FrameTypes DEF DnSound
  <1> SUFFICES ASSUME NEW g \in F, g # f, g.t = "data", conn'[g.conn] = "open"
               PROVE  \/ g.n = Len(gotDn'[g.conn]) + Len(queue'[g.conn]) + 1
                      \/ \E h \in F \ {f} : h.t = "data" /\ h.conn = g.conn /\ h.n + 1 = g.n /\ h.seq < g.seq
    BY DEF DnNextFor
  <1>2. /\ Len(gotDn[g.conn]) \in Nat /\ Len(queue[g.conn]) \in Nat
        /\ conn[g.conn] = "open" /\ gotDn' = gotDn
        /\ f.t = "data" /\ g.conn = f.conn => Len(queue'[g.conn]) = Len(queue[g.conn]) + 1
        /\ ~(f.t = "data" /\ g.conn = f.conn) => queue'[g.conn] = queue[g.conn]
    BY <1>1, GaveLengths
  <1>3. \/ g.n = Len(gotDn[g.conn]) + Len(queue[g.conn]) + 1
        \/ \E h \in F : h.t = "data" /\ h.conn = g.conn /\ h.n + 1 = g.n /\ h.seq < g.seq
    BY <1>2 DEF DnNext
  <1>4. CASE f.t = "data" /\ g.conn = f.conn
    <2>1. f.n = Len(gotDn[g.conn]) + Len(queue[g.conn]) + 1
          /\ Len(queue'[g.conn]) = Len(queue[g.conn]) + 1
      BY <1>2, <1>4
    <2>2. g.n # f.n
      BY <1>1, <1>4 DEF Key
    <2>3. PICK h \in F : h.t = "data" /\ h.conn = g.conn /\ h.n + 1 = g.n /\ h.seq < g.seq
      BY <1>3, <2>1, <2>2
    <2>4. CASE h = f
      <3> DEFINE a == Len(gotDn[g.conn])
                 b == Len(queue[g.conn])
      <3>1. a \in Nat /\ b \in Nat /\ f.n = a + b + 1 /\ Len(queue'[g.conn]) = b + 1
            /\ gotDn' = gotDn /\ f.n + 1 = g.n
        BY <1>2, <2>1, <2>3, <2>4
      <3>2. Len(gotDn'[g.conn]) = a
        BY <3>1
      <3> HIDE DEF a, b
      <3> QED
        BY <3>1, <3>2
    <2>5. CASE h # f
      BY <2>3, <2>5
    <2> QED
      BY <2>4, <2>5
  <1>5. CASE ~(f.t = "data" /\ g.conn = f.conn)
    BY <1>2, <1>3, <1>5
  <1> QED
    BY <1>4, <1>5

\* The daemon takes a frame.
LEMMA TakeDn ==
  ASSUME TypeOK, TypeOK', Ends, DnInv, NEW f, f \in OnWay, f \in DnFrames, f.seq \in Nat,
         f.seq > dIn, f.seq <= cOut, dIn' = f.seq, Gave(f),
         f.t = "data" /\ conn[f.conn] = "open" => f.n = Len(gotDn[f.conn]) + Len(queue[f.conn]) + 1,
         \A g \in Owed : g = f \/ f.seq < g.seq,
         \A g \in OnWay' : f.seq < g.seq, OnWay' = OnWay \ {f},
         UNCHANGED <<pending, cOut, sid, sentDn, gotDn, stream, ready, pipe>>,
         Increasing(toD'), Increasing(zombie'),
         \A a \in Lines(toC') : a.t = "ack" => a \in Lines(toC) \/ a.seq = f.seq
  PROVE  DnInv' /\ Owed' = Owed \ {f}
  <1> USE DEF DnInv
  <1>1. /\ dIn \in Nat /\ cOut \in Nat /\ pending \in Seq(Line)
        /\ \A g \in DnFrames : g \in Line /\ g.seq \in Nat /\ g.conn \in Conns /\ g.n \in Nat
        /\ f \in Line /\ f.conn \in Conns /\ f.t \in {"data", "close"}
        /\ Owed \subseteq DnFrames /\ OnWay \subseteq DnFrames /\ Frames(pending) \subseteq DnFrames
    BY WireTypes, FrameTypes DEF DnSound
  <1>2. Owed' = Owed \ {f}
    <2>1. ASSUME NEW g \in Frames(pending) PROVE g.seq > f.seq <=> g \in Owed /\ g # f
      <3>1. g.seq \in Nat /\ (g \in Owed <=> g.seq > dIn)
        BY <1>1 DEF Owed
      <3> QED
        BY <1>1, <3>1
    <2> QED
      BY <2>1 DEF Owed
  <1>3. DnFrames' \subseteq DnFrames
    BY DEF DnFrames
  <1>4. DnSound'
    BY <1>3 DEF DnSound, Key
  <1>5. DnWire'
    <2>1. \A g \in OnWay', h \in Owed' : h.seq <= g.seq => h \in OnWay'
      <3> HIDE DEF OnWay, Owed
      <3> QED
        BY <1>2 DEF DnWire
    <2>2. ready' /\ pipe' = "open" => Owed' \subseteq OnWay'
      <3> HIDE DEF OnWay, Owed
      <3> QED
        BY <1>2 DEF DnWire
    <2>3. /\ \A i \in DOMAIN pending' : IsFrame(pending'[i])
          /\ Increasing(pending') /\ dIn' <= cOut'
      BY DEF DnWire
    <2> QED
      BY <2>1, <2>2, <2>3 DEF DnWire, Increasing, IsFrame
  <1>6. DnAcks'
    <2> SUFFICES ASSUME NEW a \in Lines(toC'), a.t = "ack" PROVE a.seq <= dIn'
      BY DEF DnAcks
    <2>1. CASE a.seq = f.seq
      BY <2>1
    <2>2. CASE a \in Lines(toC)
      <3>1. a.seq <= dIn /\ a.seq \in Nat
        BY <2>2, WireTypes, LinesType, LineFields DEF DnAcks
      <3> QED
        BY <1>1, <3>1
    <2> QED
      BY <2>1, <2>2
  <1>7. DnNext(Owed)' /\ DnNext(OnWay)'
    <2>1. DnNext(Owed) /\ DnNext(OnWay) /\ DnSound
      OBVIOUS
    <2> HIDE DEF OnWay, Owed
    <2>2. DnNextFor(Owed \ {f}, conn', gotDn', queue') /\ DnNextFor(OnWay \ {f}, conn', gotDn', queue')
      BY <1>1, <2>1, GiveNext
    <2>3. DnNextFor(Owed', conn', gotDn', queue') /\ DnNextFor(OnWay', conn', gotDn', queue')
      BY <1>2, <2>2
    <2> QED
      BY <2>3 DEF DnNext, DnNextFor
  <1>8. DnKept'
    <2> SUFFICES ASSUME NEW k \in Conns, stream[k] = "mapped", conn'[k] = "open",
                        NEW n \in (Len(gotDn'[k]) + Len(queue'[k]) + 1)..sentDn[k]
                 PROVE  \E g \in Owed' : g.t = "data" /\ g.conn = k /\ g.n = n
      BY DEF DnKept
    <2>1. /\ Len(gotDn[k]) \in Nat /\ Len(queue[k]) \in Nat /\ gotDn' = gotDn
          /\ conn[k] = "open" /\ sentDn[k] \in Nat
          /\ f.t = "data" /\ k = f.conn => Len(queue'[k]) = Len(queue[k]) + 1
          /\ ~(f.t = "data" /\ k = f.conn) => queue'[k] = queue[k]
      BY <1>1, GaveLengths, ReadTypes
    <2> DEFINE a == Len(gotDn[k])
               b == Len(queue[k])
               c == Len(queue'[k])
    <2>a. Len(gotDn'[k]) = a /\ a \in Nat /\ b \in Nat
          /\ c = (IF f.t = "data" /\ k = f.conn THEN b + 1 ELSE b)
      BY <2>1
    <2>b. n \in (a + c + 1)..sentDn[k]
      BY <2>a
    <2> HIDE DEF a, b, c
    <2>c. /\ n \in Nat /\ a + b + 1 <= n /\ n <= sentDn[k]
          /\ f.t = "data" /\ k = f.conn => n # a + b + 1
      BY <2>1, <2>a, <2>b
    <2>2. n \in (Len(gotDn[k]) + Len(queue[k]) + 1)..sentDn[k]
      <3>1. sentDn[k] \in Nat
        BY <2>1
      <3>2. n \in (a + b + 1)..sentDn[k]
        BY <2>a, <2>c, <3>1
      <3> QED
        BY <3>2 DEF a, b
    <2>3. PICK g \in Owed : g.t = "data" /\ g.conn = k /\ g.n = n
      BY <2>1, <2>2 DEF DnKept
    <2>4. g # f
      <3>1. CASE f.t = "data" /\ k = f.conn
        <4>1. f.n = a + b + 1 /\ n # f.n
          BY <2>1, <2>c, <3>1 DEF a, b
        <4> QED
          BY <2>3, <4>1
      <3>2. CASE ~(f.t = "data" /\ k = f.conn)
        BY <2>3, <3>2
      <3> QED
        BY <3>1, <3>2
    <2> QED
      BY <1>2, <2>3, <2>4
  <1> QED
    BY <1>2, <1>4, <1>5, <1>6, <1>7, <1>8

\* An element of two queues, one behind the other.
LEMMA ConcatElements ==
  ASSUME NEW q \in Seq(Line), NEW r \in Seq(Line)
  PROVE  /\ \A i \in DOMAIN (q \o r) : \/ i \in DOMAIN q /\ (q \o r)[i] = q[i]
                                     \/ \E j \in DOMAIN r : (q \o r)[i] = r[j]
         /\ \A i \in DOMAIN q : i \in DOMAIN (q \o r) /\ (q \o r)[i] = q[i]
  <1>1. /\ Len(q) \in Nat /\ Len(r) \in Nat /\ DOMAIN q = 1..Len(q) /\ DOMAIN r = 1..Len(r)
        /\ DOMAIN (q \o r) = 1..(Len(q) + Len(r))
        /\ \A i \in 1..Len(q) : (q \o r)[i] = q[i]
        /\ \A i \in 1..Len(r) : (q \o r)[Len(q) + i] = r[i]
    BY Elements
  <1>2. ASSUME NEW i \in DOMAIN (q \o r), i \notin DOMAIN q
        PROVE  \E j \in DOMAIN r : (q \o r)[i] = r[j]
    <2> DEFINE j == i - Len(q)
    <2>1. j \in 1..Len(r) /\ i = Len(q) + j
      BY <1>1, <1>2
    <2> HIDE DEF j
    <2> QED
      BY <1>1, <2>1
  <1>3. \A i \in DOMAIN q : i \in DOMAIN (q \o r)
    BY <1>1
  <1> QED
    BY <1>1, <1>2, <1>3

\* The pipe is ready: central writes again what the daemon has not.
LEMMA ReadyDn ==
  ASSUME TypeOK, TypeOK', Pipes, DnInv, toC # <<>>, OnReady(Head(toC)), toC' = Tail(toC),
         UNCHANGED <<dIn, sid, sentDn, conn, gotDn, queue, zombie, pipe>>
  PROVE  /\ DnInv' /\ cIn' = cIn /\ stream' = stream /\ ready'
         /\ Frames(toD) = {}
         /\ pipe = "open" => client = "cur"
         /\ \A a \in Lines(toD') : ~IsFrame(a) => a \in Lines(toD)
         /\ Lines(toD) \subseteq Lines(toD')
         /\ \A i \in DOMAIN toD' : (i \in DOMAIN toD /\ toD'[i] = toD[i]) \/ IsFrame(toD'[i])
  <1> DEFINE f == Head(toC)
             keep == After(pending, dIn)
  <1> USE DEF DnInv
  <1>1. /\ toC \in Seq(Line) /\ pending \in Seq(Line) /\ dIn \in Nat /\ cIn \in Nat /\ cOut \in Nat
        /\ toD \in Seq(Line) /\ zombie \in Seq(Line)
    BY WireTypes
  <1>2. /\ ~ready /\ f.seq >= cIn /\ f.n = dIn /\ Frames(toD) = {} /\ f \in Line
        /\ Tail(toC) \in Seq(Line)
        /\ pipe = "open" => client = "cur" /\ zombie = <<>>
    <2>1. f = toC[1] /\ 1 \in DOMAIN toC /\ f.t = "ready"
      BY <1>1, Elements DEF OnReady
    <2> QED
      BY <1>1, <2>1, SeqOps DEF Pipes
  <1>3. /\ cIn' = cIn /\ stream' = stream /\ ready' /\ pending' = keep /\ cOut' = cOut
        /\ toD' = IF pipe = "open" THEN toD \o keep ELSE toD
    <2>1. ~(f.seq < cIn)
      BY <1>1, <1>2, LineFields
    <2> QED
      BY <1>2, <2>1 DEF OnReady, Write
  <1>4. /\ keep \in Seq(Line) /\ Increasing(keep) /\ \A i \in DOMAIN keep : IsFrame(keep[i])
        /\ Frames(keep) = Owed
    BY <1>1, AfterFrames DEF DnWire, Owed
  <1> HIDE DEF keep, f
  <1>5. Owed' = Owed
    <2>1. Owed' = {g \in Owed : g.seq > dIn}
      BY <1>3, <1>4 DEF Owed
    <2> QED
      BY <2>1 DEF Owed
  <1>6. /\ OnWay' = (IF pipe = "open" THEN Owed ELSE OnWay) /\ Increasing(toD')
        /\ \A a \in Lines(toD') : ~IsFrame(a) => a \in Lines(toD)
        /\ Lines(toD) \subseteq Lines(toD')
        /\ \A i \in DOMAIN toD' : (i \in DOMAIN toD /\ toD'[i] = toD[i]) \/ IsFrame(toD'[i])
    <2>1. CASE pipe = "open"
      <3>1. /\ Lines(toD') = Lines(toD) \cup Lines(keep) /\ Frames(toD') = Frames(toD) \cup Frames(keep)
        BY <1>1, <1>3, <1>4, <2>1, ConcatLines
      <3>2. Increasing(toD')
        <4>1. \A g \in Frames(toD), h \in Frames(keep) : g.seq < h.seq
          BY <1>2
        <4>2. Increasing(toD)
          BY DEF DnWire
        <4> QED
          BY <1>1, <1>3, <1>4, <2>1, <4>1, <4>2, ConcatLines
      <3>3. \A l \in Lines(keep) : IsFrame(l)
        BY <1>4 DEF Lines
      <3>4. Frames(zombie) = {}
        BY <1>2, <2>1, NoLines
      <3>5. OnWay' = Owed
        BY <1>2, <1>4, <3>1, <3>4 DEF OnWay
      <3>6. \A i \in DOMAIN toD' : (i \in DOMAIN toD /\ toD'[i] = toD[i]) \/ IsFrame(toD'[i])
        <4>1. \A i \in DOMAIN toD' : \/ i \in DOMAIN toD /\ toD'[i] = toD[i]
                                     \/ \E j \in DOMAIN keep : toD'[i] = keep[j]
          BY <1>1, <1>3, <1>4, <2>1, ConcatElements
        <4> QED
          BY <1>4, <4>1
      <3> QED
        BY <2>1, <3>1, <3>2, <3>3, <3>5, <3>6
    <2>2. CASE pipe # "open"
      BY <1>3, <2>2 DEF OnWay, DnWire
    <2> QED
      BY <2>1, <2>2
  <1>7. DnFrames' \subseteq DnFrames /\ Owed \subseteq DnFrames /\ OnWay \subseteq DnFrames
    <2>1. Frames(pending') = Owed
      BY <1>3, <1>4
    <2> QED
      BY <1>6, <2>1, FrameTypes DEF DnFrames
  <1>8. DnSound'
    BY <1>3, <1>7 DEF DnSound, Key
  <1>9. DnWire'
    <2>1. \A g \in OnWay', h \in Owed' : h.seq <= g.seq => h \in OnWay'
      <3> HIDE DEF OnWay, Owed
      <3> QED
        BY <1>5, <1>6 DEF DnWire
    <2>2. \A g \in OnWay' : g.seq > dIn'
      <3>1. \A g \in Owed : g.seq > dIn
        BY DEF Owed
      <3> HIDE DEF OnWay, Owed
      <3> QED
        BY <1>6, <3>1 DEF DnWire
    <2>3. ready' /\ pipe' = "open" => Owed' \subseteq OnWay'
      <3> HIDE DEF OnWay, Owed
      <3> QED
        BY <1>5, <1>6
    <2> QED
      BY <1>3, <1>4, <1>6, <2>1, <2>2, <2>3 DEF DnWire, Increasing, IsFrame
  <1>10. DnAcks'
    <2>1. Lines(toC') \subseteq Lines(toC)
      BY <1>1, TailLines
    <2> QED
      BY <2>1 DEF DnAcks
  <1>11. DnNext(Owed)' /\ DnNext(OnWay)'
    <2>1. DnNext(Owed) /\ DnNext(OnWay)
      OBVIOUS
    <2> HIDE DEF OnWay, Owed
    <2>2. DnNext(Owed)'
      BY <1>5, <2>1 DEF DnNext
    <2>3. DnNext(OnWay)'
      BY <1>6, <2>1 DEF DnNext
    <2> QED
      BY <2>2, <2>3
  <1>12. DnKept'
    <2>1. DnKept
      OBVIOUS
    <2> HIDE DEF OnWay, Owed
    <2> QED
      BY <1>3, <1>5, <2>1 DEF DnKept
  <1> QED
    BY <1>2, <1>3, <1>6, <1>8, <1>9, <1>10, <1>11, <1>12

\* Central sends the frames news, and keeps them or only the last of them.
LEMMA NewsDn ==
  ASSUME TypeOK, TypeOK', DnInv, NEW news \in Seq(Line), Increasing(news),
         \A i \in DOMAIN news : IsFrame(news[i]),
         \A g \in Frames(news) :
           /\ g.seq > cOut /\ g.seq <= cOut' /\ g.t \in {"data", "close"}
           /\ g.conn \in Conns /\ stream'[g.conn] # "none" /\ g.id = sid[g.conn]
           /\ g.t = "data" => g.n \in 1..sentDn'[g.conn]
           /\ g.t = "close" => g.n = 0 /\ stream'[g.conn] # "mapped"
           /\ \A h \in DnFrames : Key(h) # Key(g)
           /\ \A h \in Frames(news) : Key(h) = Key(g) \/ h.seq = g.seq => h = g
           /\ g.t = "data" /\ conn[g.conn] = "open" =>
                \/ g.n = Len(gotDn[g.conn]) + Len(queue[g.conn]) + 1
                \/ \E h \in Owed : h.t = "data" /\ h.conn = g.conn /\ h.n + 1 = g.n,
         cOut <= cOut',
         toD' = IF ready /\ pipe = "open" THEN toD \o news ELSE toD,
         Increasing(pending'), \A i \in DOMAIN pending' : IsFrame(pending'[i]),
         Frames(pending') \subseteq Frames(pending) \cup Frames(news),
         \/ Owed' = Owed \cup Frames(news)
         \/ /\ \A k \in Conns : stream'[k] # "mapped"
            /\ \A g \in Owed' : g.t # "data",
         \A k \in Conns : /\ stream[k] # "none" => stream'[k] # "none"
                          /\ stream[k] # "mapped" => stream'[k] # "mapped"
                          /\ sentDn[k] <= sentDn'[k],
         \A k \in Conns, n \in Nat : stream'[k] = "mapped" /\ n <= sentDn'[k] =>
             \/ n <= sentDn[k]
             \/ \E g \in Frames(news) : g.t = "data" /\ g.conn = k /\ g.n = n,
         UNCHANGED <<dIn, sid, conn, gotDn, queue, zombie, pipe, ready, toC>>
  PROVE  /\ DnInv'
         /\ Lines(toD') \subseteq Lines(toD) \cup Frames(news)
         /\ Lines(toD) \subseteq Lines(toD')
         /\ \A i \in DOMAIN toD' : (i \in DOMAIN toD /\ toD'[i] = toD[i]) \/ IsFrame(toD'[i])
  <1> USE DEF DnInv
  <1>1. /\ dIn \in Nat /\ cOut \in Nat /\ cOut' \in Nat /\ toD \in Seq(Line)
        /\ \A g \in DnFrames : /\ g.seq \in Nat /\ g.n \in Nat /\ g.conn \in Conns /\ g.seq <= cOut
                               /\ g.t \in {"data", "close"}
        /\ \A g \in Frames(news) : g.seq \in Nat
        /\ Owed \subseteq DnFrames /\ OnWay \subseteq DnFrames /\ Frames(pending) \subseteq DnFrames
        /\ dIn <= cOut
    <2>1. /\ dIn \in Nat /\ cOut \in Nat /\ toD \in Seq(Line) /\ dIn <= cOut
      BY WireTypes DEF DnWire
    <2>2. cOut' \in Nat
      BY DEF TypeOK, CentralTypeOK
    <2>3. \A g \in DnFrames : /\ g.seq \in Nat /\ g.n \in Nat /\ g.conn \in Conns /\ g.seq <= cOut
                              /\ g.t \in {"data", "close"}
      BY FrameTypes DEF DnSound
    <2>4. \A g \in Frames(news) : g.seq \in Nat
      BY LinesType, LineFields
    <2>5. Owed \subseteq DnFrames /\ OnWay \subseteq DnFrames /\ Frames(pending) \subseteq DnFrames
      BY FrameTypes
    <2> QED
      BY <2>1, <2>2, <2>3, <2>4, <2>5
  <1>2. \A g \in Frames(news), h \in DnFrames : h.seq < g.seq /\ h.seq # g.seq /\ ~(g.seq <= h.seq)
    <2> TAKE g \in Frames(news), h \in DnFrames
    <2>1. g.seq > cOut /\ g.seq \in Nat /\ h.seq \in Nat /\ h.seq <= cOut
      BY <1>1
    <2> QED
      BY <1>1, <2>1
  <1>a. \A g \in Frames(news) :
           /\ g.conn \in Conns
           /\ g.t = "data" /\ conn[g.conn] = "open" =>
                \/ g.n = Len(gotDn[g.conn]) + Len(queue[g.conn]) + 1
                \/ \E h \in Owed : h.t = "data" /\ h.conn = g.conn /\ h.n + 1 = g.n
    OBVIOUS
  <1>b. \A g \in Frames(news) :
           /\ \A h \in DnFrames : Key(h) # Key(g)
           /\ \A h \in Frames(news) : Key(h) = Key(g) \/ h.seq = g.seq => h = g
    OBVIOUS
  <1>3. /\ Increasing(toD')
        /\ Frames(toD') = Frames(toD) \cup (IF ready /\ pipe = "open" THEN Frames(news) ELSE {})
        /\ Lines(toD') \subseteq Lines(toD) \cup Frames(news) /\ Lines(toD) \subseteq Lines(toD')
        /\ \A i \in DOMAIN toD' : (i \in DOMAIN toD /\ toD'[i] = toD[i]) \/ IsFrame(toD'[i])
    <2>1. CASE ready /\ pipe = "open"
      <3>1. /\ Lines(toD') = Lines(toD) \cup Lines(news) /\ Frames(toD') = Frames(toD) \cup Frames(news)
        BY <1>1, <2>1, ConcatLines
      <3>2. Increasing(toD')
        <4>1. \A g \in Frames(toD), h \in Frames(news) : g.seq < h.seq
          BY <1>1, <1>2 DEF OnWay
        <4>2. Increasing(toD)
          BY DEF DnWire
        <4> QED
          BY <1>1, <2>1, <4>1, <4>2, ConcatLines
      <3>3. Lines(news) = Frames(news)
        BY DEF Lines, Frames
      <3>4. \A i \in DOMAIN toD' : (i \in DOMAIN toD /\ toD'[i] = toD[i]) \/ IsFrame(toD'[i])
        <4>1. \A i \in DOMAIN toD' : \/ i \in DOMAIN toD /\ toD'[i] = toD[i]
                                     \/ \E j \in DOMAIN news : toD'[i] = news[j]
          BY <1>1, <2>1, ConcatElements
        <4> QED
          BY <4>1
      <3> QED
        BY <2>1, <3>1, <3>2, <3>3, <3>4
    <2>2. CASE ~(ready /\ pipe = "open")
      BY <2>2 DEF DnWire
    <2> QED
      BY <2>1, <2>2
  <1>4. OnWay' = OnWay \cup (IF ready /\ pipe = "open" THEN Frames(news) ELSE {})
    BY <1>3 DEF OnWay
  <1>5. DnFrames' \subseteq DnFrames \cup Frames(news)
    BY <1>4 DEF DnFrames
  <1>6. Owed' \subseteq Owed \cup Frames(news)
    BY DEF Owed
  <1> HIDE DEF Owed, OnWay, DnFrames
  <1>7. DnSound'
    <2>1. ASSUME NEW g \in DnFrames'
          PROVE  /\ g.t \in {"data", "close"}
                 /\ g.conn \in Conns /\ stream'[g.conn] # "none" /\ g.id = sid'[g.conn] /\ g.seq <= cOut'
                 /\ g.t = "data" => g.n \in 1..sentDn'[g.conn]
                 /\ g.t = "close" => g.n = 0 /\ stream'[g.conn] # "mapped"
      <3>1. CASE g \in Frames(news)
        BY <3>1
      <3>2. CASE g \in DnFrames
        <4>1. /\ g.t \in {"data", "close"}
              /\ g.conn \in Conns /\ stream[g.conn] # "none" /\ g.id = sid[g.conn] /\ g.seq <= cOut
              /\ g.t = "data" => g.n \in 1..sentDn[g.conn]
              /\ g.t = "close" => g.n = 0 /\ stream[g.conn] # "mapped"
          BY <3>2 DEF DnSound
        <4>2. sentDn[g.conn] \in Nat /\ sentDn'[g.conn] \in Nat /\ sentDn[g.conn] <= sentDn'[g.conn]
          BY <4>1, WireTypes DEF TypeOK, AgentTypeOK
        <4>3. g.seq <= cOut'
          BY <1>1, <3>2, <4>1
        <4> QED
          BY <4>1, <4>2, <4>3
      <3> QED
        BY <1>5, <3>1, <3>2
    <2>2. ASSUME NEW g \in DnFrames', NEW h \in DnFrames', g.seq = h.seq \/ Key(g) = Key(h)
          PROVE  g = h
      <3>1. CASE g \in DnFrames /\ h \in DnFrames
        BY <2>2, <3>1 DEF DnSound
      <3>2. CASE g \in Frames(news) /\ h \in DnFrames
        BY <1>2, <1>b, <2>2, <3>2
      <3>3. CASE h \in Frames(news) /\ g \in DnFrames
        BY <1>2, <1>b, <2>2, <3>3
      <3>4. CASE g \in Frames(news) /\ h \in Frames(news)
        BY <1>b, <2>2, <3>4
      <3> QED
        BY <1>5, <3>1, <3>2, <3>3, <3>4
    <2> QED
      BY <2>1, <2>2 DEF DnSound, Key
  <1>8. DnWire'
    <2>1. \A g \in OnWay' : g.seq > dIn'
      <3>1. \A g \in Frames(news) : g.seq > dIn
        <4> TAKE g \in Frames(news)
        <4>1. g.seq > cOut /\ g.seq \in Nat
          BY <1>1
        <4> QED
          BY <1>1, <4>1
      <3> QED
        BY <1>4, <3>1 DEF DnWire
    <2>2. ASSUME NEW g \in OnWay', NEW h \in Owed', h.seq <= g.seq PROVE h \in OnWay'
      <3>1. CASE ready /\ pipe = "open"
        BY <1>4, <1>6, <3>1 DEF DnWire
      <3>2. CASE ~(ready /\ pipe = "open")
        <4>1. g \in OnWay /\ g \in DnFrames
          BY <1>1, <1>4, <3>2
        <4>2. h \notin Frames(news)
          BY <1>1, <1>2, <2>2, <4>1
        <4> QED
          BY <1>4, <1>6, <2>2, <4>1, <4>2 DEF DnWire
      <3> QED
        BY <3>1, <3>2
    <2>3. ready' /\ pipe' = "open" => Owed' \subseteq OnWay'
      BY <1>4, <1>6 DEF DnWire
    <2>4. dIn' <= cOut' /\ Increasing(zombie')
      BY <1>1 DEF DnWire
    <2> QED
      BY <1>3, <2>1, <2>2, <2>3, <2>4 DEF DnWire, Increasing, IsFrame
  <1>9. DnAcks'
    BY DEF DnAcks
  <1>10. ASSUME NEW F, DnNext(F), F \subseteq DnFrames, Owed \subseteq F
         PROVE  DnNext(F \cup Frames(news))
    <2> SUFFICES ASSUME NEW g \in F \cup Frames(news), g.t = "data", conn[g.conn] = "open"
                 PROVE  \/ g.n = Len(gotDn[g.conn]) + Len(queue[g.conn]) + 1
                        \/ \E h \in F \cup Frames(news) :
                              h.t = "data" /\ h.conn = g.conn /\ h.n + 1 = g.n /\ h.seq < g.seq
      BY DEF DnNext
    <2>1. CASE g \in F
      BY <1>10, <2>1 DEF DnNext
    <2>2. CASE g \in Frames(news)
      <3>1. \A h \in Owed : h \in F /\ h.seq < g.seq
        BY <1>1, <1>2, <1>10, <2>2
      <3>2. \/ g.n = Len(gotDn[g.conn]) + Len(queue[g.conn]) + 1
            \/ \E h \in Owed : h.t = "data" /\ h.conn = g.conn /\ h.n + 1 = g.n
        BY <1>a, <2>2
      <3> QED
        BY <3>1, <3>2
    <2> QED
      BY <2>1, <2>2
  <1>11. DnNext(Owed)'
    <2>1. CASE Owed' = Owed \cup Frames(news)
      <3>1. DnNext(Owed \cup Frames(news))
        BY <1>1, <1>10
      <3> QED
        BY <2>1, <3>1 DEF DnNext
    <2>2. CASE \A g \in Owed' : g.t # "data"
      BY <2>2 DEF DnNext
    <2> QED
      BY <2>1, <2>2
  <1>12. DnNext(OnWay)'
    <2>1. CASE ready /\ pipe = "open"
      <3>1. DnNext(OnWay \cup Frames(news))
        BY <1>1, <1>10, <2>1 DEF DnWire
      <3>2. OnWay' = OnWay \cup Frames(news)
        BY <1>4, <2>1
      <3> QED
        BY <3>1, <3>2 DEF DnNext
    <2>2. CASE ~(ready /\ pipe = "open")
      <3>1. OnWay' = OnWay
        BY <1>4, <2>2
      <3> QED
        BY <3>1 DEF DnNext
    <2> QED
      BY <2>1, <2>2
  <1>13. DnKept'
    <2> SUFFICES ASSUME NEW k \in Conns, stream'[k] = "mapped", conn[k] = "open",
                        NEW n \in (Len(gotDn[k]) + Len(queue[k]) + 1)..sentDn'[k]
                 PROVE  \E g \in Owed' : g.t = "data" /\ g.conn = k /\ g.n = n
      BY DEF DnKept
    <2>1. Owed' = Owed \cup Frames(news) /\ stream[k] = "mapped"
      OBVIOUS
    <2>2. /\ Len(gotDn[k]) \in Nat /\ Len(queue[k]) \in Nat /\ sentDn[k] \in Nat
          /\ sentDn'[k] \in Nat
      <3>1. sentDn'[k] \in Nat
        BY DEF TypeOK, AgentTypeOK
      <3> QED
        BY <3>1, ReadTypes
    <2> DEFINE a == Len(gotDn[k]) + Len(queue[k])
               b == sentDn[k]
               c == sentDn'[k]
    <2>a. /\ a \in Nat /\ b \in Nat /\ c \in Nat
          /\ n \in (a + 1)..c
      <3>1. a \in Nat /\ b \in Nat /\ c \in Nat
        <4>1. \A i, j \in Nat : i + j \in Nat
          OBVIOUS
        <4> QED
          BY <2>2, <4>1, Zenon
      <3>2. n \in (a + 1)..c
        OBVIOUS
      <3> QED
        BY <3>1, <3>2
    <2>c. \A m \in (a + 1)..b : \E g \in Owed : g.t = "data" /\ g.conn = k /\ g.n = m
      <3>1. \A m \in (Len(gotDn[k]) + Len(queue[k]) + 1)..sentDn[k] :
              \E g \in Owed : g.t = "data" /\ g.conn = k /\ g.n = m
        BY <2>1 DEF DnKept
      <3> QED
        BY <3>1
    <2> HIDE DEF a, b, c
    <2>b. n \in Nat /\ n <= c /\ (n <= b => n \in (a + 1)..b)
      BY <2>a
    <2>3. n \in Nat /\ n <= sentDn'[k]
      BY <2>b DEF c
    <2>4. CASE n <= sentDn[k]
      <3>1. n \in (a + 1)..b
        BY <2>b, <2>4 DEF b
      <3> QED
        BY <2>1, <2>c, <3>1
    <2>5. CASE \E g \in Frames(news) : g.t = "data" /\ g.conn = k /\ g.n = n
      BY <2>1, <2>5
    <2> QED
      BY <2>3, <2>4, <2>5
  <1> QED
    BY <1>3, <1>7, <1>8, <1>9, <1>11, <1>12, <1>13

\* #send on overflow: what it keeps is a close for each stream left, numbered on.
LEMMA SendCloses ==
  ASSUME TypeOK, NEW t \in {"data", "close"}, NEW k \in Conns, NEW n \in Nat,
         NEW streams \in [Conns -> StreamStates], Send(t, k, n, streams),
         ~(Len(Append(pending, Frame(t, k, n, cOut + 1))) <= MaxBuffer)
  PROVE  \E closes \in Seq(Line) :
           /\ \A i \in DOMAIN closes :
                /\ closes[i].t = "close" /\ closes[i].n = 0 /\ closes[i].seq = cOut + 1 + i
                /\ closes[i].conn \in Conns /\ streams[closes[i].conn] = "mapped"
                /\ closes[i].id = sid[closes[i].conn]
           /\ \A i, j \in DOMAIN closes : i < j => closes[i].conn < closes[j].conn
           /\ cOut' = cOut + 1 + Len(closes) /\ pending' = closes /\ stream' = Dropped(streams)
           /\ Write(IF ready THEN <<Frame(t, k, n, cOut + 1)>> \o closes ELSE <<>>)
  <1> DEFINE f == Frame(t, k, n, cOut + 1)
             left == {j \in Conns : streams[j] = "mapped"}
             c == Cardinality(left)
  <1>1. cOut \in Nat /\ sid \in [Conns -> Nat]
    BY WireTypes
  <1>2. c \in Nat
    <2>1. IsFiniteSet(Conns)
      BY BoundsAssumption, FS_Interval DEF Conns
    <2> QED
      BY <2>1, FS_Subset, FS_CardinalityType
  <1>3. PICK order \in [1..c -> left] :
                 LET closes == [i \in 1..c |-> Frame("close", order[i], 0, cOut + 1 + i)]
                 IN /\ \A i, j \in DOMAIN order : i < j => order[i] < order[j]
                    /\ cOut' = cOut + 1 + c
                    /\ pending' = closes /\ stream' = Dropped(streams)
                    /\ Write(IF ready THEN <<f>> \o closes ELSE <<>>)
    BY DEF Send
  <1> HIDE DEF c
  <1> DEFINE closes == [i \in 1..c |-> Frame("close", order[i], 0, cOut + 1 + i)]
  <1>4. \A i \in 1..c : order[i] \in Conns /\ streams[order[i]] = "mapped"
    <2>1. \A i \in 1..c : order[i] \in left
      BY <1>3
    <2> QED
      BY <2>1
  <1>5. \A i \in 1..c : /\ closes[i] = Frame("close", order[i], 0, cOut + 1 + i)
                        /\ cOut + 1 + i \in Nat
    BY <1>1, <1>2
  <1>6. /\ closes \in Seq(Line) /\ DOMAIN closes = 1..c /\ Len(closes) = c
    <2>1. \A i \in 1..c : closes[i] \in Line
      BY <1>1, <1>4, <1>5, LineTypes DEF Kinds
    <2>2. closes \in [1..c -> Line]
      BY <2>1
    <2> HIDE DEF closes
    <2>3. closes \in Seq(Line)
      BY <1>2, <2>2, SeqDef
    <2> QED
      BY <1>2, <2>2, <2>3, LenProperties
  <1>7. \A i \in 1..c :
                /\ closes[i].t = "close" /\ closes[i].n = 0 /\ closes[i].seq = cOut + 1 + i
                /\ closes[i].conn = order[i] /\ closes[i].id = sid[order[i]]
    BY <1>5 DEF Frame
  <1>8. /\ \A i, j \in 1..c : i < j => order[i] < order[j]
        /\ cOut' = cOut + 1 + c /\ pending' = closes /\ stream' = Dropped(streams)
        /\ Write(IF ready THEN <<f>> \o closes ELSE <<>>)
    BY <1>3
  <1> HIDE DEF closes, left
  <1>9. \A i \in DOMAIN closes :
          /\ closes[i].t = "close" /\ closes[i].n = 0 /\ closes[i].seq = cOut + 1 + i
          /\ closes[i].conn \in Conns /\ streams[closes[i].conn] = "mapped"
          /\ closes[i].id = sid[closes[i].conn]
    BY <1>4, <1>6, <1>7
  <1>10. \A i, j \in DOMAIN closes : i < j => closes[i].conn < closes[j].conn
    BY <1>6, <1>7, <1>8
  <1>11. /\ cOut' = cOut + 1 + Len(closes) /\ pending' = closes /\ stream' = Dropped(streams)
         /\ Write(IF ready THEN <<f>> \o closes ELSE <<>>)
    BY <1>6, <1>8
  <1> QED
    BY <1>6, <1>9, <1>10, <1>11

\* What Send leaves of the streams.
LEMMA SendStreams ==
  ASSUME TypeOK, NEW t \in {"data", "close"}, NEW k \in Conns, NEW n \in Nat,
         NEW streams \in [Conns -> StreamStates], Send(t, k, n, streams),
         \A j \in Conns : \/ streams[j] = stream[j]
                          \/ j = k /\ t = "close" /\ stream[j] = "mapped" /\ streams[j] \in {"ended", "gone"}
  PROVE  /\ \A j \in Conns : \/ stream'[j] = stream[j]
                             \/ stream[j] = "mapped" /\ stream'[j] \in {"ended", "gone"}
         /\ t = "close" => stream'[k] # "mapped" \/ streams[k] = "mapped"
         /\ \A j \in Conns : stream'[j] = "mapped" => stream' = streams
  <1>1. stream' = streams \/ stream' = Dropped(streams)
    BY DEF Send
  <1>2. CASE stream' = streams
    BY <1>2
  <1>3. CASE stream' = Dropped(streams)
    BY <1>3 DEF Dropped
  <1> QED
    BY <1>1, <1>2, <1>3

\* What a route sends or ends, on its way to the agent.
LEMMA SendDn ==
  ASSUME TypeOK, TypeOK', Ends, Prefixes, DnInv, NEW t \in {"data", "close"}, NEW k \in Conns, NEW n \in Nat,
         NEW streams \in [Conns -> StreamStates], Send(t, k, n, streams),
         stream[k] # "none",
         \A j \in Conns : \/ streams[j] = stream[j]
                          \/ j = k /\ t = "close" /\ stream[j] = "mapped" /\ streams[j] \in {"ended", "gone"},
         t = "data" => /\ streams = stream /\ n = sentDn[k] + 1 /\ sentDn' = [sentDn EXCEPT ![k] = n]
                       /\ stream[k] = "mapped" \/ conn[k] = "closed",
         t = "close" => n = 0 /\ sentDn' = sentDn /\ stream[k] = "mapped" /\ streams[k] # "mapped",
         UNCHANGED <<dIn, sid, conn, gotDn, queue, zombie, pipe, ready, toC>>
  PROVE  /\ DnInv'
         /\ \A a \in Lines(toD') : ~IsFrame(a) => a \in Lines(toD)
         /\ Lines(toD) \subseteq Lines(toD')
         /\ \A i \in DOMAIN toD' : (i \in DOMAIN toD /\ toD'[i] = toD[i]) \/ IsFrame(toD'[i])
         /\ Len(pending) < MaxBuffer =>
              stream' = streams /\ Owed' = Owed \cup {Frame(t, k, n, cOut + 1)}
  <1> DEFINE f == Frame(t, k, n, cOut + 1)
  <1> USE DEF DnInv
  <1>1. /\ pending \in Seq(Line) /\ cOut \in Nat /\ sid \in [Conns -> Nat] /\ dIn \in Nat
        /\ cOut' \in Nat /\ Len(pending) \in Nat /\ sentDn \in [Conns -> Nat] /\ MaxBuffer \in Nat
        /\ stream \in [Conns -> StreamStates] /\ dIn <= cOut /\ toD \in Seq(Line)
    BY WireTypes, LimitsAssumption, LenProperties DEF DnWire, TypeOK, CentralTypeOK
  <1>2. /\ f \in Line /\ f.t = t /\ f.conn = k /\ f.id = sid[k] /\ f.n = n /\ f.seq = cOut + 1
        /\ IsFrame(f)
    <2>1. f \in Line
      BY <1>1, LineTypes DEF Kinds
    <2> QED
      BY <2>1 DEF Frame, IsFrame
  <1>3. /\ \A g \in DnFrames :
             /\ g.conn \in Conns /\ g.seq \in Nat /\ g.seq <= cOut /\ g.n \in Nat
             /\ g.t = "close" => stream[g.conn] # "mapped"
             /\ g.t = "data" => g.n <= sentDn[g.conn]
    <2>1. \A g \in DnFrames :
             /\ g.conn \in Conns /\ g.seq \in Nat /\ g.seq <= cOut /\ g.n \in Nat
             /\ g.t = "close" => stream[g.conn] # "mapped"
             /\ g.t = "data" => g.n \in 1..sentDn[g.conn]
      BY FrameTypes DEF DnSound
    <2> QED
      BY <1>1, <2>1
  <1> HIDE DEF f
  <1>4. \A g \in DnFrames : Key(g) # Key(f)
    <2> SUFFICES ASSUME NEW g \in DnFrames, g.t = t, g.conn = k, g.n = n PROVE FALSE
      BY <1>2 DEF Key
    <2>1. CASE t = "data"
      <3>1. n = sentDn[k] + 1 /\ g.n <= sentDn[k] /\ sentDn[k] \in Nat
        BY <1>1, <1>3, <2>1
      <3> QED
        BY <3>1
    <2>2. CASE t = "close"
      BY <1>3, <2>2
    <2> QED
      BY <2>1, <2>2
  <1>5. /\ sentDn' \in [Conns -> Nat]
        /\ \A j \in Conns : sentDn[j] \in Nat /\ sentDn'[j] \in Nat /\ sentDn[j] <= sentDn'[j]
        /\ \A j \in Conns, m \in Nat : m <= sentDn'[j] =>
              m <= sentDn[j] \/ (t = "data" /\ j = k /\ m = n)
        /\ t = "data" => n \in 1..sentDn'[k]
    <2>1. CASE t = "data"
      <3>1. /\ sentDn'[k] = sentDn[k] + 1 /\ n = sentDn[k] + 1
            /\ \A j \in Conns : j # k => sentDn'[j] = sentDn[j]
        BY <1>1, <2>1
      <3>2. sentDn' \in [Conns -> Nat] /\ \A j \in Conns : sentDn[j] \in Nat /\ sentDn'[j] \in Nat
        BY <1>1 DEF TypeOK, AgentTypeOK
      <3>3. ASSUME NEW j \in Conns
            PROVE  /\ sentDn[j] <= sentDn'[j]
                   /\ \A m \in Nat : m <= sentDn'[j] => m <= sentDn[j] \/ (j = k /\ m = n)
        <4>1. CASE j = k
          BY <3>1, <3>2, <4>1
        <4>2. CASE j # k
          BY <3>1, <3>2, <4>2
        <4> QED
          BY <4>1, <4>2
      <3>4. n \in 1..sentDn'[k]
        BY <3>1, <3>2
      <3> QED
        BY <2>1, <3>2, <3>3, <3>4
    <2>2. CASE t = "close"
      BY <1>1, <2>2
    <2> QED
      BY <2>1, <2>2
  <1>6. t = "data" /\ conn[k] = "open" =>
             \/ n = Len(gotDn[k]) + Len(queue[k]) + 1
             \/ \E h \in Owed : h.t = "data" /\ h.conn = k /\ h.n + 1 = n
    <2> SUFFICES ASSUME t = "data", conn[k] = "open", n # Len(gotDn[k]) + Len(queue[k]) + 1
                 PROVE  \E h \in Owed : h.t = "data" /\ h.conn = k /\ h.n + 1 = n
      OBVIOUS
    <2> DEFINE a == Len(gotDn[k]) + Len(queue[k])
               b == sentDn[k]
    <2>1. a \in Nat /\ b \in Nat /\ n = b + 1 /\ a <= b
      <3>1. /\ Len(gotDn[k]) \in Nat /\ Len(queue[k]) \in Nat
            /\ Len(gotDn[k]) + Len(queue[k]) <= sentDn[k]
        BY ReadTypes DEF Prefixes
      <3>2. \A i, j \in Nat : i + j \in Nat
        OBVIOUS
      <3>3. a \in Nat
        BY <3>1, <3>2
      <3> QED
        BY <1>1, <3>1, <3>3
    <2>2. \A m \in (a + 1)..b : \E h \in Owed : h.t = "data" /\ h.conn = k /\ h.n = m
      BY DEF DnKept
    <2>3. n # a + 1
      OBVIOUS
    <2> HIDE DEF a, b
    <2>4. b \in (a + 1)..b
      BY <2>1, <2>3
    <2> QED
      BY <2>1, <2>2, <2>4
  <1>7. /\ \A j \in Conns : \/ stream'[j] = stream[j]
                            \/ stream[j] = "mapped" /\ stream'[j] \in {"ended", "gone"}
        /\ t = "close" => stream'[k] # "mapped"
        /\ stream'[k] # "none"
        /\ \A j \in Conns : stream'[j] = "mapped" => stream' = streams
    <2>1. t = "close" => streams[k] # "mapped"
      OBVIOUS
    <2>2. /\ \A j \in Conns : \/ stream'[j] = stream[j]
                              \/ stream[j] = "mapped" /\ stream'[j] \in {"ended", "gone"}
          /\ t = "close" => stream'[k] # "mapped" \/ streams[k] = "mapped"
          /\ \A j \in Conns : stream'[j] = "mapped" => stream' = streams
      BY SendStreams
    <2> QED
      BY <2>1, <2>2
  <1>8. CASE Len(Append(pending, f)) <= MaxBuffer
    <2>1. cOut' = cOut + 1 /\ pending' = Append(pending, f) /\ stream' = streams
          /\ toD' = IF ready /\ pipe = "open" THEN toD \o <<f>> ELSE toD
      <3>1. /\ cOut' = cOut + 1 /\ pending' = Append(pending, f) /\ stream' = streams
            /\ Write(IF ready THEN <<f>> ELSE <<>>)
        BY <1>8 DEF Send, f
      <3>2. toD \o <<>> = toD
        BY <1>1, ConcatEmptySeq
      <3> QED
        BY <3>1, <3>2 DEF Write
    <2>2. /\ <<f>> \in Seq(Line) /\ Frames(<<f>>) = {f} /\ Increasing(<<f>>)
          /\ \A i \in DOMAIN <<f>> : IsFrame(<<f>>[i])
      <3>1. /\ <<f>> \in Seq(Line) /\ Lines(<<f>>) = {f} /\ Frames(<<f>>) = {f} /\ Increasing(<<f>>)
        BY <1>2, OneLine
      <3> QED
        BY <1>2, <3>1 DEF Lines
    <2>3. /\ Frames(pending') = Frames(pending) \cup {f} /\ Increasing(pending')
          /\ \A i \in DOMAIN pending' : IsFrame(pending'[i])
      <3>1. \A g \in Frames(pending) : g.seq < f.seq
        <4>1. \A g \in Frames(pending) : g.seq \in Nat /\ g.seq <= cOut
          BY <1>3, FrameTypes
        <4> QED
          BY <1>1, <1>2, <4>1
      <3>2. /\ Append(pending, f) = pending \o <<f>>
            /\ Lines(pending \o <<f>>) = Lines(pending) \cup {f}
            /\ Frames(pending \o <<f>>) = Frames(pending) \cup {f}
            /\ Increasing(pending \o <<f>>)
        BY <1>1, <1>2, <3>1, AppendLines DEF DnWire
      <3>3. \A l \in Lines(pending) : IsFrame(l)
        BY DEF Lines, DnWire
      <3>4. \A l \in Lines(pending') : IsFrame(l)
        BY <1>2, <2>1, <3>2, <3>3
      <3> QED
        BY <2>1, <3>2, <3>4 DEF Lines
    <2>4. Owed' = Owed \cup {f}
      <3>1. f.seq > dIn
        BY <1>1, <1>2
      <3> QED
        BY <2>3, <3>1 DEF Owed
    <2>5. \A g \in Frames(<<f>>) :
           /\ g.seq > cOut /\ g.seq <= cOut' /\ g.t \in {"data", "close"}
           /\ g.conn \in Conns /\ stream'[g.conn] # "none" /\ g.id = sid[g.conn]
           /\ g.t = "data" => g.n \in 1..sentDn'[g.conn]
           /\ g.t = "close" => g.n = 0 /\ stream'[g.conn] # "mapped"
           /\ \A h \in DnFrames : Key(h) # Key(g)
           /\ \A h \in Frames(<<f>>) : Key(h) = Key(g) \/ h.seq = g.seq => h = g
           /\ g.t = "data" /\ conn[g.conn] = "open" =>
                \/ g.n = Len(gotDn[g.conn]) + Len(queue[g.conn]) + 1
                \/ \E h \in Owed : h.t = "data" /\ h.conn = g.conn /\ h.n + 1 = g.n
      <3>1. f.seq > cOut /\ f.seq <= cOut'
        BY <1>1, <1>2, <2>1
      <3>2. f.t = "close" => f.n = 0
        BY <1>2
      <3>3. t = "close" => stream'[k] # "mapped"
        BY <1>7
      <3>4. t = "data" => n \in 1..sentDn'[k]
        BY <1>5
      <3>5. stream'[k] # "none"
        BY <1>7
      <3> HIDE DEF Owed
      <3> QED
        BY <1>2, <1>4, <1>6, <2>2, <3>1, <3>2, <3>3, <3>4, <3>5
    <2>6. \A j \in Conns, m \in Nat : stream'[j] = "mapped" /\ m <= sentDn'[j] =>
             \/ m <= sentDn[j]
             \/ \E g \in Frames(<<f>>) : g.t = "data" /\ g.conn = j /\ g.n = m
      BY <1>2, <1>5, <2>2
    <2>7. /\ cOut <= cOut'
          /\ \A j \in Conns : /\ stream[j] # "none" => stream'[j] # "none"
                              /\ stream[j] # "mapped" => stream'[j] # "mapped"
                              /\ sentDn[j] <= sentDn'[j]
      BY <1>1, <1>5, <1>7, <2>1
    <2> DEFINE news == <<f>>
    <2> HIDE DEF news
    <2>8. /\ DnInv'
          /\ Lines(toD') \subseteq Lines(toD) \cup Frames(news)
          /\ Lines(toD) \subseteq Lines(toD')
          /\ \A i \in DOMAIN toD' : (i \in DOMAIN toD /\ toD'[i] = toD[i]) \/ IsFrame(toD'[i])
      <3>1. /\ Frames(pending') \subseteq Frames(pending) \cup Frames(news)
            /\ Owed' = Owed \cup Frames(news) /\ news \in Seq(Line)
            /\ Increasing(news) /\ \A i \in DOMAIN news : IsFrame(news[i])
            /\ toD' = IF ready /\ pipe = "open" THEN toD \o news ELSE toD
        BY <2>1, <2>2, <2>3, <2>4 DEF news
      <3>2. \A g \in Frames(news) :
           /\ g.seq > cOut /\ g.seq <= cOut' /\ g.t \in {"data", "close"}
           /\ g.conn \in Conns /\ stream'[g.conn] # "none" /\ g.id = sid[g.conn]
           /\ g.t = "data" => g.n \in 1..sentDn'[g.conn]
           /\ g.t = "close" => g.n = 0 /\ stream'[g.conn] # "mapped"
           /\ \A h \in DnFrames : Key(h) # Key(g)
           /\ \A h \in Frames(news) : Key(h) = Key(g) \/ h.seq = g.seq => h = g
           /\ g.t = "data" /\ conn[g.conn] = "open" =>
                \/ g.n = Len(gotDn[g.conn]) + Len(queue[g.conn]) + 1
                \/ \E h \in Owed : h.t = "data" /\ h.conn = g.conn /\ h.n + 1 = g.n
        BY <2>5 DEF news
      <3>3. \A j \in Conns, m \in Nat : stream'[j] = "mapped" /\ m <= sentDn'[j] =>
             \/ m <= sentDn[j]
             \/ \E g \in Frames(news) : g.t = "data" /\ g.conn = j /\ g.n = m
        BY <2>6 DEF news
      <3> HIDE DEF Owed
      <3> QED
        BY <2>3, <2>7, <3>1, <3>2, <3>3, NewsDn
    <2>9. \A a \in Lines(toD') : ~IsFrame(a) => a \in Lines(toD)
      BY <2>8 DEF Frames
    <2> QED
      BY <2>1, <2>4, <2>8, <2>9 DEF f
  <1>9. CASE ~(Len(Append(pending, f)) <= MaxBuffer)
    <2>1. PICK closes \in Seq(Line) :
           /\ \A i \in DOMAIN closes :
                /\ closes[i].t = "close" /\ closes[i].n = 0 /\ closes[i].seq = cOut + 1 + i
                /\ closes[i].conn \in Conns /\ streams[closes[i].conn] = "mapped"
                /\ closes[i].id = sid[closes[i].conn]
           /\ \A i, j \in DOMAIN closes : i < j => closes[i].conn < closes[j].conn
           /\ cOut' = cOut + 1 + Len(closes) /\ pending' = closes /\ stream' = Dropped(streams)
           /\ Write(IF ready THEN <<f>> \o closes ELSE <<>>)
      BY <1>9, SendCloses DEF f
    <2>2. /\ Len(closes) \in Nat /\ DOMAIN closes = 1..Len(closes)
          /\ \A j \in Conns : stream'[j] # "mapped"
      BY <2>1, Elements DEF Dropped
    <2>3. \A i \in DOMAIN closes : i \in Nat /\ closes[i].seq \in Nat /\ closes[i].seq > cOut + 1
                                 /\ closes[i].seq <= cOut' /\ closes[i].conn \in Nat
      <3> TAKE i \in DOMAIN closes
      <3>1. i \in 1..Len(closes) /\ closes[i].seq = cOut + 1 + i
        BY <2>1, <2>2
      <3>2. closes[i].conn \in Nat
        BY <2>1, BoundsAssumption DEF Conns
      <3> QED
        BY <1>1, <2>1, <2>2, <3>1, <3>2
    <2>4. /\ \A i \in DOMAIN closes : IsFrame(closes[i])
          /\ Lines(closes) = Frames(closes) /\ Increasing(closes)
      <3>1. \A i \in DOMAIN closes : IsFrame(closes[i])
        BY <2>1 DEF IsFrame
      <3>2. \A i, j \in DOMAIN closes : i < j => closes[i].seq < closes[j].seq
        BY <1>1, <2>1, <2>3
      <3> QED
        BY <3>1, <3>2 DEF Lines, Frames, Increasing
    <2>5. \A c \in Frames(closes) :
            /\ c.t = "close" /\ c.n = 0 /\ c.seq > cOut + 1 /\ c.seq <= cOut' /\ c.seq \in Nat
            /\ c.conn \in Conns /\ streams[c.conn] = "mapped" /\ c.id = sid[c.conn]
      BY <2>1, <2>3 DEF Lines, Frames
    <2>6. \A c, d \in Frames(closes) : c.conn = d.conn \/ c.seq = d.seq => c = d
      <3> SUFFICES ASSUME NEW i \in DOMAIN closes, NEW j \in DOMAIN closes,
                          closes[i].conn = closes[j].conn \/ closes[i].seq = closes[j].seq
                   PROVE  closes[i] = closes[j]
        BY DEF Lines, Frames
      <3>1. i \in Nat /\ j \in Nat /\ closes[i].conn \in Nat /\ closes[j].conn \in Nat
        BY <2>3
      <3>2. closes[i].seq = cOut + 1 + i /\ closes[j].seq = cOut + 1 + j
        BY <2>1
      <3>3. ~(i < j) /\ ~(j < i)
        <4>1. /\ i < j => closes[i].conn < closes[j].conn
              /\ j < i => closes[j].conn < closes[i].conn
          BY <2>1
        <4> DEFINE p == closes[i].conn
                   r == closes[j].conn
                   u == closes[i].seq
                   w == closes[j].seq
        <4>2. /\ p \in Nat /\ r \in Nat /\ (p = r \/ u = w)
              /\ u = cOut + 1 + i /\ w = cOut + 1 + j
              /\ i < j => p < r
              /\ j < i => r < p
          BY <3>1, <3>2, <4>1
        <4> HIDE DEF p, r, u, w
        <4>3. CASE p = r
          BY <4>2, <4>3
        <4>4. CASE u = w
          <5>1. cOut \in Nat /\ cOut + 1 + i = cOut + 1 + j
            BY <1>1, <4>2, <4>4
          <5>2. i = j
            BY <3>1, <5>1
          <5> QED
            BY <3>1, <5>2
        <4> QED
          BY <4>2, <4>3, <4>4
      <3> QED
        BY <3>1, <3>3
    <2>7. \A c \in Frames(closes) : stream[c.conn] = "mapped" /\ c.conn = k => t = "data"
      BY <2>5
    <2>8. \A c \in Frames(closes) : stream[c.conn] = "mapped" /\ stream'[c.conn] # "none"
      BY <1>7, <2>5
    <2> DEFINE news == <<f>> \o closes
    <2>9. /\ news \in Seq(Line) /\ Frames(news) = {f} \cup Frames(closes) /\ Increasing(news)
          /\ \A i \in DOMAIN news : IsFrame(news[i])
      <3>1. /\ <<f>> \in Seq(Line) /\ Lines(<<f>>) = {f} /\ Frames(<<f>>) = {f} /\ Increasing(<<f>>)
        BY <1>2, OneLine
      <3>2. \A g \in Frames(<<f>>), h \in Frames(closes) : g.seq < h.seq
        BY <1>1, <1>2, <2>5, <3>1
      <3>3. /\ Lines(news) = {f} \cup Lines(closes) /\ Frames(news) = {f} \cup Frames(closes)
            /\ Increasing(news)
        BY <2>4, <3>1, <3>2, ConcatLines
      <3>4. \A l \in Lines(news) : IsFrame(l)
        BY <1>2, <2>4, <3>3 DEF Frames
      <3>5. news \in Seq(Line)
        BY <3>1, SeqOps
      <3> QED
        BY <3>3, <3>4, <3>5 DEF Lines
    <2>10. toD' = IF ready /\ pipe = "open" THEN toD \o news ELSE toD
      <3>1. toD \o <<>> = toD
        BY <1>1, ConcatEmptySeq
      <3> QED
        BY <2>1, <3>1 DEF Write
    <2>11. \A g \in Owed' : g.t # "data"
      BY <2>1, <2>5 DEF Owed
    <2> HIDE DEF news, Owed
    <2>12. ASSUME NEW g \in Frames(news)
           PROVE  /\ g.seq > cOut /\ g.seq <= cOut' /\ g.t \in {"data", "close"}
                  /\ g.conn \in Conns /\ stream'[g.conn] # "none" /\ g.id = sid[g.conn]
                  /\ g.t = "data" => g.n \in 1..sentDn'[g.conn]
                  /\ g.t = "close" => g.n = 0 /\ stream'[g.conn] # "mapped"
                  /\ \A h \in DnFrames : Key(h) # Key(g)
                  /\ \A h \in Frames(news) : Key(h) = Key(g) \/ h.seq = g.seq => h = g
                  /\ g.t = "data" /\ conn[g.conn] = "open" =>
                       \/ g.n = Len(gotDn[g.conn]) + Len(queue[g.conn]) + 1
                       \/ \E h \in Owed : h.t = "data" /\ h.conn = g.conn /\ h.n + 1 = g.n
      <3>1. \A c \in Frames(closes) : Key(c) # Key(f) /\ c.seq # f.seq
        BY <1>1, <1>2, <2>5, <2>7, <2>8 DEF Key
      <3>2. CASE g = f
        <4>1. f.seq > cOut /\ f.seq <= cOut' /\ (f.t = "close" => f.n = 0 /\ stream'[f.conn] # "mapped")
          BY <1>1, <1>2, <2>1, <2>2
        <4>2. \A h \in Frames(news) : Key(h) = Key(f) \/ h.seq = f.seq => h = f
          BY <2>9, <3>1
        <4>3. \A h \in DnFrames : Key(h) # Key(f)
          BY <1>4
        <4> QED
          BY <1>2, <1>5, <1>6, <1>7, <3>2, <4>1, <4>2, <4>3
      <3>3. CASE g \in Frames(closes)
        <4>1. g.seq > cOut /\ g.seq <= cOut'
          BY <1>1, <2>5, <3>3
        <4>2. \A h \in DnFrames : Key(h) # Key(g)
          BY <1>3, <2>5, <2>8, <3>3 DEF Key
        <4>3. \A h \in Frames(news) : Key(h) = Key(g) \/ h.seq = g.seq => h = g
          BY <2>6, <2>9, <3>1, <3>3 DEF Key
        <4> QED
          BY <2>2, <2>5, <2>8, <3>3, <4>1, <4>2, <4>3
      <3> QED
        BY <2>9, <3>2, <3>3
    <2>13. /\ cOut <= cOut'
           /\ \A j \in Conns : /\ stream[j] # "none" => stream'[j] # "none"
                               /\ stream[j] # "mapped" => stream'[j] # "mapped"
                               /\ sentDn[j] <= sentDn'[j]
      <3>1. cOut <= cOut'
        BY <1>1, <2>1, <2>2
      <3>2. \A j \in Conns : sentDn[j] <= sentDn'[j]
        BY <1>5
      <3>3. \A j \in Conns : stream[j] # "none" => stream'[j] # "none"
        BY <1>7
      <3>4. \A j \in Conns : stream'[j] # "mapped"
        BY <2>2
      <3> QED
        BY <3>1, <3>2, <3>3, <3>4
    <2>14. /\ DnInv'
           /\ Lines(toD') \subseteq Lines(toD) \cup Frames(news)
           /\ Lines(toD) \subseteq Lines(toD')
           /\ \A i \in DOMAIN toD' : (i \in DOMAIN toD /\ toD'[i] = toD[i]) \/ IsFrame(toD'[i])
      <3>1. /\ Frames(pending') \subseteq Frames(pending) \cup Frames(news)
            /\ Increasing(pending') /\ \A i \in DOMAIN pending' : IsFrame(pending'[i])
        BY <2>1, <2>4, <2>9
      <3>2. \A j \in Conns, m \in Nat : stream'[j] = "mapped" /\ m <= sentDn'[j] =>
             \/ m <= sentDn[j]
             \/ \E g \in Frames(news) : g.t = "data" /\ g.conn = j /\ g.n = m
        BY <2>2
      <3> QED
        BY <2>2, <2>9, <2>10, <2>11, <2>12, <2>13, <3>1, <3>2, NewsDn
    <2>15. \A a \in Lines(toD') : ~IsFrame(a) => a \in Lines(toD)
      BY <2>14 DEF Frames
    <2>16. ~(Len(pending) < MaxBuffer)
      <3>1. Len(Append(pending, f)) = Len(pending) + 1
        BY <1>1, <1>2, AppendProperties
      <3> QED
        BY <1>1, <1>9, <3>1
    <2> QED
      BY <2>14, <2>15, <2>16
  <1> QED
    BY <1>8, <1>9

-----------------------------------------------------------------------------
(* Each step keeps both directions in order.                               *)

\* What a write to the client makes of the two pipes.
LEMMA PipesStay ==
  ASSUME Pipes, UNCHANGED <<pipe, client, ready, cIn, dIn, toD, zombie>>,
         client # "cur" \/ pipe # "open" => toC' = toC,
         \A i \in DOMAIN toC' : toC'[i].t = "ready" => i \in DOMAIN toC /\ toC'[i] = toC[i]
  PROVE  Pipes'
  <1>1. /\ pipe' \in {"none", "missing"} => ~ready' /\ toC' = <<>>
        /\ pipe' = "open" /\ client' # "cur" => ~ready' /\ toC' = <<>>
        /\ client' # "cur" => Frames(toD') = {}
        /\ client' # "old" => zombie' = <<>>
        /\ client' = "old" => toC' = <<>>
    BY DEF Pipes, Frames, Lines, IsFrame
  <1>2. ASSUME NEW i \in DOMAIN toD', toD'[i].t = "hello"
        PROVE  /\ i = 1 /\ client' # "cur" /\ toC' = <<>> /\ toD'[i].n = cIn' /\ toD'[i].seq >= dIn'
               /\ \A f \in Frames(zombie') : f.seq <= toD'[i].seq
    BY <1>2 DEF Pipes, Frames, Lines, IsFrame
  <1>3. ASSUME NEW i \in DOMAIN toC', toC'[i].t = "ready"
        PROVE  i = 1 /\ ~ready' /\ toC'[i].seq >= cIn' /\ toC'[i].n = dIn' /\ Frames(toD') = {}
    BY <1>3 DEF Pipes, Frames, Lines, IsFrame
  <1> QED
    BY <1>1, <1>2, <1>3 DEF Pipes

\* What ToClient does to the ready lines on the pipe.
LEMMA ClientPipes ==
  ASSUME TypeOK, UpInv, Pipes, NEW l \in Line, l.t # "ready", ToClient(<<l>>),
         IsFrame(l) => l.seq > dOut,
         UNCHANGED <<pipe, client, ready, cIn, dIn, toD, zombie>>
  PROVE  /\ Pipes'
         /\ \A a \in Lines(toC') : a \in Lines(toC) \/ a = l
         /\ \A i \in DOMAIN toC' : (i \in DOMAIN toC /\ toC'[i] = toC[i]) \/ toC'[i] = l
  <1>1. \A f \in Frames(toC) : f.seq \in Nat /\ f.seq <= dOut /\ dOut \in Nat
    BY FrameTypes, WireTypes DEF UpInv, UpSound
  <1>2. IsFrame(l) => \A f \in Frames(toC) : f.seq < l.seq
    BY <1>1, LineFields
  <1>3. toC \in Seq(Line) /\ Increasing(toC)
    BY WireTypes DEF UpInv, UpWire
  <1>4. /\ Lines(toC') \subseteq Lines(toC) \cup {l}
        /\ ~(client = "cur" /\ pipe = "open") => toC' = toC
        /\ \A i \in DOMAIN toC' : \/ i \in DOMAIN toC /\ toC'[i] = toC[i]
                                  \/ i = Len(toC) + 1 /\ toC'[i] = l
    BY <1>2, <1>3, ToClientLines
  <1>5. Pipes'
    BY <1>4, PipesStay
  <1> QED
    BY <1>4, <1>5

\* The tunnels reset, by a buffer too full or a grace run out.
LEMMA ResetTransit ==
  ASSUME TypeOK, TypeOK', Transit, ResetTunnels, dOut <= dOut', nextStream <= nextStream',
         toC' = toC \/ ToClient(<<Control("reset", 0, 0)>>),
         \A j \in Conns : conn[j] # "idle" => sid'[j] = sid[j] /\ sentUp[j] <= sentUp'[j],
         \A j \in Conns : conn[j] = "idle" => sentUp'[j] = sentUp[j],
         UNCHANGED <<cIn, dIn, stream, gotUp, gotDn, sentDn, cOut, pending, toD, zombie,
                     client, pipe, ready>>
  PROVE  Transit'
  <1> DEFINE l == Control("reset", 0, 0)
  <1> USE DEF Transit
  <1>1. /\ \A j \in Conns : conn'[j] = IF conn[j] = "open" THEN "closed" ELSE conn[j]
        /\ \A j \in Conns : queue'[j] = <<>>
        /\ outbuf' = <<>> /\ resets' # 0
    BY WireTypes DEF ResetTunnels, Shut
  <1>2. conn \in [Conns -> {"idle", "open", "closed"}]
    BY WireTypes
  <1>3. UpInv'
    <2>1. \A j \in Conns : conn[j] # "idle" => conn'[j] = "closed"
      BY <1>1, <1>2
    <2>2. \A j \in Conns : conn'[j] # "open"
      BY <1>1, <1>2
    <2> QED
      BY <1>1, <2>1, <2>2, ResetUp
  <1>4. /\ Pipes'
        /\ \A a \in Lines(toC') : a.t = "ack" => a \in Lines(toC)
    <2>1. CASE toC' = toC
      <3>1. Pipes'
        BY <2>1, PipesStay
      <3>2. Lines(toC') = Lines(toC)
        BY <2>1 DEF Lines
      <3> QED
        BY <3>1, <3>2
    <2>2. CASE ToClient(<<l>>)
      <3>1. l \in Line /\ l.t = "reset" /\ ~IsFrame(l)
        BY LineTypes DEF Control, IsFrame, Kinds
      <3> HIDE DEF l
      <3>2. Pipes' /\ \A a \in Lines(toC') : a \in Lines(toC) \/ a = l
        BY <2>2, <3>1, ClientPipes
      <3> QED
        BY <3>1, <3>2
    <2> QED
      BY <2>1, <2>2
  <1>5. DnInv'
    <2>1. \A j \in Conns : stream[j] # "none" => sid'[j] = sid[j]
      BY DEF Ends
    <2>2. \A j \in Conns : stream[j] = "none" => sentDn[j] = 0
      BY DEF Ends
    <2>3. \A j \in Conns : conn'[j] # "open"
      BY <1>1, <1>2
    <2>4. /\ Increasing(pending) /\ Increasing(toD) /\ Increasing(zombie)
          /\ \A i \in DOMAIN pending : IsFrame(pending[i])
      BY DEF DnInv, DnWire
    <2>5. /\ Frames(pending') = Frames(pending) /\ OnWay' = OnWay /\ Owed' = Owed
          /\ Increasing(pending') /\ Increasing(toD') /\ Increasing(zombie')
          /\ \A i \in DOMAIN pending' : IsFrame(pending'[i])
      BY <2>4 DEF Frames, Lines, OnWay, Owed, Increasing, IsFrame
    <2> HIDE DEF OnWay, Owed, Transit
    <2>6. DnInv
      BY DEF Transit
    <2> QED
      BY <1>4, <2>1, <2>2, <2>3, <2>5, <2>6, DnStays
  <1>6. Ends'
    <2>1. sid \in [Conns -> Nat] /\ sid' \in [Conns -> Nat] /\ nextStream \in Nat /\ nextStream' \in Nat
      BY WireTypes DEF TypeOK, DaemonTypeOK
    <2>2. \A j \in Conns : conn'[j] # "idle" => conn[j] # "idle" /\ sid'[j] = sid[j]
      BY <1>1
    <2>3. \A j \in Conns : conn'[j] # "idle" => sid'[j] < nextStream'
      <3> SUFFICES ASSUME NEW j \in Conns, conn'[j] # "idle" PROVE sid'[j] < nextStream'
        OBVIOUS
      <3>1. sid'[j] = sid[j] /\ sid[j] < nextStream /\ sid[j] \in Nat
        BY <2>1, <2>2 DEF Ends
      <3> QED
        BY <2>1, <3>1
    <2>4. \A j, k \in Conns : conn'[j] # "idle" /\ conn'[k] # "idle" /\ sid'[j] = sid'[k] => j = k
      BY <2>2 DEF Ends
    <2>5. ASSUME NEW k \in Conns
          PROVE  /\ conn'[k] = "idle" => stream'[k] = "none" /\ sentUp'[k] = 0
                 /\ stream'[k] = "none" => /\ gotUp'[k] = <<>> /\ gotDn'[k] = <<>> /\ queue'[k] = <<>>
                                           /\ sentDn'[k] = 0
                 /\ stream'[k] \in {"left", "stuck"} => conn'[k] = "closed"
                 /\ queue'[k] # <<>> => conn'[k] = "open"
      BY <1>1 DEF Ends
    <2> QED
      BY <2>3, <2>4, <2>5 DEF Ends
  <1>7. Prefixes'
    <2> SUFFICES ASSUME NEW k \in Conns
                 PROVE  /\ Len(gotUp'[k]) <= sentUp'[k]
                        /\ Len(gotDn'[k]) + Len(queue'[k]) <= sentDn'[k]
                        /\ \A i \in DOMAIN gotUp'[k] : gotUp'[k][i] = <<k, i>>
                        /\ \A i \in DOMAIN gotDn'[k] : gotDn'[k][i] = <<k, i>>
                        /\ \A i \in DOMAIN queue'[k] : queue'[k][i] = <<k, Len(gotDn'[k]) + i>>
      BY DEF Prefixes
    <2>1. /\ Len(gotUp[k]) <= sentUp[k] /\ Len(gotDn[k]) + Len(queue[k]) <= sentDn[k]
          /\ \A i \in DOMAIN gotUp[k] : gotUp[k][i] = <<k, i>>
          /\ \A i \in DOMAIN gotDn[k] : gotDn[k][i] = <<k, i>>
      BY DEF Prefixes
    <2>2. /\ Len(gotUp[k]) \in Nat /\ Len(gotDn[k]) \in Nat /\ Len(queue[k]) \in Nat
          /\ sentUp[k] \in Nat /\ sentDn[k] \in Nat /\ sentUp'[k] \in Nat
      BY ReadTypes DEF TypeOK, AgentTypeOK
    <2>3. sentUp[k] <= sentUp'[k]
      <3>1. CASE conn[k] = "idle"
        <4>1. sentUp'[k] = sentUp[k]
          BY <3>1
        <4> QED
          BY <2>2, <4>1
      <3>2. CASE conn[k] # "idle"
        BY <3>2
      <3> QED
        BY <3>1, <3>2
    <2>4. queue'[k] = <<>> /\ Len(queue'[k]) = 0 /\ DOMAIN queue'[k] = {}
      BY <1>1, EmptySeq
    <2>5. Len(gotUp[k]) <= sentUp'[k] /\ Len(gotDn[k]) + 0 <= sentDn[k]
      <3>1. \A a, b, c \in Nat : a <= b /\ b <= c => a <= c
        OBVIOUS
      <3>2. \A a, b, c \in Nat : a + b <= c => a + 0 <= c
        OBVIOUS
      <3>3. Len(gotUp[k]) <= sentUp'[k]
        BY <2>1, <2>2, <2>3, <3>1
      <3> QED
        BY <2>1, <2>2, <3>2, <3>3
    <2> QED
      BY <2>1, <2>4, <2>5
  <1>8. ClosesDue'
    BY <1>1 DEF ClosesDue
  <1> QED
    BY <1>3, <1>4, <1>5, <1>6, <1>7, <1>8

\* What a step must keep of the two ends of each connection.
LEMMA EndsStay ==
  ASSUME Ends, UNCHANGED <<sid, nextStream>>,
         \A k \in Conns : conn'[k] = conn[k] \/ (conn[k] = "open" /\ conn'[k] = "closed"),
         \A k \in Conns : conn[k] = "idle" => sentUp'[k] = sentUp[k] /\ stream'[k] = stream[k],
         \A k \in Conns : stream'[k] = "none" =>
           /\ stream[k] = "none" /\ gotUp'[k] = gotUp[k] /\ gotDn'[k] = gotDn[k]
           /\ queue'[k] = <<>> /\ sentDn'[k] = sentDn[k],
         \A k \in Conns : stream'[k] \in {"left", "stuck"} => conn'[k] = "closed",
         \A k \in Conns : queue'[k] # <<>> => conn'[k] = "open"
  PROVE  Ends'
  <1>1. \A k \in Conns : conn'[k] # "idle" => conn[k] # "idle"
    OBVIOUS
  <1>2. \A k \in Conns : conn'[k] # "idle" => sid'[k] < nextStream'
    BY <1>1 DEF Ends
  <1>3. \A j, k \in Conns : conn'[j] # "idle" /\ conn'[k] # "idle" /\ sid'[j] = sid'[k] => j = k
    BY <1>1 DEF Ends
  <1>4. ASSUME NEW k \in Conns
        PROVE  /\ conn'[k] = "idle" => stream'[k] = "none" /\ sentUp'[k] = 0
               /\ stream'[k] = "none" => /\ gotUp'[k] = <<>> /\ gotDn'[k] = <<>> /\ queue'[k] = <<>>
                                         /\ sentDn'[k] = 0
               /\ stream'[k] \in {"left", "stuck"} => conn'[k] = "closed"
               /\ queue'[k] # <<>> => conn'[k] = "open"
    BY DEF Ends
  <1> QED
    BY <1>2, <1>3, <1>4 DEF Ends

\* A step in which nothing is read.
LEMMA PrefixesStay ==
  ASSUME TypeOK, TypeOK', Prefixes, UNCHANGED <<gotUp, gotDn>>,
         \A k \in Conns : sentUp[k] <= sentUp'[k] /\ sentDn[k] <= sentDn'[k],
         \A k \in Conns : queue'[k] = queue[k] \/ queue'[k] = <<>>
  PROVE  Prefixes'
  <1> SUFFICES ASSUME NEW k \in Conns
               PROVE  /\ Len(gotUp'[k]) <= sentUp'[k]
                      /\ Len(gotDn'[k]) + Len(queue'[k]) <= sentDn'[k]
                      /\ \A i \in DOMAIN gotUp'[k] : gotUp'[k][i] = <<k, i>>
                      /\ \A i \in DOMAIN gotDn'[k] : gotDn'[k][i] = <<k, i>>
                      /\ \A i \in DOMAIN queue'[k] : queue'[k][i] = <<k, Len(gotDn'[k]) + i>>
    BY DEF Prefixes
  <1>1. /\ Len(gotUp[k]) <= sentUp[k] /\ Len(gotDn[k]) + Len(queue[k]) <= sentDn[k]
        /\ \A i \in DOMAIN gotUp[k] : gotUp[k][i] = <<k, i>>
        /\ \A i \in DOMAIN gotDn[k] : gotDn[k][i] = <<k, i>>
        /\ \A i \in DOMAIN queue[k] : queue[k][i] = <<k, Len(gotDn[k]) + i>>
    BY DEF Prefixes
  <1>2. /\ Len(gotUp[k]) \in Nat /\ Len(gotDn[k]) \in Nat /\ Len(queue[k]) \in Nat
        /\ sentUp[k] \in Nat /\ sentDn[k] \in Nat /\ sentUp'[k] \in Nat /\ sentDn'[k] \in Nat
    BY ReadTypes DEF TypeOK, AgentTypeOK
  <1>3. sentUp[k] <= sentUp'[k] /\ sentDn[k] <= sentDn'[k]
    OBVIOUS
  <1>4. \A a, b, c \in Nat : a <= b /\ b <= c => a <= c
    OBVIOUS
  <1>5. \A a, b, c, d \in Nat : a + b <= c /\ c <= d => a + b <= d /\ a + 0 <= d
    OBVIOUS
  <1>6. /\ Len(gotUp[k]) <= sentUp'[k] /\ Len(gotDn[k]) + Len(queue[k]) <= sentDn'[k]
        /\ Len(gotDn[k]) + 0 <= sentDn'[k]
    BY <1>1, <1>2, <1>3, <1>4, <1>5
  <1>7. CASE queue'[k] = queue[k]
    BY <1>1, <1>6, <1>7
  <1>8. CASE queue'[k] = <<>>
    <2>1. Len(queue'[k]) = 0 /\ DOMAIN queue'[k] = {}
      BY <1>8, EmptySeq
    <2> QED
      BY <1>1, <1>6, <2>1
  <1> QED
    BY <1>7, <1>8

\* emit: the buffer has room, or the tunnels are reset.
LEMMA EmitCases ==
  ASSUME NEW f, NEW c, NEW q, Emit(f, c, q)
  PROVE  /\ dOut' = f.seq
         /\ \/ ResetTunnels /\ ToClient(<<Control("reset", 0, 0)>>)
            \/ /\ outbuf' = Append(outbuf, f) /\ ToClient(<<f>>) /\ conn' = c /\ queue' = q
               /\ resets' = resets
  BY DEF Emit

\* A frame the daemon sends leaves the way to the agent as it is.
LEMMA EmitDn ==
  ASSUME TypeOK, TypeOK', UpInv, DnInv, Ends, NEW f \in Line, IsFrame(f), ToClient(<<f>>), f.seq > dOut,
         UNCHANGED <<dIn, cOut, sentDn, stream, pending, toD, zombie, ready, pipe, gotDn>>,
         \A j \in Conns : conn[j] # "idle" => sid'[j] = sid[j],
         \A j \in Conns : stream[j] # "none" /\ conn'[j] = "open" => conn[j] = "open" /\ queue'[j] = queue[j]
  PROVE  DnInv'
  <1>1. \A g \in Frames(toC) : g.seq \in Nat /\ g.seq <= dOut /\ dOut \in Nat
    BY FrameTypes, WireTypes DEF UpInv, UpSound
  <1>2. \A g \in Frames(toC) : g.seq < f.seq
    BY <1>1, LineFields
  <1>3. Lines(toC') \subseteq Lines(toC) \cup {f}
    BY <1>2, ToClientLines, WireTypes DEF UpInv, UpWire
  <1>4. \A a \in Lines(toC') : a.t = "ack" => a \in Lines(toC)
    BY <1>3 DEF IsFrame
  <1>5. \A j \in Conns : stream[j] # "none" => sid'[j] = sid[j]
    BY DEF Ends
  <1>6. \A j \in Conns : stream[j] = "none" => sentDn[j] = 0
    BY DEF Ends
  <1>7. /\ Increasing(pending) /\ Increasing(toD) /\ Increasing(zombie)
        /\ \A i \in DOMAIN pending : IsFrame(pending[i])
    BY DEF DnInv, DnWire
  <1>8. /\ Frames(pending') = Frames(pending) /\ OnWay' = OnWay /\ Owed' = Owed
        /\ Increasing(pending') /\ Increasing(toD') /\ Increasing(zombie')
        /\ \A i \in DOMAIN pending' : IsFrame(pending'[i])
    BY <1>7 DEF Frames, Lines, OnWay, Owed, Increasing, IsFrame
  <1>9. \A j \in Conns : stream[j] # "none" /\ conn'[j] = "open" =>
           conn[j] = "open" /\ Len(gotDn'[j]) + Len(queue'[j]) = Len(gotDn[j]) + Len(queue[j])
    OBVIOUS
  <1> HIDE DEF OnWay, Owed
  <1> QED
    BY <1>4, <1>5, <1>6, <1>8, <1>9, DnStays

\* The closes owed once the daemon has sent one frame more.
LEMMA EmitCloses ==
  ASSUME TypeOK, UpInv, ClosesDue, NEW f \in Line, f.t # "reset", IsFrame(f), f.seq > dOut,
         ToClient(<<f>>), Pipes, UNCHANGED <<pipe, client, ready, cIn, dIn, toD, zombie, stream, resets>>,
         Due' = Due \cup {f},
         \A k \in Conns : conn'[k] = "closed" => conn[k] = "closed" \/ (f.t = "close" /\ f.conn = k)
  PROVE  ClosesDue'
  <1> HIDE DEF Due
  <1>1. \A i \in DOMAIN toC' : (i \in DOMAIN toC /\ toC'[i] = toC[i]) \/ toC'[i] = f
    BY ClientPipes DEF IsFrame
  <1> QED
    BY <1>1 DEF ClosesDue

\* The agent opens a connection: its open is the last frame the daemon sent.
LEMMA ConnectTransit ==
  ASSUME TypeOK, TypeOK', Transit, NEW k \in Conns, AgentConnect(k)
  PROVE  Transit'
  <1> DEFINE f == [t |-> "open", id |-> nextStream, conn |-> k, n |-> 0, seq |-> dOut + 1]
             c == [conn EXCEPT ![k] = "open"]
  <1> USE DEF Transit
  <1>1. /\ sid' = [sid EXCEPT ![k] = nextStream] /\ nextStream' = nextStream + 1
        /\ conn[k] = "idle" /\ Emit(f, c, queue)
        /\ UNCHANGED <<cIn, dIn, stream, gotUp, gotDn, sentUp, sentDn, cOut, pending, toD, zombie,
                       client, pipe, ready>>
    BY DEF AgentConnect, centralVars
  <1>2. /\ dOut \in Nat /\ nextStream \in Nat /\ sid \in [Conns -> Nat]
        /\ conn \in [Conns -> {"idle", "open", "closed"}] /\ sentUp \in [Conns -> Nat]
    BY WireTypes
  <1>3. /\ f \in Line /\ IsFrame(f) /\ f.seq = dOut + 1 /\ f.conn = k /\ f.id = nextStream
        /\ f.t = "open" /\ f.n = 0 /\ f.seq > dOut
    BY <1>2, BoundsAssumption DEF Line, Kinds, IsFrame, Conns
  <1>4. /\ sid'[k] = nextStream /\ \A j \in Conns : j # k => sid'[j] = sid[j]
        /\ c[k] = "open" /\ \A j \in Conns : j # k => c[j] = conn[j]
    BY <1>1, <1>2
  <1> HIDE DEF f, c
  <1>5. /\ dOut' = dOut + 1
        /\ \/ ResetTunnels /\ ToClient(<<Control("reset", 0, 0)>>)
           \/ /\ outbuf' = Append(outbuf, f) /\ ToClient(<<f>>) /\ conn' = c /\ queue' = queue
              /\ resets' = resets
    BY <1>1, <1>3, EmitCases
  <1>6. CASE ResetTunnels /\ ToClient(<<Control("reset", 0, 0)>>)
    <2>1. dOut <= dOut' /\ nextStream <= nextStream'
      BY <1>1, <1>2, <1>5
    <2>2. \A j \in Conns : conn[j] # "idle" => sid'[j] = sid[j] /\ sentUp[j] <= sentUp'[j]
      BY <1>1, <1>2, <1>4
    <2>3. \A j \in Conns : conn[j] = "idle" => sentUp'[j] = sentUp[j]
      BY <1>1
    <2> HIDE DEF Transit
    <2> QED
      BY <1>1, <1>6, <2>1, <2>2, <2>3, ResetTransit
  <1>7. CASE /\ outbuf' = Append(outbuf, f) /\ ToClient(<<f>>) /\ conn' = c /\ queue' = queue
             /\ resets' = resets
    <2>1. stream[k] = "none" /\ sentUp[k] = 0
      BY <1>1 DEF Ends
    <2>2. UpInv' /\ Due' = Due \cup {f}
      <3>1. \A g \in UpFrames : Key(g) # Key(f)
        BY <1>1, <1>3 DEF UpInv, UpSound, Key
      <3>2. \A j \in Conns : conn[j] # "idle" =>
              /\ sid'[j] = sid[j] /\ conn'[j] # "idle" /\ sentUp[j] <= sentUp'[j]
              /\ conn[j] = "closed" => conn'[j] = "closed"
        BY <1>1, <1>2, <1>4, <1>7
      <3>3. conn'[k] = "open"
        BY <1>4, <1>7
      <3>4. \A j \in Conns, n \in Nat : conn'[j] = "open" /\ n <= sentUp'[j] =>
              \/ conn[j] = "open" /\ n <= sentUp[j]
              \/ n = 0
        BY <1>1, <1>2, <1>4, <1>7, <2>1
      <3>5. \A j \in Conns : conn'[j] = "open" => conn[j] = "open" \/ j = k
        BY <1>4, <1>7
      <3> HIDE DEF Due
      <3> QED
        BY <1>1, <1>3, <1>4, <1>5, <1>7, <2>1, <3>1, <3>2, <3>3, <3>4, <3>5, EmitUp
    <2>3. DnInv'
      <3>1. \A j \in Conns : conn[j] # "idle" => sid'[j] = sid[j]
        BY <1>1, <1>4
      <3>2. \A j \in Conns : stream[j] # "none" /\ conn'[j] = "open" =>
               conn[j] = "open" /\ queue'[j] = queue[j]
        BY <1>4, <1>7, <2>1
      <3> QED
        BY <1>1, <1>3, <1>7, <3>1, <3>2, EmitDn
    <2>4. Pipes'
      BY <1>1, <1>3, <1>7, ClientPipes
    <2>5. ClosesDue'
      <3>1. \A j \in Conns : conn'[j] = "closed" => conn[j] = "closed"
        BY <1>4, <1>7
      <3> HIDE DEF Due
      <3> QED
        BY <1>1, <1>3, <1>7, <2>2, <3>1, EmitCloses
    <2>6. Prefixes'
      BY <1>1, <1>7, PrefixesStay, ReadTypes
    <2>7. Ends'
      <3>1. \A j \in Conns : conn'[j] # "idle" /\ j # k => conn[j] # "idle" /\ sid'[j] = sid[j]
                                                          /\ sid[j] < nextStream /\ sid[j] \in Nat
        BY <1>2, <1>4, <1>7 DEF Ends
      <3>2. \A j \in Conns : conn'[j] # "idle" => sid'[j] < nextStream'
        BY <1>1, <1>2, <1>4, <3>1
      <3>3. \A i, j \in Conns : conn'[i] # "idle" /\ conn'[j] # "idle" /\ sid'[i] = sid'[j] => i = j
        <4> SUFFICES ASSUME NEW i \in Conns, NEW j \in Conns, conn'[i] # "idle", conn'[j] # "idle",
                            sid'[i] = sid'[j], i # j
                     PROVE  FALSE
          OBVIOUS
        <4>1. CASE i = k
          BY <1>2, <1>4, <3>1, <4>1
        <4>2. CASE j = k
          BY <1>2, <1>4, <3>1, <4>2
        <4>3. CASE i # k /\ j # k
          BY <3>1, <4>3 DEF Ends
        <4> QED
          BY <4>1, <4>2, <4>3
      <3>4. ASSUME NEW j \in Conns
            PROVE  /\ conn'[j] = "idle" => stream'[j] = "none" /\ sentUp'[j] = 0
                   /\ stream'[j] = "none" => /\ gotUp'[j] = <<>> /\ gotDn'[j] = <<>> /\ queue'[j] = <<>>
                                             /\ sentDn'[j] = 0
                   /\ stream'[j] \in {"left", "stuck"} => conn'[j] = "closed"
                   /\ queue'[j] # <<>> => conn'[j] = "open"
        BY <1>1, <1>4, <1>7, <2>1 DEF Ends
      <3> QED
        BY <3>2, <3>3, <3>4 DEF Ends
    <2> QED
      BY <2>2, <2>3, <2>4, <2>5, <2>6, <2>7
  <1> QED
    BY <1>5, <1>6, <1>7

\* The agent sends a chunk.
LEMMA AgentSendTransit ==
  ASSUME TypeOK, TypeOK', Transit, NEW k \in Conns, AgentSend(k)
  PROVE  Transit'
  <1> DEFINE n == sentUp[k] + 1
             f == Frame("data", k, n, dOut + 1)
  <1> USE DEF Transit
  <1>1. /\ sentUp' = [sentUp EXCEPT ![k] = @ + 1]
        /\ conn[k] = "open" /\ Emit(f, conn, queue)
        /\ UNCHANGED <<cIn, dIn, stream, gotUp, gotDn, sid, nextStream, sentDn, cOut, pending, toD, zombie,
                       client, pipe, ready>>
    BY DEF AgentSend, centralVars
  <1>2. /\ dOut \in Nat /\ nextStream \in Nat /\ sid \in [Conns -> Nat]
        /\ conn \in [Conns -> {"idle", "open", "closed"}] /\ sentUp \in [Conns -> Nat]
        /\ sentUp[k] \in Nat
    BY WireTypes
  <1>3. /\ f \in Line /\ IsFrame(f) /\ f.seq = dOut + 1 /\ f.conn = k /\ f.id = sid[k]
        /\ f.t = "data" /\ f.n = n /\ f.seq > dOut
    <2>1. f \in Line
      BY <1>2, LineTypes DEF Kinds
    <2> QED
      BY <1>2, <2>1 DEF Frame, IsFrame
  <1>4. /\ sentUp'[k] = n /\ n = sentUp[k] + 1 /\ n \in Nat
        /\ \A j \in Conns : j # k => sentUp'[j] = sentUp[j]
    BY <1>1, <1>2
  <1>5. \A j \in Conns : sentUp[j] <= sentUp'[j] /\ sentUp[j] \in Nat
    <2> TAKE j \in Conns
    <2>1. CASE j = k
      BY <1>2, <1>4, <2>1
    <2>2. CASE j # k
      BY <1>2, <1>4, <2>2
    <2> QED
      BY <2>1, <2>2
  <1> HIDE DEF f, n
  <1>6. /\ dOut' = dOut + 1
        /\ \/ ResetTunnels /\ ToClient(<<Control("reset", 0, 0)>>)
           \/ /\ outbuf' = Append(outbuf, f) /\ ToClient(<<f>>) /\ conn' = conn /\ queue' = queue
              /\ resets' = resets
    BY <1>1, <1>3, EmitCases
  <1>7. CASE ResetTunnels /\ ToClient(<<Control("reset", 0, 0)>>)
    <2>1. dOut <= dOut' /\ nextStream <= nextStream'
      BY <1>1, <1>2, <1>6
    <2>2. \A j \in Conns : conn[j] = "idle" => sentUp'[j] = sentUp[j]
      BY <1>1, <1>4
    <2> HIDE DEF Transit
    <2> QED
      BY <1>1, <1>5, <1>7, <2>1, <2>2, ResetTransit
  <1>8. CASE /\ outbuf' = Append(outbuf, f) /\ ToClient(<<f>>) /\ conn' = conn /\ queue' = queue
             /\ resets' = resets
    <2>1. UpInv' /\ Due' = Due \cup {f}
      <3>1. \A g \in UpFrames : Key(g) # Key(f)
        <4> SUFFICES ASSUME NEW g \in UpFrames, g.t = "data", g.conn = k, g.n = n PROVE FALSE
          BY <1>3 DEF Key
        <4>1. g.n \in 1..sentUp[k]
          BY DEF UpInv, UpSound
        <4> QED
          BY <1>2, <1>4, <4>1
      <3>2. n \in 1..sentUp'[k]
        BY <1>2, <1>4
      <3>3. stream[k] \in {"none", "mapped"} =>
              \/ n = Len(gotUp[k]) + 1
              \/ \E g \in Due : g.t = "data" /\ g.conn = k /\ g.n + 1 = n
        <4> SUFFICES ASSUME stream[k] \in {"none", "mapped"}, n # Len(gotUp[k]) + 1
                     PROVE  \E g \in Due : g.t = "data" /\ g.conn = k /\ g.n + 1 = n
          OBVIOUS
        <4> DEFINE a == Len(gotUp[k])
                   b == sentUp[k]
        <4>1. a \in Nat /\ b \in Nat /\ a <= b
          BY ReadTypes DEF Prefixes
        <4>2. \A m \in (a + 1)..b : \E g \in Due : g.t = "data" /\ g.conn = k /\ g.n = m
          BY <1>1 DEF UpInv, UpHeld
        <4>3. n = b + 1 /\ n # a + 1
          BY <1>4
        <4> HIDE DEF a, b, Due
        <4>4. b \in (a + 1)..b
          BY <4>1, <4>3
        <4> QED
          BY <4>2, <4>3, <4>4
      <3>4. stream[k] = "none" => \E g \in Due : g.t = "open" /\ g.conn = k
        BY <1>1 DEF UpInv, UpHeld
      <3>5. \A j \in Conns, m \in Nat : conn'[j] = "open" /\ m <= sentUp'[j] =>
              \/ conn[j] = "open" /\ m <= sentUp[j]
              \/ j = k /\ n = m
        <4> SUFFICES ASSUME NEW j \in Conns, NEW m \in Nat, conn[j] = "open", m <= sentUp'[j]
                     PROVE  m <= sentUp[j] \/ (j = k /\ n = m)
          BY <1>8
        <4>1. CASE j = k
          BY <1>2, <1>4, <4>1
        <4>2. CASE j # k
          BY <1>4, <4>2
        <4> QED
          BY <4>1, <4>2
      <3>6. \A j \in Conns : conn[j] # "idle" =>
              /\ sid'[j] = sid[j] /\ conn'[j] # "idle" /\ sentUp[j] <= sentUp'[j]
              /\ conn[j] = "closed" => conn'[j] = "closed"
        BY <1>1, <1>5, <1>8
      <3> HIDE DEF Due
      <3> QED
        BY <1>1, <1>3, <1>6, <1>8, <3>1, <3>2, <3>3, <3>4, <3>5, <3>6, EmitUp
    <2>2. DnInv'
      BY <1>1, <1>3, <1>8, EmitDn
    <2>3. Pipes'
      BY <1>1, <1>3, <1>8, ClientPipes
    <2>4. ClosesDue'
      <3> HIDE DEF Due
      <3> QED
        BY <1>1, <1>3, <1>8, <2>1, EmitCloses
    <2>5. Prefixes'
      <3>1. \A j \in Conns : sentDn[j] <= sentDn'[j]
        BY <1>1, ReadTypes
      <3> QED
        BY <1>1, <1>5, <1>8, <3>1, PrefixesStay
    <2>6. Ends'
      <3>1. \A j \in Conns : conn[j] = "idle" => sentUp'[j] = sentUp[j]
        BY <1>1, <1>4
      <3>2. \A j \in Conns : /\ stream[j] = "none" => queue[j] = <<>>
                             /\ stream[j] \in {"left", "stuck"} => conn[j] = "closed"
                             /\ queue[j] # <<>> => conn[j] = "open"
        BY DEF Ends
      <3> QED
        BY <1>1, <1>8, <3>1, <3>2, EndsStay
    <2> QED
      BY <2>1, <2>2, <2>3, <2>4, <2>5, <2>6
  <1> QED
    BY <1>6, <1>7, <1>8

\* The agent closes a connection: its close is kept, what was queued for it is not.
LEMMA AgentCloseTransit ==
  ASSUME TypeOK, TypeOK', Transit, NEW k \in Conns, AgentClose(k)
  PROVE  Transit'
  <1> DEFINE f == Frame("close", k, 0, dOut + 1)
             c == [conn EXCEPT ![k] = "closed"]
             q == [queue EXCEPT ![k] = <<>>]
  <1> USE DEF Transit
  <1>1. /\ conn[k] = "open" /\ Emit(f, c, q)
        /\ UNCHANGED <<cIn, dIn, stream, gotUp, gotDn, sid, nextStream, sentUp, sentDn, cOut, pending,
                       toD, zombie, client, pipe, ready>>
    BY DEF AgentClose, centralVars
  <1>2. /\ dOut \in Nat /\ nextStream \in Nat /\ sid \in [Conns -> Nat]
        /\ conn \in [Conns -> {"idle", "open", "closed"}] /\ sentUp \in [Conns -> Nat]
        /\ queue \in [Conns -> Seq(Chunk)]
    BY WireTypes DEF TypeOK, AgentTypeOK
  <1>3. /\ f \in Line /\ IsFrame(f) /\ f.seq = dOut + 1 /\ f.conn = k /\ f.id = sid[k]
        /\ f.t = "close" /\ f.n = 0 /\ f.seq > dOut
    <2>1. f \in Line
      BY <1>2, LineTypes DEF Kinds
    <2> QED
      BY <1>2, <2>1 DEF Frame, IsFrame
  <1>4. /\ c[k] = "closed" /\ \A j \in Conns : j # k => c[j] = conn[j]
        /\ q[k] = <<>> /\ \A j \in Conns : j # k => q[j] = queue[j]
    BY <1>2
  <1>5. \A j \in Conns : sentUp[j] <= sentUp[j] /\ sentDn[j] <= sentDn[j]
    BY ReadTypes
  <1> HIDE DEF f, c, q
  <1>6. /\ dOut' = dOut + 1
        /\ \/ ResetTunnels /\ ToClient(<<Control("reset", 0, 0)>>)
           \/ /\ outbuf' = Append(outbuf, f) /\ ToClient(<<f>>) /\ conn' = c /\ queue' = q
              /\ resets' = resets
    BY <1>1, <1>3, EmitCases
  <1>7. CASE ResetTunnels /\ ToClient(<<Control("reset", 0, 0)>>)
    <2>1. dOut <= dOut' /\ nextStream <= nextStream'
      BY <1>1, <1>2, <1>6
    <2> HIDE DEF Transit
    <2> QED
      BY <1>1, <1>5, <1>7, <2>1, ResetTransit
  <1>8. CASE /\ outbuf' = Append(outbuf, f) /\ ToClient(<<f>>) /\ conn' = c /\ queue' = q
             /\ resets' = resets
    <2>1. UpInv' /\ Due' = Due \cup {f}
      <3>1. \A g \in UpFrames : Key(g) # Key(f)
        <4> SUFFICES ASSUME NEW g \in UpFrames, g.t = "close", g.conn = k PROVE FALSE
          BY <1>3 DEF Key
        <4>1. conn[k] = "closed"
          BY DEF UpInv, UpSound
        <4> QED
          BY <1>1, <4>1
      <3>2. stream[k] = "none" => \E g \in Due : g.t = "open" /\ g.conn = k
        BY <1>1 DEF UpInv, UpHeld
      <3>3. \A j \in Conns : conn[j] # "idle" =>
              /\ sid'[j] = sid[j] /\ conn'[j] # "idle" /\ sentUp[j] <= sentUp'[j]
              /\ conn[j] = "closed" => conn'[j] = "closed"
        BY <1>1, <1>4, <1>5, <1>8
      <3>4. conn'[k] = "closed"
        BY <1>4, <1>8
      <3>5. \A j \in Conns : conn'[j] = "open" => conn[j] = "open"
        BY <1>4, <1>8
      <3>6. \A j \in Conns, m \in Nat : conn'[j] = "open" /\ m <= sentUp'[j] =>
              conn[j] = "open" /\ m <= sentUp[j]
        BY <1>1, <3>5
      <3> HIDE DEF Due
      <3> QED
        BY <1>1, <1>3, <1>6, <1>8, <3>1, <3>2, <3>3, <3>4, <3>5, <3>6, EmitUp
    <2>2. DnInv'
      <3>1. \A j \in Conns : stream[j] # "none" /\ conn'[j] = "open" =>
               conn[j] = "open" /\ queue'[j] = queue[j]
        BY <1>4, <1>8
      <3> QED
        BY <1>1, <1>3, <1>8, <3>1, EmitDn
    <2>3. Pipes'
      BY <1>1, <1>3, <1>8, ClientPipes
    <2>4. ClosesDue'
      <3>1. \A j \in Conns : conn'[j] = "closed" => conn[j] = "closed" \/ j = k
        BY <1>4, <1>8
      <3> HIDE DEF Due
      <3> QED
        BY <1>1, <1>3, <1>8, <2>1, <3>1, EmitCloses
    <2>5. Prefixes'
      BY <1>1, <1>4, <1>5, <1>8, PrefixesStay
    <2>6. Ends'
      <3>1. \A j \in Conns : /\ stream[j] = "none" => queue[j] = <<>>
                             /\ stream[j] \in {"left", "stuck"} => conn[j] = "closed"
                             /\ queue[j] # <<>> => conn[j] = "open"
        BY DEF Ends
      <3>2. \A j \in Conns : /\ conn'[j] = conn[j] \/ (conn[j] = "open" /\ conn'[j] = "closed")
                             /\ queue'[j] # <<>> => conn'[j] = "open"
                             /\ stream'[j] = "none" => queue'[j] = <<>>
                             /\ stream'[j] \in {"left", "stuck"} => conn'[j] = "closed"
        BY <1>1, <1>4, <1>8, <3>1
      <3> QED
        BY <1>1, <3>2, EndsStay
    <2> QED
      BY <2>1, <2>2, <2>3, <2>4, <2>5, <2>6
  <1> QED
    BY <1>6, <1>7, <1>8

\* A step that touches neither the wires nor what the two ends know of them.
LEMMA StillWires ==
  ASSUME TypeOK, TypeOK', Ends, UpInv, DnInv,
         UNCHANGED <<sid, dOut, outbuf, dIn, cOut, pending, cIn, toD, toC, zombie, sentUp, sentDn, gotUp>>,
         client' = "cur" /\ pipe' = "open" => client = "cur" /\ pipe = "open",
         ready' /\ pipe' = "open" => ready /\ pipe = "open",
         \A k \in Conns : conn'[k] = conn[k] \/ (conn[k] = "open" /\ conn'[k] = "closed"),
         \A k \in Conns : \/ stream'[k] = stream[k]
                          \/ stream[k] # "none" /\ stream'[k] \notin {"none", "mapped"},
         \A k \in Conns : conn'[k] = "open" => Len(gotDn'[k]) + Len(queue'[k]) = Len(gotDn[k]) + Len(queue[k])
  PROVE  UpInv' /\ DnInv' /\ Due' = Due /\ Owed' = Owed
  <1>1. /\ Frames(outbuf') = Frames(outbuf) /\ Due' = Due /\ Frames(toC') = Frames(toC)
        /\ Lines(toC') = Lines(toC) /\ Lines(toD') = Lines(toD) /\ Lines(zombie') = Lines(zombie)
        /\ OnWay' = OnWay /\ Owed' = Owed /\ Frames(pending') = Frames(pending)
    BY DEF Frames, Lines, OnWay, Owed, Due, IsFrame
  <1>2. /\ Increasing(outbuf') /\ Increasing(toC')
        /\ \A i \in DOMAIN outbuf' : IsFrame(outbuf'[i])
        /\ Increasing(pending') /\ Increasing(toD') /\ Increasing(zombie')
        /\ \A i \in DOMAIN pending' : IsFrame(pending'[i])
    BY DEF UpInv, UpWire, DnInv, DnWire, Increasing, IsFrame
  <1>3. ResetsClear(toC)'
    BY DEF UpInv, UpWire, ResetsClear, Frames, Lines, IsFrame
  <1>4. cIn' \in Nat /\ cIn' <= cIn
    BY WireTypes
  <1> HIDE DEF Due, Owed, OnWay
  <1>5. UpInv'
    BY <1>1, <1>2, <1>3, <1>4, UpStays
  <1>6. DnInv'
    <2>1. \A k \in Conns : stream[k] = "none" => sentDn[k] = 0
      BY DEF Ends
    <2>2. \A k \in Conns : stream[k] # "none" =>
            sid'[k] = sid[k] /\ stream'[k] # "none" /\ (stream[k] # "mapped" => stream'[k] # "mapped")
      OBVIOUS
    <2>3. \A k \in Conns : stream[k] # "none" /\ conn'[k] = "open" =>
           conn[k] = "open" /\ Len(gotDn'[k]) + Len(queue'[k]) = Len(gotDn[k]) + Len(queue[k])
      OBVIOUS
    <2> QED
      BY <1>1, <1>2, <2>1, <2>2, <2>3, DnStays
  <1> QED
    BY <1>1, <1>5, <1>6

\* The closes owed stay owed while no end closes and nothing is taken.
LEMMA ClosesStay ==
  ASSUME ClosesDue, Due' = Due, resets' = resets,
         resets = 0 => \A i \in DOMAIN toC' : toC'[i].t = "reset" => \E j \in DOMAIN toC : toC[j] = toC'[i],
         \A k \in Conns : conn'[k] = "closed" /\ stream'[k] \in {"none", "mapped"} =>
           conn[k] = "closed" /\ stream[k] \in {"none", "mapped"}
  PROVE  ClosesDue'
  <1> HIDE DEF Due
  <1> QED
    BY DEF ClosesDue

\* The agent reads what the daemon wrote to its socket.
LEMMA AgentReadTransit ==
  ASSUME TypeOK, TypeOK', Transit, NEW k \in Conns, AgentRead(k)
  PROVE  Transit'
  <1> USE DEF Transit
  <1>1. /\ queue[k] # <<>>
        /\ gotDn' = [gotDn EXCEPT ![k] = Append(@, Head(queue[k]))]
        /\ queue' = [queue EXCEPT ![k] = Tail(@)]
        /\ UNCHANGED <<sid, nextStream, client, dOut, outbuf, dIn, pipe, ready, cOut, pending, cIn,
                       toD, toC, zombie, sentUp, sentDn, gotUp, conn, stream, resets>>
    BY DEF AgentRead, daemonVars, centralVars, wireVars
  <1>2. gotDn \in [Conns -> Seq(Chunk)] /\ queue \in [Conns -> Seq(Chunk)]
    BY DEF TypeOK, AgentTypeOK
  <1> DEFINE d == gotDn[k]
             q == queue[k]
             h == Head(q)
  <1>3. /\ gotDn'[k] = Append(d, h) /\ queue'[k] = Tail(q)
        /\ \A j \in Conns : j # k => gotDn'[j] = gotDn[j] /\ queue'[j] = queue[j]
    BY <1>1, <1>2
  <1>4. d \in Seq(Chunk) /\ q \in Seq(Chunk) /\ q # <<>> /\ Len(d) \in Nat /\ Len(q) \in Nat
    BY <1>1, <1>2, LenProperties
  <1>5. conn[k] = "open" /\ stream[k] # "none"
    BY <1>1 DEF Ends
  <1>6. /\ Len(Append(d, h)) = Len(d) + 1 /\ Len(Tail(q)) = Len(q) - 1 /\ Len(q) >= 1 /\ h = q[1]
        /\ \A i \in 1..Len(d) : Append(d, h)[i] = d[i]
        /\ Append(d, h)[Len(d) + 1] = h /\ DOMAIN Append(d, h) = 1..(Len(d) + 1)
        /\ DOMAIN Tail(q) = 1..(Len(q) - 1) /\ \A i \in 1..(Len(q) - 1) : Tail(q)[i] = q[i + 1]
        /\ DOMAIN d = 1..Len(d) /\ DOMAIN q = 1..Len(q)
    <2> HIDE DEF d, q
    <2>1. h \in Chunk
      BY <1>4, HeadTailProperties
    <2>2. /\ Len(Append(d, h)) = Len(d) + 1 /\ Append(d, h) \in Seq(Chunk)
          /\ \A i \in 1..Len(d) : Append(d, h)[i] = d[i]
          /\ Append(d, h)[Len(d) + 1] = h
      BY <1>4, <2>1, AppendProperties
    <2>3. /\ Len(Tail(q)) = Len(q) - 1 /\ Tail(q) \in Seq(Chunk)
          /\ \A i \in 1..Len(Tail(q)) : Tail(q)[i] = q[i + 1]
      BY <1>4, HeadTailProperties
    <2>4. Len(q) >= 1 /\ h = q[1]
      BY <1>4
    <2> QED
      BY <1>4, <2>2, <2>3, <2>4, LenProperties
  <1> HIDE DEF d, q, h
  <1>7. \A j \in Conns : Len(gotDn'[j]) + Len(queue'[j]) = Len(gotDn[j]) + Len(queue[j])
    <2> SUFFICES ASSUME NEW j \in Conns
                 PROVE  Len(gotDn'[j]) + Len(queue'[j]) = Len(gotDn[j]) + Len(queue[j])
      OBVIOUS
    <2>1. CASE j = k
      <3>1. (Len(d) + 1) + (Len(q) - 1) = Len(d) + Len(q)
        BY <1>4
      <3> QED
        BY <1>3, <1>6, <2>1, <3>1 DEF d, q
    <2>2. CASE j # k
      BY <1>3, <2>2
    <2> QED
      BY <2>1, <2>2
  <1>8. UpInv' /\ DnInv' /\ Due' = Due
    <2> HIDE DEF Due, Owed
    <2> QED
      BY <1>1, <1>7, StillWires
  <1>9. Pipes'
    BY <1>1, PipesStay
  <1>10. ClosesDue'
    <2> HIDE DEF Due
    <2> QED
      BY <1>1, <1>8, ClosesStay
  <1>11. Ends'
    <2>1. \A j \in Conns : stream[j] = "none" => gotDn[j] = <<>> /\ queue[j] = <<>>
      BY DEF Ends
    <2>2. \A j \in Conns : stream'[j] = "none" => gotDn'[j] = gotDn[j] /\ queue'[j] = <<>>
      BY <1>1, <1>3, <1>5, <2>1
    <2>3. \A j \in Conns : /\ stream[j] \in {"left", "stuck"} => conn[j] = "closed"
                           /\ queue[j] # <<>> => conn[j] = "open"
      BY DEF Ends
    <2>4. \A j \in Conns : queue'[j] # <<>> => conn'[j] = "open"
      BY <1>1, <1>3, <1>5, <2>3
    <2> QED
      BY <1>1, <2>2, <2>3, <2>4, EndsStay
  <1>12. Prefixes'
    <2> SUFFICES ASSUME NEW j \in Conns
                 PROVE  /\ Len(gotUp'[j]) <= sentUp'[j]
                        /\ Len(gotDn'[j]) + Len(queue'[j]) <= sentDn'[j]
                        /\ \A i \in DOMAIN gotUp'[j] : gotUp'[j][i] = <<j, i>>
                        /\ \A i \in DOMAIN gotDn'[j] : gotDn'[j][i] = <<j, i>>
                        /\ \A i \in DOMAIN queue'[j] : queue'[j][i] = <<j, Len(gotDn'[j]) + i>>
      BY DEF Prefixes
    <2>1. /\ Len(gotUp[j]) <= sentUp[j] /\ Len(gotDn[j]) + Len(queue[j]) <= sentDn[j]
          /\ \A i \in DOMAIN gotUp[j] : gotUp[j][i] = <<j, i>>
          /\ \A i \in DOMAIN gotDn[j] : gotDn[j][i] = <<j, i>>
          /\ \A i \in DOMAIN queue[j] : queue[j][i] = <<j, Len(gotDn[j]) + i>>
      BY DEF Prefixes
    <2>2. Len(gotUp'[j]) <= sentUp'[j] /\ Len(gotDn'[j]) + Len(queue'[j]) <= sentDn'[j]
      BY <1>1, <1>7, <2>1
    <2>3. CASE j # k
      BY <1>1, <1>3, <2>1, <2>2, <2>3
    <2>4. CASE j = k
      <3>1. /\ \A i \in 1..Len(d) : d[i] = <<k, i>>
            /\ \A i \in 1..Len(q) : q[i] = <<k, Len(d) + i>>
        BY <1>6, <2>1, <2>4 DEF d, q
      <3>2. \A i \in 1..(Len(d) + 1) : Append(d, h)[i] = <<k, i>>
        <4> SUFFICES ASSUME NEW i \in 1..(Len(d) + 1) PROVE Append(d, h)[i] = <<k, i>>
          OBVIOUS
        <4>1. CASE i = Len(d) + 1
          <5>1. 1 \in 1..Len(q)
            BY <1>4, <1>6
          <5> QED
            BY <1>6, <3>1, <4>1, <5>1
        <4>2. CASE i # Len(d) + 1
          <5>1. i \in 1..Len(d)
            BY <1>4, <4>2
          <5> QED
            BY <1>6, <3>1, <5>1
        <4> QED
          BY <4>1, <4>2
      <3>3. \A i \in 1..(Len(q) - 1) : Tail(q)[i] = <<k, Len(d) + 1 + i>>
        <4> SUFFICES ASSUME NEW i \in 1..(Len(q) - 1) PROVE Tail(q)[i] = <<k, Len(d) + 1 + i>>
          OBVIOUS
        <4>1. i + 1 \in 1..Len(q) /\ Len(d) + (i + 1) = Len(d) + 1 + i
          BY <1>4
        <4>2. Tail(q)[i] = q[i + 1]
          BY <1>6
        <4>3. q[i + 1] = <<k, Len(d) + (i + 1)>>
          BY <3>1, <4>1
        <4> QED
          BY <4>1, <4>2, <4>3
      <3>4. \A i \in DOMAIN gotUp'[k] : gotUp'[k][i] = <<k, i>>
        BY <1>1, <2>1, <2>4
      <3>5. \A i \in DOMAIN gotDn'[k] : gotDn'[k][i] = <<k, i>>
        BY <1>3, <1>6, <3>2
      <3>6. \A i \in DOMAIN queue'[k] : queue'[k][i] = <<k, Len(gotDn'[k]) + i>>
        BY <1>3, <1>6, <3>3
      <3> QED
        BY <2>2, <2>4, <3>4, <3>5, <3>6
    <2> QED
      BY <2>3, <2>4
  <1> QED
    BY <1>8, <1>9, <1>10, <1>11, <1>12

\* A hello: what central has is dropped, the rest replayed after a ready.
LEMMA DaemonHelloTransit ==
  ASSUME TypeOK, TypeOK', Transit, DaemonHello
  PROVE  Transit'
  <1> USE DEF Transit
  <1> DEFINE h == Head(toD)
             left == After(outbuf, h.n)
             l == Control("ready", dOut, dIn)
  <1>1. /\ toD # <<>> /\ h.t = "hello" /\ outbuf' = left /\ dIn' = IF h.seq < dIn THEN h.seq ELSE dIn
        /\ toC' = IF pipe = "open" THEN toC \o <<Control("ready", dOut, dIn')>> \o left ELSE toC
        /\ toD' = Tail(toD) /\ zombie' = <<>> /\ client' = "cur"
        /\ UNCHANGED <<sid, nextStream, dOut, conn, queue, pipe, ready, cOut, pending, cIn, stream,
                       gotUp, gotDn, sentUp, sentDn, resets>>
    BY DEF DaemonHello, centralVars, agentVars
  <1>2. /\ toD \in Seq(Line) /\ toC \in Seq(Line) /\ outbuf \in Seq(Line) /\ dOut \in Nat /\ dIn \in Nat
        /\ cIn \in Nat
    BY WireTypes
  <1>3. /\ h = toD[1] /\ 1 \in DOMAIN toD /\ h \in Line
        /\ Len(Tail(toD)) = Len(toD) - 1 /\ Len(toD) \in Nat /\ Len(toD) >= 1 /\ Tail(toD) \in Seq(Line)
        /\ \A i \in 1..Len(Tail(toD)) : Tail(toD)[i] = toD[i + 1]
        /\ DOMAIN toD = 1..Len(toD) /\ DOMAIN Tail(toD) = 1..Len(Tail(toD))
    BY <1>1, <1>2, HeadTailProperties, LenProperties
  <1>4. /\ client # "cur" /\ toC = <<>> /\ h.n = cIn /\ h.seq >= dIn /\ Frames(toD) = {}
        /\ pipe = "open" => ~ready
    BY <1>1, <1>3 DEF Pipes
  <1>5. dIn' = dIn
    <2>1. h.seq \in Nat
      BY <1>3, LineFields
    <2> QED
      BY <1>1, <1>2, <1>4, <2>1
  <1>6. UpInv' /\ Due' = Due
    <2> HIDE DEF Due, Transit
    <2>1. Pipes /\ UpInv
      BY DEF Transit
    <2> QED
      BY <2>1, HelloUp
  <1>7. /\ left \in Seq(Line) /\ Increasing(left) /\ \A i \in DOMAIN left : IsFrame(left[i])
        /\ h.n \in Nat /\ Frames(left) \subseteq Frames(outbuf)
    <2>1. h.n \in Nat
      BY <1>3, LineFields
    <2> QED
      BY <1>2, <2>1, AfterFrames DEF UpInv, UpWire
  <1>8. /\ l \in Line /\ l.t = "ready" /\ l.seq = dOut /\ l.n = dIn
    BY <1>2, LineTypes DEF Control, Kinds
  <1> HIDE DEF h, left, l
  <1>9. /\ \A i \in DOMAIN toC' : IsFrame(toC'[i]) \/ (i = 1 /\ toC'[i] = l /\ pipe = "open")
        /\ pipe # "open" => toC' = <<>>
    <2>1. CASE pipe = "open"
      <3>1. toC' = <<l>> \o left
        <4>1. <<>> \o <<l>> = <<l>>
          BY <1>8, OneLine, ConcatEmptySeq
        <4>2. toC' = toC \o <<l>> \o left
          BY <1>1, <1>5, <2>1 DEF l
        <4> QED
          BY <1>4, <4>1, <4>2
      <3>2. <<l>> \in Seq(Line) /\ Len(<<l>>) = 1 /\ <<l>>[1] = l
        BY <1>8, OneLine
      <3>3. /\ Len(<<l>> \o left) = 1 + Len(left) /\ <<l>> \o left \in Seq(Line)
            /\ \A i \in 1..Len(<<l>> \o left) :
                 (<<l>> \o left)[i] = IF i <= 1 THEN <<l>>[i] ELSE left[i - 1]
        BY <1>7, <3>2, ConcatProperties
      <3>4. Len(left) \in Nat /\ DOMAIN left = 1..Len(left) /\ DOMAIN (<<l>> \o left) = 1..(1 + Len(left))
        BY <1>7, <3>3, LenProperties
      <3>5. ASSUME NEW i \in 1..(1 + Len(left))
            PROVE  IsFrame((<<l>> \o left)[i]) \/ (i = 1 /\ (<<l>> \o left)[i] = l)
        <4>1. CASE i = 1
          BY <3>2, <3>3, <4>1
        <4>2. CASE i # 1
          <5>1. i - 1 \in 1..Len(left) /\ ~(i <= 1)
            BY <3>4, <4>2
          <5>2. (<<l>> \o left)[i] = left[i - 1]
            BY <3>3, <5>1
          <5> QED
            BY <1>7, <3>4, <5>1, <5>2
        <4> QED
          BY <4>1, <4>2
      <3> QED
        BY <2>1, <3>1, <3>4, <3>5
    <2>2. CASE pipe # "open"
      BY <1>1, <1>4, <2>2, EmptySeq
    <2> QED
      BY <2>1, <2>2
  <1>10. \A i \in DOMAIN toD' : toD'[i].t # "hello"
    <2> SUFFICES ASSUME NEW i \in DOMAIN toD', toD'[i].t = "hello" PROVE FALSE
      OBVIOUS
    <2>1. i + 1 \in DOMAIN toD /\ toD'[i] = toD[i + 1] /\ i + 1 # 1
      BY <1>1, <1>3
    <2> QED
      BY <2>1 DEF Pipes
  <1>11. Frames(toD') = {} /\ Increasing(toD') /\ Frames(zombie') = {} /\ Increasing(zombie')
    <2>1. Frames(Tail(toD)) \subseteq Frames(toD) /\ Increasing(Tail(toD))
      BY <1>1, <1>2, TailLines DEF DnInv, DnWire
    <2> QED
      BY <1>1, <1>4, <2>1, NoLines
  <1>12. DnInv'
    <2>1. OnWay' = {}
      BY <1>11 DEF OnWay
    <2>2. /\ Frames(pending') = Frames(pending) /\ Owed' = Owed /\ Increasing(pending')
          /\ \A i \in DOMAIN pending' : IsFrame(pending'[i])
      BY <1>1, <1>5 DEF Frames, Lines, Owed, DnInv, DnWire, Increasing, IsFrame
    <2>3. \A a \in Lines(toC') : a.t # "ack"
      BY <1>8, <1>9 DEF Lines, IsFrame
    <2>4. \A j \in Conns : stream[j] = "none" => sentDn[j] = 0
      BY DEF Ends
    <2> HIDE DEF OnWay, Owed
    <2> QED
      BY <1>1, <1>4, <1>5, <1>11, <2>1, <2>2, <2>3, <2>4, DnStays
  <1>13. Pipes'
    <2>1. pipe' \in {"none", "missing"} => ~ready' /\ toC' = <<>>
      BY <1>1, <1>9 DEF Pipes
    <2>2. \A i \in DOMAIN toC' : toC'[i].t = "ready" =>
            i = 1 /\ ~ready' /\ toC'[i].seq >= cIn' /\ toC'[i].n = dIn' /\ Frames(toD') = {}
      <3>1. dOut >= cIn
        BY <1>2 DEF UpInv, UpWire
      <3> QED
        BY <1>1, <1>4, <1>5, <1>8, <1>9, <1>11, <3>1 DEF IsFrame
    <2>3. client' = "cur" /\ zombie' = <<>>
      BY <1>1
    <2> QED
      BY <1>10, <2>1, <2>2, <2>3 DEF Pipes
  <1>14. Ends'
    <2>1. \A j \in Conns : /\ stream[j] = "none" => queue[j] = <<>>
                           /\ stream[j] \in {"left", "stuck"} => conn[j] = "closed"
                           /\ queue[j] # <<>> => conn[j] = "open"
      BY DEF Ends
    <2> QED
      BY <1>1, <2>1, EndsStay
  <1>15. Prefixes'
    BY <1>1 DEF Prefixes
  <1>16. ClosesDue'
    <2>1. \A i \in DOMAIN toC' : toC'[i].t # "reset"
      BY <1>8, <1>9 DEF IsFrame
    <2> HIDE DEF Due
    <2> QED
      BY <1>1, <1>6, <2>1, ClosesStay
  <1> QED
    BY <1>6, <1>12, <1>13, <1>14, <1>15, <1>16

\* The line the daemon takes is the first of the one pipe that brings it frames.
LEMMA RecvQueue ==
  ASSUME TypeOK, Pipes, DnInv, DaemonRecv
  PROVE  \E q \in {toD, zombie} :
           /\ q \in Seq(Line) /\ q # <<>> /\ Frames(q) = OnWay /\ Increasing(q) /\ DaemonFrame(Head(q))
           /\ OnWay' = Frames(Tail(q)) /\ Increasing(toD') /\ Increasing(zombie')
           /\ Lines(toD') \subseteq Lines(toD) /\ Lines(zombie') \subseteq Lines(zombie)
           /\ \/ q = toD /\ client = "cur" /\ toD' = Tail(toD) /\ zombie' = zombie /\ zombie = <<>>
              \/ q = zombie /\ client = "old" /\ zombie' = Tail(zombie) /\ toD' = toD
  <1>1. toD \in Seq(Line) /\ zombie \in Seq(Line) /\ Increasing(toD) /\ Increasing(zombie)
    BY WireTypes DEF DnInv, DnWire
  <1>2. CASE /\ client = "cur" /\ toD # <<>> /\ DaemonFrame(Head(toD))
             /\ toD' = Tail(toD) /\ zombie' = zombie
    <2>1. zombie = <<>> /\ Frames(zombie) = {} /\ Increasing(zombie)
      BY <1>2, NoLines DEF Pipes
    <2>2. Lines(Tail(toD)) \subseteq Lines(toD) /\ Increasing(Tail(toD))
      BY <1>1, <1>2, TailLines
    <2>3. Frames(toD) = OnWay /\ OnWay' = Frames(Tail(toD))
      BY <1>2, <2>1 DEF OnWay
    <2> QED
      BY <1>1, <1>2, <2>1, <2>2, <2>3
  <1>3. CASE /\ client = "old" /\ zombie # <<>> /\ DaemonFrame(Head(zombie))
             /\ zombie' = Tail(zombie) /\ toD' = toD
    <2>1. Frames(toD) = {}
      BY <1>3 DEF Pipes
    <2>2. Lines(Tail(zombie)) \subseteq Lines(zombie) /\ Increasing(Tail(zombie))
      BY <1>1, <1>3, TailLines
    <2>3. Frames(zombie) = OnWay /\ OnWay' = Frames(Tail(zombie))
      BY <1>3, <2>1 DEF OnWay
    <2> QED
      BY <1>1, <1>3, <2>2, <2>3
  <1> QED
    BY <1>2, <1>3 DEF DaemonRecv

\* An ack from central drops what it took.
LEMMA ClientAckTransit ==
  ASSUME TypeOK, TypeOK', Transit, NEW f, f \in Line, f \in Lines(toD) \cup Lines(zombie),
         OnClientAck(f), OnWay' = OnWay, Increasing(toD'), Increasing(zombie'),
         Lines(toD') \subseteq Lines(toD), Lines(zombie') \subseteq Lines(zombie),
         UNCHANGED <<sid, nextStream, client, dOut, pipe, ready, cOut, pending, cIn, stream,
                     gotUp, gotDn, sentUp, sentDn, resets>>
  PROVE  UpInv' /\ DnInv' /\ Ends' /\ Prefixes' /\ ClosesDue' /\ toC' = toC /\ dIn' = dIn
  <1> USE DEF Transit
  <1>1. /\ f.t = "ack" /\ outbuf' = After(outbuf, f.seq)
        /\ UNCHANGED <<dIn, toC, conn, queue>>
    BY DEF OnClientAck
  <1>2. f.seq \in Nat /\ outbuf \in Seq(Line) /\ cIn \in Nat /\ toC \in Seq(Line)
    BY WireTypes, LineFields
  <1>3. /\ Increasing(outbuf') /\ \A i \in DOMAIN outbuf' : IsFrame(outbuf'[i])
        /\ Frames(outbuf') = {g \in Frames(outbuf) : g.seq > f.seq}
    BY <1>1, <1>2, AfterFrames DEF UpInv, UpWire
  <1>4. Due' = Due
    <2>1. \A g \in Frames(outbuf) : g.seq <= f.seq => g.seq <= cIn
      BY <1>1 DEF UpInv, UpAcks
    <2>2. \A g \in Frames(outbuf) : g.seq \in Nat
      BY FrameTypes
    <2>3. \A g \in Frames(outbuf) : g.seq > cIn => g.seq > f.seq
      BY <1>2, <2>1, <2>2
    <2> QED
      BY <1>3, <2>3 DEF Due
  <1>5. ResetsClear(toC)'
    <2>1. ResetsClear(toC) /\ Frames(outbuf') \subseteq Frames(outbuf)
      BY <1>3 DEF UpInv, UpWire
    <2> QED
      BY <1>1, <2>1 DEF ResetsClear
  <1>6. UpInv'
    <2>1. Increasing(toC') /\ Frames(toC') = Frames(toC)
      BY <1>1 DEF UpInv, UpWire, Frames, Lines, Increasing, IsFrame
    <2>2. cIn' \in Nat /\ cIn' <= cIn
      BY <1>2
    <2>3. UpInv
      OBVIOUS
    <2> HIDE DEF Due, Transit
    <2> QED
      BY <1>1, <1>3, <1>4, <1>5, <2>1, <2>2, <2>3, UpStays
  <1>7. DnInv'
    <2>1. /\ Frames(pending') = Frames(pending) /\ Owed' = Owed /\ Increasing(pending')
          /\ \A i \in DOMAIN pending' : IsFrame(pending'[i])
      BY <1>1 DEF Frames, Lines, Owed, DnInv, DnWire, Increasing, IsFrame
    <2>2. \A a \in Lines(toC') : a \in Lines(toC)
      BY <1>1 DEF Lines
    <2>3. \A j \in Conns : stream[j] = "none" => sentDn[j] = 0
      BY DEF Ends
    <2>4. DnInv
      OBVIOUS
    <2> HIDE DEF OnWay, Owed, Transit
    <2> QED
      BY <1>1, <2>1, <2>2, <2>3, <2>4, DnStays
  <1>8. Ends'
    <2>1. \A j \in Conns : /\ stream[j] = "none" => queue[j] = <<>>
                           /\ stream[j] \in {"left", "stuck"} => conn[j] = "closed"
                           /\ queue[j] # <<>> => conn[j] = "open"
      BY DEF Ends
    <2> QED
      BY <1>1, <2>1, EndsStay
  <1>9. Prefixes'
    BY <1>1 DEF Prefixes
  <1>10. ClosesDue'
    <2> HIDE DEF Due
    <2> QED
      BY <1>1, <1>4, ClosesStay
  <1> QED
    BY <1>1, <1>6, <1>7, <1>8, <1>9, <1>10

\* What the daemon makes of a frame that is next: its socket's bytes, or its end.
LEMMA TakeFrameGave ==
  ASSUME TypeOK, TypeOK', Ends, DnInv, NEW f \in Line, f.seq > dIn, f.conn \in Conns,
         Socket(f.id) = {k \in Conns : k = f.conn /\ conn[k] = "open"},
         OnClientData(f) \/ OnClientClose(f)
  PROVE  /\ Gave(f) /\ dIn' = f.seq /\ f.t \in {"data", "close"} /\ outbuf' = outbuf
         /\ ToClient(<<Control("ack", f.seq, 0)>>)
         /\ \A k \in Conns : conn'[k] = conn[k] \/ (f.t = "close" /\ k = f.conn /\ conn[k] = "open"
                                                     /\ conn'[k] = "closed" /\ queue'[k] = <<>>)
         /\ \A k \in Conns : queue'[k] = queue[k] \/ queue'[k] = <<>>
                               \/ (f.t = "data" /\ k = f.conn /\ conn[k] = "open" /\ conn'[k] = "open"
                                    /\ queue'[k] = Append(queue[k], <<k, f.n>>))
  <1>1. CASE OnClientData(f)
    <2>1. /\ f.t = "data" /\ dIn' = f.seq /\ outbuf' = outbuf /\ conn' = conn
          /\ ToClient(<<Control("ack", f.seq, 0)>>)
          /\ \A k \in Conns : queue'[k] = IF k = f.conn /\ conn[k] = "open"
                                          THEN Append(queue[k], <<f.conn, f.n>>) ELSE queue[k]
      BY <1>1 DEF OnClientData, TakeFrame
    <2> QED
      BY <2>1 DEF Gave
  <1>2. CASE OnClientClose(f)
    <2>1. /\ f.t = "close" /\ dIn' = f.seq /\ outbuf' = outbuf
          /\ ToClient(<<Control("ack", f.seq, 0)>>)
          /\ \A k \in Conns : conn'[k] = IF k = f.conn /\ conn[k] = "open" THEN "closed" ELSE conn[k]
          /\ \A k \in Conns : queue'[k] = IF k = f.conn /\ conn[k] = "open" THEN <<>> ELSE queue[k]
      BY <1>2 DEF OnClientClose, TakeFrame
    <2>2. Gave(f)
      BY <2>1 DEF Gave
    <2> QED
      BY <2>1, <2>2
  <1> QED
    BY <1>1, <1>2

\* One more chunk in the socket's queue.
LEMMA GivePrefixes ==
  ASSUME TypeOK, TypeOK', Prefixes, UNCHANGED <<gotUp, gotDn, sentUp, sentDn>>,
         NEW f \in Line,
         \A k \in Conns : queue'[k] = queue[k] \/ queue'[k] = <<>>
                               \/ (k = f.conn /\ queue'[k] = Append(queue[k], <<k, f.n>>)
                                    /\ f.n = Len(gotDn[k]) + Len(queue[k]) + 1 /\ f.n <= sentDn[k])
  PROVE  Prefixes'
  <1> SUFFICES ASSUME NEW k \in Conns
               PROVE  /\ Len(gotUp'[k]) <= sentUp'[k]
                      /\ Len(gotDn'[k]) + Len(queue'[k]) <= sentDn'[k]
                      /\ \A i \in DOMAIN gotUp'[k] : gotUp'[k][i] = <<k, i>>
                      /\ \A i \in DOMAIN gotDn'[k] : gotDn'[k][i] = <<k, i>>
                      /\ \A i \in DOMAIN queue'[k] : queue'[k][i] = <<k, Len(gotDn'[k]) + i>>
    BY DEF Prefixes
  <1>1. /\ Len(gotUp[k]) <= sentUp[k] /\ Len(gotDn[k]) + Len(queue[k]) <= sentDn[k]
        /\ \A i \in DOMAIN gotUp[k] : gotUp[k][i] = <<k, i>>
        /\ \A i \in DOMAIN gotDn[k] : gotDn[k][i] = <<k, i>>
        /\ \A i \in DOMAIN queue[k] : queue[k][i] = <<k, Len(gotDn[k]) + i>>
    BY DEF Prefixes
  <1>2. /\ Len(gotDn[k]) \in Nat /\ Len(queue[k]) \in Nat /\ sentDn[k] \in Nat
        /\ queue[k] \in Seq(Chunk)
    BY ReadTypes
  <1>3. CASE queue'[k] = queue[k]
    BY <1>1, <1>3
  <1>4. CASE queue'[k] = <<>>
    <2>1. Len(queue'[k]) = 0 /\ DOMAIN queue'[k] = {}
      BY <1>4, EmptySeq
    <2>2. \A a, b, c \in Nat : a + b <= c => a + 0 <= c
      OBVIOUS
    <2>3. Len(gotDn[k]) + 0 <= sentDn[k]
      BY <1>1, <1>2, <2>2
    <2> QED
      BY <1>1, <2>1, <2>3
  <1>5. CASE /\ k = f.conn /\ queue'[k] = Append(queue[k], <<k, f.n>>)
             /\ f.n = Len(gotDn[k]) + Len(queue[k]) + 1 /\ f.n <= sentDn[k]
    <2> DEFINE q == queue[k]
               g == Len(gotDn[k])
               m == Len(queue[k])
               a == Append(queue[k], <<k, f.n>>)
    <2>1. g \in Nat /\ m \in Nat /\ f.n = g + m + 1 /\ f.n \in Nat
      BY <1>2, <1>5, LineFields
    <2>2. <<k, f.n>> \in Chunk
      <3>1. k \in Nat
        BY BoundsAssumption DEF Conns
      <3>2. f.n \in Nat
        BY <2>1
      <3> QED
        BY <3>1, <3>2 DEF Chunk
    <2>3. /\ Len(a) = m + 1 /\ a[m + 1] = <<k, f.n>> /\ DOMAIN q = 1..m
          /\ a \in Seq(Chunk) /\ \A i \in 1..m : a[i] = q[i]
      <3>1. q \in Seq(Chunk) /\ m = Len(q)
        BY <1>2
      <3> DEFINE e == <<k, f.n>>
      <3>2. e \in Chunk
        BY <2>2
      <3> HIDE DEF q, m, e
      <3>3. /\ Len(Append(q, e)) = m + 1 /\ Append(q, e)[m + 1] = e
            /\ Append(q, e) \in Seq(Chunk) /\ \A i \in 1..m : Append(q, e)[i] = q[i]
        BY <3>1, <3>2, AppendProperties
      <3>4. DOMAIN q = 1..m
        BY <3>1, LenProperties
      <3> QED
        BY <3>3, <3>4 DEF q, m, e
    <2>4. DOMAIN a = 1..(m + 1)
      BY <2>3, LenProperties
    <2>5. \A i \in 1..m : q[i] = <<k, g + i>>
      BY <1>1, <2>3
    <2> HIDE DEF q, g, m, a
    <2>6. \A i \in 1..(m + 1) : a[i] = <<k, g + i>>
      <3> SUFFICES ASSUME NEW i \in 1..(m + 1) PROVE a[i] = <<k, g + i>>
        OBVIOUS
      <3>1. CASE i = m + 1
        <4>1. f.n = g + i
          BY <2>1, <3>1
        <4> QED
          BY <2>3, <3>1, <4>1
      <3>2. CASE i # m + 1
        <4>1. i \in 1..m
          BY <2>1, <3>2
        <4> QED
          BY <2>3, <2>5, <4>1
      <3> QED
        BY <3>1, <3>2
    <2>7. g + (m + 1) = f.n
      BY <2>1
    <2>8. queue'[k] = a /\ Len(gotDn'[k]) = g
      BY <1>5 DEF a, g
    <2>9. Len(gotDn'[k]) + Len(queue'[k]) <= sentDn'[k]
      BY <1>5, <2>3, <2>7, <2>8
    <2>10. \A i \in DOMAIN queue'[k] : queue'[k][i] = <<k, Len(gotDn'[k]) + i>>
      BY <2>4, <2>6, <2>8
    <2> QED
      BY <1>1, <2>9, <2>10
  <1> QED
    BY <1>3, <1>4, <1>5

\* A frame from central is the next for its socket.
LEMMA ClientFrameTransit ==
  ASSUME TypeOK, TypeOK', Transit, NEW q \in Seq(Line), Frames(q) = OnWay, Increasing(q), q # <<>>,
         IsFrame(Head(q)), OnClientData(Head(q)) \/ OnClientClose(Head(q)),
         OnWay' = Frames(Tail(q)), Increasing(toD'), Increasing(zombie'),
         Lines(toD') \subseteq Lines(toD), Lines(zombie') \subseteq Lines(zombie),
         UNCHANGED <<sid, nextStream, client, dOut, pipe, ready, cOut, pending, cIn, stream,
                     gotUp, gotDn, sentUp, sentDn, resets>>
  PROVE  /\ UpInv' /\ DnInv' /\ Ends' /\ Prefixes' /\ ClosesDue'
         /\ dIn' = Head(q).seq /\ Head(q) \in OnWay
         /\ client # "cur" \/ pipe # "open" => toC' = toC
         /\ \A i \in DOMAIN toC' : toC'[i].t = "ready" => i \in DOMAIN toC /\ toC'[i] = toC[i]
  <1> DEFINE f == Head(q)
             l == Control("ack", f.seq, 0)
  <1> USE DEF Transit
  <1>1. /\ f \in OnWay /\ f \in DnFrames /\ f \in Line /\ f.conn \in Conns
        /\ f.seq \in Nat /\ f.seq > dIn /\ f.seq <= cOut /\ f.t \in {"data", "close"}
        /\ OnWay = Frames(Tail(q)) \cup {f} /\ \A g \in Frames(Tail(q)) : f.seq < g.seq
        /\ \A g \in Owed : g = f \/ f.seq < g.seq
        /\ stream[f.conn] # "none"
        /\ f.t = "data" /\ conn[f.conn] = "open" => f.n = Len(gotDn[f.conn]) + Len(queue[f.conn]) + 1
        /\ Socket(f.id) = {k \in Conns : k = f.conn /\ conn[k] = "open"}
    BY HeadDn
  <1>2. OnClientData(f) \/ OnClientClose(f)
    OBVIOUS
  <1>3. l \in Line /\ l.t = "ack" /\ l.seq = f.seq /\ ~IsFrame(l)
    BY <1>1, LineTypes DEF Control, Kinds, IsFrame
  <1> HIDE DEF f, l
  <1>4. /\ Gave(f) /\ dIn' = f.seq /\ outbuf' = outbuf
        /\ ToClient(<<l>>)
        /\ \A k \in Conns : conn'[k] = conn[k] \/ (f.t = "close" /\ k = f.conn /\ conn[k] = "open"
                                                     /\ conn'[k] = "closed" /\ queue'[k] = <<>>)
        /\ \A k \in Conns : queue'[k] = queue[k] \/ queue'[k] = <<>>
                               \/ (f.t = "data" /\ k = f.conn /\ conn[k] = "open" /\ conn'[k] = "open"
                                    /\ queue'[k] = Append(queue[k], <<k, f.n>>))
    BY <1>1, <1>2, TakeFrameGave DEF l
  <1>5. toC \in Seq(Line) /\ Increasing(toC) /\ ResetsClear(toC)
    BY WireTypes DEF UpInv, UpWire
  <1>6. /\ Increasing(toC') /\ Frames(toC') = Frames(toC)
        /\ Lines(toC') \subseteq Lines(toC) \cup {l}
        /\ client # "cur" \/ pipe # "open" => toC' = toC
        /\ \A i \in DOMAIN toC' : (i \in DOMAIN toC /\ toC'[i] = toC[i]) \/ toC'[i] = l
    <2>1. /\ Increasing(toC')
          /\ Lines(toC') \subseteq Lines(toC) \cup {l} /\ Lines(toC) \subseteq Lines(toC')
          /\ ~(client = "cur" /\ pipe = "open") => toC' = toC
          /\ \A i \in DOMAIN toC' : \/ i \in DOMAIN toC /\ toC'[i] = toC[i]
                                    \/ i = Len(toC) + 1 /\ toC'[i] = l
      BY <1>3, <1>4, <1>5, ToClientLines
    <2> QED
      BY <1>3, <2>1 DEF Frames
  <1>7. ResetsClear(toC)'
    <2>1. ResetsClear(toC')
      BY <1>3, <1>4, <1>5, ResetsLater DEF ToClient
    <2> QED
      BY <1>4, <2>1 DEF ResetsClear
  <1>8. UpInv' /\ Due' = Due
    <2>1. UpInv /\ cIn' \in Nat /\ cIn' <= cIn
      BY WireTypes
    <2>2. /\ Increasing(outbuf') /\ \A i \in DOMAIN outbuf' : IsFrame(outbuf'[i])
          /\ Frames(outbuf') = Frames(outbuf) /\ Due' = Due
      BY <1>4 DEF UpInv, UpWire, Frames, Lines, Increasing, IsFrame, Due
    <2>3. \A k \in Conns : conn'[k] = conn[k] \/ (conn[k] = "open" /\ conn'[k] = "closed")
      BY <1>4
    <2> HIDE DEF Due, Transit
    <2> QED
      BY <1>6, <1>7, <2>1, <2>2, <2>3, UpStays
  <1>9. DnInv'
    <2>1. OnWay' = OnWay \ {f} /\ \A g \in OnWay' : f.seq < g.seq
      <3>1. f \notin Frames(Tail(q))
        BY <1>1
      <3> QED
        BY <1>1, <3>1
    <2>2. \A a \in Lines(toC') : a.t = "ack" => a \in Lines(toC) \/ a.seq = f.seq
      BY <1>3, <1>6
    <2>3. DnInv /\ Ends
      OBVIOUS
    <2> HIDE DEF Owed, OnWay, Transit
    <2> QED
      BY <1>1, <1>4, <2>1, <2>2, <2>3, TakeDn
  <1>10. Ends'
    <2>1. \A j \in Conns : /\ stream[j] = "none" => queue[j] = <<>>
                           /\ stream[j] \in {"left", "stuck"} => conn[j] = "closed"
                           /\ queue[j] # <<>> => conn[j] = "open"
      BY DEF Ends
    <2>2. \A j \in Conns : /\ conn'[j] = conn[j] \/ (conn[j] = "open" /\ conn'[j] = "closed")
                           /\ queue'[j] # <<>> => conn'[j] = "open"
                           /\ stream'[j] = "none" => queue'[j] = <<>>
                           /\ stream'[j] \in {"left", "stuck"} => conn'[j] = "closed"
      BY <1>1, <1>4, <2>1
    <2> QED
      BY <2>2, EndsStay
  <1>11. Prefixes'
    <2>1. f.t = "data" => f.n <= sentDn[f.conn]
      <3>1. f.t = "data" => f.n \in 1..sentDn[f.conn]
        BY <1>1 DEF DnInv, DnSound
      <3> QED
        BY <1>1, <3>1, ReadTypes
    <2>2. \A k \in Conns : queue'[k] = queue[k] \/ queue'[k] = <<>>
                               \/ (k = f.conn /\ queue'[k] = Append(queue[k], <<k, f.n>>)
                                    /\ f.n = Len(gotDn[k]) + Len(queue[k]) + 1 /\ f.n <= sentDn[k])
      BY <1>1, <1>4, <2>1
    <2> QED
      BY <1>1, <2>2, GivePrefixes
  <1>12. ClosesDue'
    <2>1. f.t = "close" => stream[f.conn] # "mapped"
      BY <1>1 DEF DnInv, DnSound
    <2>2. \A k \in Conns : conn'[k] = "closed" /\ stream'[k] \in {"none", "mapped"} => conn[k] = "closed"
      BY <1>1, <1>4, <2>1
    <2>3. \A i \in DOMAIN toC' : toC'[i].t = "reset" => \E j \in DOMAIN toC : toC[j] = toC'[i]
      BY <1>3, <1>6
    <2> HIDE DEF Due
    <2> QED
      BY <1>8, <2>2, <2>3, ClosesStay
  <1> QED
    BY <1>1, <1>3, <1>4, <1>6, <1>8, <1>9, <1>10, <1>11, <1>12 DEF f

\* The daemon reads a line of its client, of this pipe or the one before.
LEMMA DaemonRecvTransit ==
  ASSUME TypeOK, TypeOK', Transit, DaemonRecv
  PROVE  Transit'
  <1> USE DEF Transit
  <1>1. UNCHANGED <<sid, nextStream, client, dOut, pipe, ready, cOut, pending, cIn, stream,
                    gotUp, gotDn, sentUp, sentDn, resets>>
    BY DEF DaemonRecv, centralVars
  <1>2. PICK q \in {toD, zombie} :
           /\ q \in Seq(Line) /\ q # <<>> /\ Frames(q) = OnWay /\ Increasing(q) /\ DaemonFrame(Head(q))
           /\ OnWay' = Frames(Tail(q)) /\ Increasing(toD') /\ Increasing(zombie')
           /\ Lines(toD') \subseteq Lines(toD) /\ Lines(zombie') \subseteq Lines(zombie)
           /\ \/ q = toD /\ client = "cur" /\ toD' = Tail(toD) /\ zombie' = zombie /\ zombie = <<>>
              \/ q = zombie /\ client = "old" /\ zombie' = Tail(zombie) /\ toD' = toD
    BY RecvQueue
  <1> DEFINE f == Head(q)
  <1>3. /\ f \in Lines(q) /\ f \in Line /\ f \in Lines(toD) \cup Lines(zombie)
        /\ Frames(q) = Frames(Tail(q)) \cup (IF IsFrame(f) THEN {f} ELSE {})
    <2>1. f \in Lines(q) /\ Frames(q) = Frames(Tail(q)) \cup (IF IsFrame(f) THEN {f} ELSE {})
      BY <1>2, TailLines
    <2> QED
      BY <1>2, <2>1, LinesType
  <1>4. /\ UpInv' /\ DnInv' /\ Ends' /\ Prefixes' /\ ClosesDue'
        /\ dIn' = dIn \/ (dIn' = f.seq /\ f \in OnWay)
        /\ client # "cur" \/ pipe # "open" => toC' = toC
        /\ \A i \in DOMAIN toC' : toC'[i].t = "ready" => i \in DOMAIN toC /\ toC'[i] = toC[i]
    <2>1. CASE OnClientAck(f)
      <3>1. OnWay' = OnWay
        BY <1>2, <1>3, <2>1 DEF OnClientAck, IsFrame
      <3> HIDE DEF Transit, OnWay, f
      <3>2. UpInv' /\ DnInv' /\ Ends' /\ Prefixes' /\ ClosesDue' /\ toC' = toC /\ dIn' = dIn
        BY <1>1, <1>2, <1>3, <2>1, <3>1, ClientAckTransit
      <3> QED
        BY <3>2
    <2>2. CASE OnClientData(f) \/ OnClientClose(f)
      <3>1. IsFrame(f)
        BY <2>2 DEF OnClientData, OnClientClose, IsFrame
      <3> HIDE DEF Transit, OnWay
      <3> QED
        BY <1>1, <1>2, <2>2, <3>1, ClientFrameTransit
    <2> QED
      BY <1>2, <2>1, <2>2 DEF DaemonFrame
  <1>5. Frames(toD') \subseteq Frames(toD) /\ Frames(zombie') \subseteq Frames(zombie)
    BY <1>2 DEF Frames
  <1>6. Pipes'
    <2>1. /\ pipe' \in {"none", "missing"} => ~ready' /\ toC' = <<>>
          /\ pipe' = "open" /\ client' # "cur" => ~ready' /\ toC' = <<>>
          /\ client' # "cur" => Frames(toD') = {}
          /\ client' = "old" => toC' = <<>>
      BY <1>1, <1>4, <1>5 DEF Pipes
    <2>2. client' # "old" => zombie' = <<>>
      BY <1>1, <1>2 DEF Pipes
    <2>3. ASSUME NEW i \in DOMAIN toD', toD'[i].t = "hello"
          PROVE  /\ i = 1 /\ client' # "cur" /\ toC' = <<>> /\ toD'[i].n = cIn' /\ toD'[i].seq >= dIn'
                 /\ \A g \in Frames(zombie') : g.seq <= toD'[i].seq
      <3>1. PICK j \in DOMAIN toD : toD[j] = toD'[i]
        BY <1>2 DEF Lines
      <3>2. client # "cur"
        BY <2>3, <3>1 DEF Pipes
      <3>3. client = "old" /\ toD' = toD /\ Frames(toD) = {}
        BY <1>2, <3>2 DEF Pipes
      <3>4. OnWay = Frames(zombie)
        BY <3>3 DEF OnWay
      <3>5. /\ i = 1 /\ toC = <<>> /\ toD[i].n = cIn /\ toD[i].seq >= dIn
            /\ \A g \in Frames(zombie) : g.seq <= toD[i].seq
        BY <2>3, <3>3 DEF Pipes
      <3>6. toD'[i].seq >= dIn'
        <4>1. toD[i].seq \in Nat /\ dIn \in Nat
          <5>1. toD[i] \in Line
            BY <3>3, WireTypes, Elements
          <5> QED
            BY <5>1, WireTypes, LineFields
        <4>2. dIn' = f.seq /\ f \in OnWay => toD[i].seq >= dIn'
          <5>1. f.seq \in Nat
            BY <1>3, LineFields
          <5> HIDE DEF f
          <5> QED
            BY <3>4, <3>5, <4>1, <5>1
        <4> QED
          BY <1>4, <3>3, <3>5, <4>2
      <3> QED
        BY <1>1, <1>4, <1>5, <3>2, <3>3, <3>5, <3>6
    <2>4. ASSUME NEW i \in DOMAIN toC', toC'[i].t = "ready"
          PROVE  i = 1 /\ ~ready' /\ toC'[i].seq >= cIn' /\ toC'[i].n = dIn' /\ Frames(toD') = {}
      <3>1. i \in DOMAIN toC /\ toC'[i] = toC[i]
        BY <1>4, <2>4
      <3>2. i = 1 /\ ~ready /\ toC[i].seq >= cIn /\ toC[i].n = dIn /\ Frames(toD) = {}
        BY <2>4, <3>1 DEF Pipes
      <3>3. client # "old"
        BY <3>1, EmptySeq DEF Pipes
      <3>4. OnWay = {}
        BY <1>2, <3>2, <3>3
      <3>5. dIn' = dIn
        BY <1>4, <3>4
      <3> QED
        BY <1>1, <1>5, <3>1, <3>2, <3>5
    <2> QED
      BY <2>1, <2>2, <2>3, <2>4 DEF Pipes
  <1> QED
    BY <1>4, <1>6

\* A step that moves nothing and takes nothing.
LEMMA StillTransit ==
  ASSUME TypeOK, TypeOK', Transit, Pipes',
         UNCHANGED <<sid, nextStream, dOut, outbuf, dIn, cOut, pending, cIn, toD, toC, zombie,
                     agentVars, resets>>,
         client' = "cur" /\ pipe' = "open" => client = "cur" /\ pipe = "open",
         ready' /\ pipe' = "open" => ready /\ pipe = "open",
         \A k \in Conns : stream'[k] = stream[k] \/ (stream[k] \in {"left", "stuck"} /\ stream'[k] = "gone")
  PROVE  Transit'
  <1> USE DEF Transit
  <1>1. UNCHANGED <<conn, sentUp, gotUp, sentDn, queue, gotDn>>
    BY DEF agentVars
  <1>2. UpInv' /\ DnInv' /\ Due' = Due
    <2>1. \A k \in Conns : \/ stream'[k] = stream[k]
                           \/ stream[k] # "none" /\ stream'[k] \notin {"none", "mapped"}
      OBVIOUS
    <2>2. Ends /\ UpInv /\ DnInv
      OBVIOUS
    <2> HIDE DEF Due, Owed, Transit
    <2> QED
      BY <1>1, <2>1, <2>2, StillWires
  <1>3. Ends'
    <2>1. \A j \in Conns : /\ stream[j] = "none" => queue[j] = <<>>
                           /\ stream[j] \in {"left", "stuck"} => conn[j] = "closed"
                           /\ queue[j] # <<>> => conn[j] = "open"
                           /\ conn[j] = "idle" => stream[j] = "none"
      BY DEF Ends
    <2>2. \A j \in Conns : /\ stream'[j] = "none" => stream[j] = "none" /\ queue'[j] = <<>>
                           /\ stream'[j] \in {"left", "stuck"} => conn'[j] = "closed"
                           /\ queue'[j] # <<>> => conn'[j] = "open"
                           /\ conn[j] = "idle" => stream'[j] = stream[j]
      BY <1>1, <2>1
    <2> QED
      BY <1>1, <2>2, EndsStay
  <1>4. Prefixes'
    BY <1>1 DEF Prefixes
  <1>5. ClosesDue'
    <2>1. \A k \in Conns : conn'[k] = "closed" /\ stream'[k] \in {"none", "mapped"} =>
            conn[k] = "closed" /\ stream[k] \in {"none", "mapped"}
      BY <1>1
    <2> HIDE DEF Due
    <2> QED
      BY <1>2, <2>1, ClosesStay
  <1> QED
    BY <1>2, <1>3, <1>4, <1>5

\* Of each pipe a beginning still arrives.
LEMMA CutTransit ==
  ASSUME TypeOK, TypeOK', Transit, pipe' \notin {"none", "missing", "open"},
         \E i \in 0..Len(toD) : toD' = SubSeq(toD, 1, i),
         \E j \in 0..Len(toC) : toC' = SubSeq(toC, 1, j),
         \/ pending' = pending /\ stream' = stream /\ ready' = ready
         \/ pending' = <<>> /\ stream' = Dropped(stream) /\ ready' = FALSE,
         UNCHANGED <<sid, nextStream, client, dOut, outbuf, dIn, cOut, cIn, zombie, agentVars, resets>>
  PROVE  Transit'
  <1> USE DEF Transit
  <1>1. UNCHANGED <<conn, sentUp, gotUp, sentDn, queue, gotDn>>
    BY DEF agentVars
  <1>2. /\ toD \in Seq(Line) /\ toC \in Seq(Line) /\ Increasing(toD) /\ Increasing(toC)
        /\ Increasing(zombie) /\ Increasing(pending) /\ \A i \in DOMAIN pending : IsFrame(pending[i])
        /\ ResetsClear(toC)
    BY WireTypes DEF UpInv, UpWire, DnInv, DnWire
  <1>3. /\ Lines(toD') \subseteq Lines(toD) /\ Frames(toD') \subseteq Frames(toD) /\ Increasing(toD')
        /\ DOMAIN toD' \subseteq DOMAIN toD /\ \A i \in DOMAIN toD' : toD'[i] = toD[i]
        /\ \A f \in Frames(toD'), g \in Frames(toD) : g.seq <= f.seq => g \in Frames(toD')
    BY <1>2, CutLines
  <1>4. /\ Lines(toC') \subseteq Lines(toC) /\ Frames(toC') \subseteq Frames(toC) /\ Increasing(toC')
        /\ DOMAIN toC' \subseteq DOMAIN toC /\ \A i \in DOMAIN toC' : toC'[i] = toC[i]
        /\ \A f \in Frames(toC'), g \in Frames(toC) : g.seq <= f.seq => g \in Frames(toC')
        /\ toC = <<>> => toC' = <<>>
    <2>1. /\ Lines(toC') \subseteq Lines(toC) /\ Frames(toC') \subseteq Frames(toC) /\ Increasing(toC')
          /\ DOMAIN toC' \subseteq DOMAIN toC /\ \A i \in DOMAIN toC' : toC'[i] = toC[i]
          /\ \A f \in Frames(toC'), g \in Frames(toC) : g.seq <= f.seq => g \in Frames(toC')
          /\ toC' \in Seq(Line)
      BY <1>2, CutLines
    <2>2. toC = <<>> => toC' = <<>>
      <3> SUFFICES ASSUME toC = <<>> PROVE toC' = <<>>
        OBVIOUS
      <3>1. DOMAIN toC' = {}
        BY <2>1, EmptySeq
      <3> QED
        BY <2>1, <3>1, EmptySeq
    <2> QED
      BY <2>1, <2>2
  <1>5. /\ \A k \in Conns : stream'[k] = stream[k] \/ (stream[k] = "mapped" /\ stream'[k] = "gone")
        /\ ready' => ready
        /\ Frames(pending') \subseteq Frames(pending) /\ Increasing(pending')
        /\ \A i \in DOMAIN pending' : IsFrame(pending'[i])
        /\ Frames(pending') = Frames(pending)
           \/ (Frames(pending') = {} /\ \A k \in Conns : stream'[k] # "mapped")
    <2>1. CASE pending' = pending /\ stream' = stream /\ ready' = ready
      BY <1>2, <2>1 DEF Frames, Lines, Increasing, IsFrame
    <2>2. CASE pending' = <<>> /\ stream' = Dropped(stream) /\ ready' = FALSE
      <3>1. \A k \in Conns : stream'[k] = IF stream[k] = "mapped" THEN "gone" ELSE stream[k]
        BY <2>2 DEF Dropped
      <3>2. Frames(pending') = {} /\ Increasing(pending') /\ DOMAIN pending' = {}
        BY <2>2, NoLines, EmptySeq
      <3> QED
        BY <2>2, <3>1, <3>2
    <2> QED
      BY <2>1, <2>2
  <1>6. UpInv' /\ Due' = Due
    <2>1. ResetsClear(toC)'
      <3>1. ResetsClear(toC')
        BY <1>2, WireTypes, ResetsLater
      <3> QED
        BY <3>1 DEF ResetsClear
    <2>2. /\ Increasing(outbuf') /\ \A i \in DOMAIN outbuf' : IsFrame(outbuf'[i])
          /\ Frames(outbuf') = Frames(outbuf) /\ Due' = Due
      BY DEF UpInv, UpWire, Frames, Lines, Increasing, IsFrame, Due
    <2>3. cIn' \in Nat /\ cIn' <= cIn
      BY WireTypes
    <2>4. \A k \in Conns : \/ stream'[k] = stream[k]
                           \/ stream[k] # "none" /\ stream'[k] \notin {"none", "mapped"}
      BY <1>5
    <2>5. UpInv /\ Lines(zombie') = Lines(zombie)
      BY DEF Lines
    <2> HIDE DEF Due, Transit
    <2> QED
      BY <1>1, <1>3, <1>4, <2>1, <2>2, <2>3, <2>4, <2>5, UpStays
  <1>7. DnInv'
    <2>1. OnWay' \subseteq OnWay /\ \A f \in OnWay', g \in OnWay : g.seq <= f.seq => g \in OnWay'
      <3>1. Frames(zombie') = Frames(zombie)
        BY DEF Frames, Lines, IsFrame
      <3>2. Frames(toD) = {} \/ Frames(zombie) = {}
        BY NoLines DEF Pipes
      <3> QED
        BY <1>3, <3>1, <3>2 DEF OnWay
    <2>2. Owed' = Owed \/ (Owed' = {} /\ \A k \in Conns : stream'[k] # "mapped")
      BY <1>5 DEF Owed
    <2>3. \A j \in Conns : stream[j] = "none" => sentDn[j] = 0
      BY DEF Ends
    <2>4. Increasing(zombie')
      BY <1>2 DEF Increasing, IsFrame
    <2>5. \A k \in Conns : stream[k] # "none" =>
            sid'[k] = sid[k] /\ stream'[k] # "none" /\ (stream[k] # "mapped" => stream'[k] # "mapped")
      BY <1>5
    <2>6. DnInv
      OBVIOUS
    <2>7. \A k \in Conns : stream[k] # "none" /\ conn'[k] = "open" =>
           conn[k] = "open" /\ Len(gotDn'[k]) + Len(queue'[k]) = Len(gotDn[k]) + Len(queue[k])
      BY <1>1
    <2> HIDE DEF Owed, OnWay, Transit
    <2> QED
      BY <1>1, <1>3, <1>4, <1>5, <2>1, <2>2, <2>3, <2>4, <2>5, <2>6, <2>7, DnStays
  <1>8. Pipes'
    <2>1. /\ client' # "cur" => Frames(toD') = {}
          /\ client' # "old" => zombie' = <<>>
          /\ client' = "old" => toC' = <<>>
      BY <1>3, <1>4 DEF Pipes
    <2>2. ASSUME NEW i \in DOMAIN toD', toD'[i].t = "hello"
          PROVE  /\ i = 1 /\ client' # "cur" /\ toC' = <<>> /\ toD'[i].n = cIn' /\ toD'[i].seq >= dIn'
                 /\ \A f \in Frames(zombie') : f.seq <= toD'[i].seq
      <3>1. i \in DOMAIN toD /\ toD'[i] = toD[i] /\ Frames(zombie') = Frames(zombie)
        BY <1>3 DEF Frames, Lines, IsFrame
      <3> QED
        BY <1>4, <2>2, <3>1 DEF Pipes
    <2>3. ASSUME NEW i \in DOMAIN toC', toC'[i].t = "ready"
          PROVE  i = 1 /\ ~ready' /\ toC'[i].seq >= cIn' /\ toC'[i].n = dIn' /\ Frames(toD') = {}
      <3>1. i \in DOMAIN toC /\ toC'[i] = toC[i]
        BY <1>4
      <3> QED
        BY <1>3, <1>5, <2>3, <3>1 DEF Pipes
    <2> QED
      BY <2>1, <2>2, <2>3 DEF Pipes
  <1>9. Ends'
    <2>1. \A j \in Conns : /\ stream[j] = "none" => queue[j] = <<>>
                           /\ stream[j] \in {"left", "stuck"} => conn[j] = "closed"
                           /\ queue[j] # <<>> => conn[j] = "open"
                           /\ conn[j] = "idle" => stream[j] = "none"
      BY DEF Ends
    <2>2. \A j \in Conns : /\ stream'[j] = "none" => stream[j] = "none" /\ queue'[j] = <<>>
                           /\ stream'[j] \in {"left", "stuck"} => conn'[j] = "closed"
                           /\ queue'[j] # <<>> => conn'[j] = "open"
                           /\ conn[j] = "idle" => stream'[j] = stream[j]
      BY <1>1, <1>5, <2>1
    <2> QED
      BY <1>1, <2>2, EndsStay
  <1>10. Prefixes'
    BY <1>1 DEF Prefixes
  <1>11. ClosesDue'
    <2>1. \A k \in Conns : conn'[k] = "closed" /\ stream'[k] \in {"none", "mapped"} =>
            conn[k] = "closed" /\ stream[k] \in {"none", "mapped"}
      BY <1>1, <1>5
    <2> HIDE DEF Due
    <2> QED
      BY <1>4, <1>6, <2>1, ClosesStay
  <1> QED
    BY <1>6, <1>7, <1>8, <1>9, <1>10, <1>11

\* A new pipe begins with a hello; what the old one still brings is before it.
LEMMA AttachTransit ==
  ASSUME TypeOK, TypeOK', Transit, Attach
  PROVE  Transit'
  <1> USE DEF Transit
  <1> DEFINE l == Control("hello", cOut, cIn)
  <1>1. /\ pipe = "none" /\ pipe' = "open" /\ toC' = <<>> /\ toD' = <<l>>
        /\ \/ client = "cur" /\ client' = "old" /\ zombie' = toD
           \/ client # "cur" /\ client' = client /\ zombie' = zombie
        /\ UNCHANGED <<sid, nextStream, dOut, outbuf, dIn, ready, cOut, pending, cIn, stream,
                       conn, sentUp, gotUp, sentDn, queue, gotDn, resets>>
    BY DEF Attach, agentVars
  <1>2. ~ready /\ client \in {"none", "cur", "old"}
    BY <1>1 DEF Pipes, TypeOK, DaemonTypeOK
  <1>3. cOut \in Nat /\ cIn \in Nat /\ dIn \in Nat /\ dIn <= cOut
    BY WireTypes DEF DnInv, DnWire
  <1>4. l \in Line /\ l.t = "hello" /\ l.n = cIn /\ l.seq = cOut /\ ~IsFrame(l)
    BY <1>3, LineTypes DEF Control, Kinds, IsFrame
  <1> HIDE DEF l
  <1>5. /\ Lines(toD') = {l} /\ Frames(toD') = {} /\ Increasing(toD')
        /\ \A i \in DOMAIN toD' : i = 1 /\ toD'[i] = l
    <2>1. /\ <<l>> \in Seq(Line) /\ Lines(<<l>>) = {l} /\ Increasing(<<l>>) /\ Frames(<<l>>) = {}
          /\ Len(<<l>>) = 1 /\ <<l>>[1] = l
      BY <1>4, OneLine
    <2>2. DOMAIN <<l>> = 1..1
      BY <2>1, LenProperties
    <2> QED
      BY <1>1, <2>1, <2>2
  <1>6. /\ OnWay' = OnWay /\ Increasing(zombie') /\ Frames(zombie') \subseteq OnWay
        /\ Lines(zombie') \subseteq Lines(toD) \cup Lines(zombie)
        /\ client' # "old" => zombie' = <<>>
    <2>1. Increasing(toD) /\ Increasing(zombie)
      BY DEF DnInv, DnWire
    <2>2. CASE client = "cur"
      <3>1. zombie' = toD /\ client' = "old"
        BY <1>1, <2>2
      <3>2. Frames(zombie) = {} /\ Frames(zombie') = Frames(toD) /\ Lines(zombie') = Lines(toD)
        BY <2>2, <3>1, NoLines DEF Pipes, Frames, Lines, IsFrame
      <3>3. Increasing(zombie')
        BY <2>1, <3>1 DEF Increasing, IsFrame
      <3> QED
        BY <1>5, <3>1, <3>2, <3>3 DEF OnWay
    <2>3. CASE client # "cur"
      <3>1. zombie' = zombie /\ Frames(toD) = {} /\ client' = client
        BY <1>1, <2>3 DEF Pipes
      <3>2. Frames(zombie') = Frames(zombie) /\ Lines(zombie') = Lines(zombie)
        BY <3>1 DEF Frames, Lines, IsFrame
      <3>3. Increasing(zombie')
        BY <2>1, <3>1 DEF Increasing, IsFrame
      <3>4. client' # "old" => zombie' = <<>>
        BY <3>1 DEF Pipes
      <3> QED
        BY <1>5, <3>1, <3>2, <3>3, <3>4 DEF OnWay
    <2> QED
      BY <2>2, <2>3
  <1>7. UpInv' /\ Due' = Due
    <2>1. Frames(toC') = {} /\ Increasing(toC') /\ Lines(toC') = {}
      BY <1>1, NoLines
    <2>2. ResetsClear(toC)'
      BY <1>1, EmptySeq DEF ResetsClear
    <2>3. /\ Increasing(outbuf') /\ \A i \in DOMAIN outbuf' : IsFrame(outbuf'[i])
          /\ Frames(outbuf') = Frames(outbuf) /\ Due' = Due
      BY <1>1 DEF UpInv, UpWire, Frames, Lines, Increasing, IsFrame, Due
    <2>4. cIn' \in Nat /\ cIn' <= cIn
      BY <1>1, <1>3
    <2>5. client' # "cur"
      BY <1>1
    <2>6. \A a \in Lines(toD') \cup Lines(zombie') : a.t = "ack" => a \in Lines(toD) \cup Lines(zombie)
      BY <1>4, <1>5, <1>6
    <2>7. UpInv
      OBVIOUS
    <2> HIDE DEF Due, Transit
    <2> QED
      BY <1>1, <2>1, <2>2, <2>3, <2>4, <2>5, <2>6, <2>7, UpStays
  <1>8. DnInv'
    <2>1. /\ Frames(pending') = Frames(pending) /\ Owed' = Owed /\ Increasing(pending')
          /\ \A i \in DOMAIN pending' : IsFrame(pending'[i])
      BY <1>1 DEF Frames, Lines, Owed, DnInv, DnWire, Increasing, IsFrame
    <2>2. Lines(toC') = {}
      BY <1>1, NoLines
    <2>3. \A j \in Conns : stream[j] = "none" => sentDn[j] = 0
      BY DEF Ends
    <2>4. DnInv
      OBVIOUS
    <2> HIDE DEF OnWay, Owed, Transit
    <2> QED
      BY <1>1, <1>2, <1>5, <1>6, <2>1, <2>2, <2>3, <2>4, DnStays
  <1>9. Pipes'
    <2>1. \A f \in OnWay : f.seq <= cOut
      BY FrameTypes DEF DnInv, DnSound
    <2>2. \A i \in DOMAIN toC' : FALSE
      BY <1>1, EmptySeq
    <2>3. client' # "cur" /\ client' \in {"none", "old"}
      BY <1>1, <1>2
    <2>4. \A i \in DOMAIN toD' :
            /\ i = 1 /\ toD'[i].n = cIn' /\ toD'[i].seq >= dIn'
            /\ \A f \in Frames(zombie') : f.seq <= toD'[i].seq
      BY <1>1, <1>3, <1>4, <1>5, <1>6, <2>1
    <2> QED
      BY <1>1, <1>2, <1>5, <1>6, <2>2, <2>3, <2>4 DEF Pipes
  <1>10. Ends'
    <2>1. \A j \in Conns : /\ stream[j] = "none" => queue[j] = <<>>
                           /\ stream[j] \in {"left", "stuck"} => conn[j] = "closed"
                           /\ queue[j] # <<>> => conn[j] = "open"
      BY DEF Ends
    <2> QED
      BY <1>1, <2>1, EndsStay
  <1>11. Prefixes'
    BY <1>1 DEF Prefixes
  <1>12. ClosesDue'
    <2>1. \A i \in DOMAIN toC' : FALSE
      BY <1>1, EmptySeq
    <2> HIDE DEF Due
    <2> QED
      BY <1>1, <1>7, <2>1, ClosesStay
  <1> QED
    BY <1>7, <1>8, <1>9, <1>10, <1>11, <1>12

\* The first daemon finds nothing on its way.
LEMMA StartTransit ==
  ASSUME TypeOK, TypeOK', NothingStarted, Transit, StartDaemon, starts = 0
  PROVE  Transit'
  <1> USE DEF Transit
  <1>1. /\ pipe = "missing" /\ pipe' = "none"
        /\ nextStream' = 0 /\ client' = "none" /\ dOut' = 0 /\ outbuf' = <<>> /\ dIn' = 0 /\ zombie' = <<>>
        /\ conn' = Shut(conn) /\ queue' = [k \in Conns |-> <<>>]
        /\ UNCHANGED <<sid, ready, cOut, pending, cIn, stream, toD, toC, sentUp, gotUp, sentDn, gotDn, resets>>
    BY DEF StartDaemon, DaemonDies
  <1>2. starts = 0
    OBVIOUS
  <1>3. /\ dOut = 0 /\ outbuf = <<>> /\ cIn = 0 /\ toD = <<>> /\ toC = <<>> /\ zombie = <<>>
        /\ \A k \in Conns : conn[k] = "idle"
    BY <1>2 DEF NothingStarted
  <1>4. \A k \in Conns : /\ conn'[k] = "idle" /\ queue'[k] = <<>> /\ stream'[k] = "none" /\ sentUp'[k] = 0
                         /\ gotUp'[k] = <<>> /\ gotDn'[k] = <<>> /\ sentDn'[k] = 0
    BY <1>1, <1>3 DEF Shut, Ends
  <1>5. /\ Lines(outbuf') = {} /\ Lines(toC') = {} /\ Lines(toD') = {} /\ Lines(zombie') = {}
        /\ Frames(outbuf') = {} /\ Frames(toC') = {} /\ Frames(toD') = {} /\ Frames(zombie') = {}
        /\ Increasing(outbuf') /\ Increasing(toC') /\ Increasing(toD') /\ Increasing(zombie')
        /\ DOMAIN outbuf' = {} /\ DOMAIN toC' = {} /\ DOMAIN toD' = {}
    BY <1>1, <1>3, NoLines, EmptySeq
  <1>6. Frames(pending') = {}
    <2>1. \A f \in Frames(pending) : f.conn \in Conns /\ stream[f.conn] # "none"
      BY DEF DnInv, DnSound, DnFrames
    <2>2. Frames(pending) = {}
      BY <1>1, <1>4, <2>1
    <2> QED
      BY <1>1, <2>2 DEF Frames, Lines, IsFrame
  <1>7. UpFrames' = {} /\ DnFrames' = {} /\ Due' = {} /\ Owed' = {} /\ OnWay' = {}
    BY <1>5, <1>6 DEF UpFrames, DnFrames, Due, Owed, OnWay
  <1> HIDE DEF UpFrames, DnFrames, Due, Owed, OnWay
  <1>8. UpInv'
    <2>1. UpSound' /\ UpNext(Due)' /\ UpNext(Frames(toC))'
      BY <1>5, <1>7 DEF UpSound, UpNext
    <2>2. UpWire'
      BY <1>1, <1>3, <1>5, <1>7 DEF UpWire, ResetsClear
    <2>3. UpAcks' /\ UpHeld'
      BY <1>4, <1>5 DEF UpAcks, UpHeld
    <2> QED
      BY <2>1, <2>2, <2>3 DEF UpInv
  <1>9. DnInv'
    <2>1. DnSound' /\ DnNext(Owed)' /\ DnNext(OnWay)' /\ DnAcks' /\ DnKept'
      BY <1>4, <1>5, <1>7 DEF DnSound, DnNext, DnAcks, DnKept
    <2>2. dIn' <= cOut' /\ Increasing(pending') /\ \A i \in DOMAIN pending' : IsFrame(pending'[i])
      <3>1. cOut' \in Nat
        BY WireTypes DEF TypeOK, CentralTypeOK
      <3> QED
        BY <1>1, <3>1 DEF DnInv, DnWire, Increasing, IsFrame
    <2>3. DnWire'
      BY <1>5, <1>7, <2>2 DEF DnWire
    <2> QED
      BY <2>1, <2>3 DEF DnInv
  <1>10. Pipes'
    BY <1>1, <1>3, <1>5 DEF Pipes
  <1>11. Ends' /\ ClosesDue'
    BY <1>4, <1>5 DEF Ends, ClosesDue
  <1>12. Prefixes'
    <2>1. DOMAIN <<>> = {} /\ Len(<<>>) = 0 /\ 0 <= 0 /\ 0 + 0 <= 0
      BY EmptySeq
    <2> QED
      BY <1>4, <2>1 DEF Prefixes
  <1> QED
    BY <1>8, <1>9, <1>10, <1>11, <1>12

\* The daemon's client is gone.
LEMMA DaemonGoneTransit == TypeOK /\ TypeOK' /\ Transit /\ DaemonGone => Transit'
  <1> SUFFICES ASSUME TypeOK, TypeOK', Transit, DaemonGone PROVE Transit'
    OBVIOUS
  <1>1. /\ \/ client = "old" /\ zombie = <<>>
           \/ client = "cur" /\ pipe # "open" /\ toD = <<>>
        /\ client' = "none"
        /\ UNCHANGED <<sid, nextStream, dOut, outbuf, dIn, cOut, pending, cIn, toD, toC, zombie,
                       agentVars, resets, stream, pipe, ready>>
    BY DEF DaemonGone, centralVars, wireVars
  <1>2. Pipes'
    <2>1. zombie = <<>> /\ Frames(toD) = {} /\ (pipe = "open" => ~ready /\ toC = <<>>)
      BY <1>1, NoLines DEF Transit, Pipes
    <2>2. Frames(toD') = {} /\ Frames(zombie') = Frames(zombie)
      BY <1>1, <2>1 DEF Frames, Lines, IsFrame
    <2>3. ASSUME NEW i \in DOMAIN toD', toD'[i].t = "hello"
          PROVE  /\ i = 1 /\ client' # "cur" /\ toC' = <<>> /\ toD'[i].n = cIn' /\ toD'[i].seq >= dIn'
                 /\ \A f \in Frames(zombie') : f.seq <= toD'[i].seq
      BY <1>1, <2>2, <2>3 DEF Transit, Pipes
    <2>4. ASSUME NEW i \in DOMAIN toC', toC'[i].t = "ready"
          PROVE  i = 1 /\ ~ready' /\ toC'[i].seq >= cIn' /\ toC'[i].n = dIn' /\ Frames(toD') = {}
      BY <1>1, <2>2, <2>4 DEF Transit, Pipes
    <2>5. pipe' \in {"none", "missing"} => ~ready' /\ toC' = <<>>
      BY <1>1 DEF Transit, Pipes
    <2> QED
      BY <1>1, <2>1, <2>2, <2>3, <2>4, <2>5 DEF Pipes
  <1> QED
    BY <1>1, <1>2, StillTransit

\* The grace period ends.
LEMMA GraceTransit == TypeOK /\ TypeOK' /\ Transit /\ GraceExpire => Transit'
  <1> SUFFICES ASSUME TypeOK, TypeOK', Transit, GraceExpire PROVE Transit'
    OBVIOUS
  <1>1. /\ ResetTunnels /\ toC' = toC
        /\ UNCHANGED <<cIn, dIn, dOut, nextStream, sid, stream, gotUp, gotDn, sentUp, sentDn, cOut, pending,
                       toD, zombie, client, pipe, ready>>
    BY DEF GraceExpire, centralVars, wireVars
  <1>2. dOut <= dOut' /\ nextStream <= nextStream' /\ \A j \in Conns : sentUp[j] <= sentUp'[j]
    BY <1>1, WireTypes
  <1> QED
    BY <1>1, <1>2, ResetTransit

\* The steps of the pipe and of a route that only change a flag.
LEMMA FlagTransit ==
  ASSUME TypeOK, TypeOK', Transit,
         \/ DaemonBoot \/ AttachNoDaemon \/ StartFails \/ PipeDone \/ Drain
         \/ \E k \in Conns : RouteFinish(k)
  PROVE  Transit'
  <1>1. CASE DaemonBoot
    <2>1. /\ UNCHANGED <<sid, nextStream, dOut, outbuf, dIn, cOut, pending, cIn, toD, toC, zombie,
                         agentVars, resets, stream, pipe, ready, client>>
      BY <1>1 DEF DaemonBoot, centralVars, wireVars
    <2>2. Pipes'
      BY <2>1, PipesStay DEF Transit
    <2> QED
      BY <2>1, <2>2, StillTransit
  <1>2. CASE AttachNoDaemon \/ StartFails
    <2>1. /\ UNCHANGED <<sid, nextStream, dOut, outbuf, dIn, cOut, pending, cIn, toD, toC, zombie,
                         agentVars, resets, stream, ready, client>>
          /\ pipe \in {"none", "missing"} /\ pipe' \in {"none", "missing"}
      BY <1>2 DEF AttachNoDaemon, StartFails, daemonVars, wireVars
    <2>2. Pipes'
      BY <2>1 DEF Transit, Pipes, Frames, Lines, IsFrame
    <2> QED
      BY <2>1, <2>2, StillTransit
  <1>3. CASE PipeDone
    <2>1. /\ UNCHANGED <<sid, nextStream, dOut, outbuf, dIn, cOut, pending, cIn, toD, toC, zombie,
                         agentVars, resets, stream, client>>
          /\ toC = <<>> /\ pipe' = "none" /\ ready' = FALSE
      BY <1>3 DEF PipeDone, daemonVars, wireVars
    <2>2. Pipes'
      BY <2>1, EmptySeq DEF Transit, Pipes, Frames, Lines, IsFrame
    <2> QED
      BY <2>1, <2>2, StillTransit
  <1>4. CASE Drain
    <2>1. /\ UNCHANGED <<sid, nextStream, dOut, outbuf, dIn, cOut, pending, cIn, toD, toC, zombie,
                         agentVars, resets, stream, pipe, ready, client>>
      BY <1>4 DEF Drain, daemonVars, wireVars
    <2>2. Pipes'
      BY <2>1, PipesStay DEF Transit
    <2> QED
      BY <2>1, <2>2, StillTransit
  <1>5. ASSUME NEW k \in Conns, RouteFinish(k) PROVE Transit'
    <2>1. /\ UNCHANGED <<sid, nextStream, dOut, outbuf, dIn, cOut, pending, cIn, toD, toC, zombie,
                         agentVars, resets, pipe, ready, client>>
          /\ stream[k] \in {"left", "stuck"} /\ stream' = [stream EXCEPT ![k] = "gone"]
      BY <1>5 DEF RouteFinish, daemonVars, wireVars
    <2>2. Pipes'
      BY <2>1, PipesStay DEF Transit
    <2>3. \A j \in Conns : stream'[j] = stream[j] \/ (stream[j] \in {"left", "stuck"} /\ stream'[j] = "gone")
      BY <2>1, WireTypes
    <2> QED
      BY <2>1, <2>2, <2>3, StillTransit
  <1> QED
    BY <1>1, <1>2, <1>3, <1>4, <1>5

\* A pipe breaks, or the relay is closed.
LEMMA CutStepsTransit == TypeOK /\ TypeOK' /\ Transit /\ (Break \/ Close) => Transit'
  <1> SUFFICES ASSUME TypeOK, TypeOK', Transit, Break \/ Close PROVE Transit'
    OBVIOUS
  <1>1. /\ UNCHANGED <<sid, nextStream, client, dOut, outbuf, dIn, cOut, cIn, zombie, agentVars, resets>>
        /\ pipe' \notin {"none", "missing", "open"}
        /\ \E i \in 0..Len(toD) : toD' = SubSeq(toD, 1, i)
        /\ \E j \in 0..Len(toC) : toC' = SubSeq(toC, 1, j)
        /\ \/ pending' = pending /\ stream' = stream /\ ready' = ready
           \/ pending' = <<>> /\ stream' = Dropped(stream) /\ ready' = FALSE
    BY DEF Break, Close, daemonVars
  <1> QED
    BY <1>1, CutTransit

\* What central's reading of one line makes of the two pipes.
LEMMA RecvPipes ==
  ASSUME TypeOK, Pipes, toC # <<>>, toC' = Tail(toC), UNCHANGED <<pipe, client, zombie>>,
         client # "cur" => Frames(toD') = {},
         \A i \in DOMAIN toD' : toD'[i].t = "hello" => \E j \in DOMAIN toD : toD[j].t = "hello"
  PROVE  Pipes' /\ pipe \notin {"none", "missing"} /\ (pipe = "open" => client = "cur") /\ client # "old"
  <1>1. pipe \notin {"none", "missing"} /\ (pipe = "open" => client = "cur") /\ client # "old"
    BY DEF Pipes
  <1>2. \A i \in DOMAIN toD' : toD'[i].t # "hello"
    BY DEF Pipes
  <1>3. \A i \in DOMAIN toC' : toC'[i].t # "ready"
    <2> SUFFICES ASSUME NEW i \in DOMAIN Tail(toC), Tail(toC)[i].t = "ready" PROVE FALSE
      OBVIOUS
    <2>1. /\ Len(Tail(toC)) = Len(toC) - 1 /\ Len(toC) \in Nat /\ Len(toC) >= 1 /\ Tail(toC) \in Seq(Line)
          /\ \A j \in 1..Len(Tail(toC)) : Tail(toC)[j] = toC[j + 1]
          /\ DOMAIN toC = 1..Len(toC) /\ DOMAIN Tail(toC) = 1..Len(Tail(toC))
      BY WireTypes, HeadTailProperties, LenProperties
    <2>2. i + 1 \in DOMAIN toC /\ Tail(toC)[i] = toC[i + 1] /\ i + 1 # 1
      BY <2>1
    <2> QED
      BY <2>2 DEF Pipes
  <1>4. zombie' = <<>>
    BY <1>1 DEF Pipes
  <1> QED
    BY <1>1, <1>2, <1>3, <1>4 DEF Pipes

\* The rest of what is on the pipe, when the line taken is no frame.
LEMMA RecvTail ==
  ASSUME TypeOK, UpInv, toC # <<>>, ~IsFrame(Head(toC)), toC' = Tail(toC)
  PROVE  /\ Head(toC) \in Line /\ Head(toC) \in Lines(toC) /\ toC' \in Seq(Line)
         /\ Frames(toC') = Frames(toC) /\ Increasing(toC') /\ Lines(toC') \subseteq Lines(toC)
         /\ ResetsClear(toC')
         /\ \A i \in DOMAIN toC' : \E j \in DOMAIN toC : toC[j] = toC'[i]
  <1>1. toC \in Seq(Line) /\ Increasing(toC) /\ ResetsClear(toC)
    BY WireTypes DEF UpInv, UpWire
  <1>2. /\ Head(toC) \in Lines(toC) /\ Tail(toC) \in Seq(Line)
        /\ Lines(toC) = Lines(Tail(toC)) \cup {Head(toC)}
        /\ Frames(toC) = Frames(Tail(toC)) \cup (IF IsFrame(Head(toC)) THEN {Head(toC)} ELSE {})
        /\ Increasing(Tail(toC))
    BY <1>1, TailLines
  <1>3. Head(toC) \in Line
    BY <1>1, <1>2, LinesType
  <1>4. ResetsClear(Tail(toC))
    BY <1>1, ResetsLater
  <1>5. Lines(toC') \subseteq Lines(toC)
    BY <1>2
  <1> QED
    BY <1>2, <1>3, <1>4, <1>5 DEF Lines

\* Central keeps its counter: the way towards it is as before.
LEMMA RecvUp ==
  ASSUME TypeOK, UpInv, toC # <<>>, ~IsFrame(Head(toC)), toC' = Tail(toC),
         cIn' \in Nat, cIn' <= cIn, cIn' # cIn => \A g \in Frames(outbuf) : g.seq > cIn,
         UNCHANGED <<dOut, outbuf, sid, conn, gotUp, sentUp, client, pipe, zombie>>,
         \A k \in Conns : \/ stream'[k] = stream[k]
                          \/ stream[k] # "none" /\ stream'[k] \notin {"none", "mapped"},
         \A a \in Lines(toD') : ~IsFrame(a) => a \in Lines(toD)
  PROVE  UpInv' /\ Due' = Due
  <1>1. /\ Frames(toC') = Frames(toC) /\ Increasing(toC') /\ Lines(toC') \subseteq Lines(toC)
        /\ ResetsClear(toC')
    BY RecvTail
  <1>2. cIn \in Nat /\ \A g \in Frames(outbuf) : g.seq \in Nat
    BY WireTypes, FrameTypes
  <1>3. Frames(outbuf') = Frames(outbuf)
    BY DEF Frames, Lines, IsFrame
  <1>4. Due' = Due
    <2>1. CASE cIn' = cIn
      BY <1>3, <2>1 DEF Due
    <2>2. CASE cIn' # cIn
      <3>1. \A g \in Frames(outbuf) : g.seq > cIn /\ g.seq > cIn'
        BY <1>2, <2>2
      <3> QED
        BY <1>3, <3>1 DEF Due
    <2> QED
      BY <2>1, <2>2
  <1>5. ResetsClear(toC)'
    <2>1. \A i \in DOMAIN toC' : toC'[i].t = "reset" => \A g \in Frames(outbuf) :
             g.seq > cIn /\ \A j \in 1..(i - 1) : IsFrame(toC'[j]) => toC'[j].seq < g.seq
      BY <1>1 DEF ResetsClear
    <2>2. \A g \in Frames(outbuf) : g.seq > cIn => g.seq > cIn'
      BY <1>2
    <2> QED
      BY <1>3, <2>1, <2>2 DEF ResetsClear, IsFrame
  <1>6. /\ Increasing(outbuf') /\ \A i \in DOMAIN outbuf' : IsFrame(outbuf'[i])
    BY DEF UpInv, UpWire, Increasing, IsFrame
  <1>7. \A a \in Lines(toD') \cup Lines(zombie') : a.t = "ack" => a \in Lines(toD) \cup Lines(zombie)
    BY DEF Lines, IsFrame
  <1> HIDE DEF Due
  <1> QED
    BY <1>1, <1>3, <1>4, <1>5, <1>6, <1>7, UpStays

\* A ready: central replays what the daemon has not.
LEMMA OnReadyTransit ==
  ASSUME TypeOK, TypeOK', Transit, CentralRecv, OnReady(Head(toC))
  PROVE  Transit'
  <1> USE DEF Transit
  <1>1. /\ toC # <<>> /\ toC' = Tail(toC) /\ Head(toC).t = "ready" /\ gotUp' = gotUp
        /\ UNCHANGED <<sid, nextStream, client, dOut, outbuf, dIn, pipe, zombie, conn, sentUp, sentDn, queue,
                       gotDn, resets>>
        /\ pipe # "open" => toD' = toD
    BY DEF CentralRecv, OnReady, daemonVars, Write
  <1>2. /\ DnInv' /\ cIn' = cIn /\ stream' = stream /\ ready'
        /\ Frames(toD) = {}
        /\ pipe = "open" => client = "cur"
        /\ \A a \in Lines(toD') : ~IsFrame(a) => a \in Lines(toD)
        /\ \A i \in DOMAIN toD' : (i \in DOMAIN toD /\ toD'[i] = toD[i]) \/ IsFrame(toD'[i])
    <2> HIDE DEF Transit
    <2>1. Pipes /\ DnInv
      BY DEF Transit
    <2> QED
      BY <1>1, <2>1, ReadyDn
  <1>3. ~IsFrame(Head(toC))
    BY <1>1 DEF IsFrame
  <1>4. UpInv' /\ Due' = Due
    <2>1. cIn' \in Nat /\ cIn' <= cIn /\ cIn' = cIn
      BY <1>2, WireTypes
    <2>2. UpInv
      OBVIOUS
    <2> HIDE DEF Due, Transit
    <2> QED
      BY <1>1, <1>2, <1>3, <2>1, <2>2, RecvUp
  <1>5. Pipes'
    <2>1. client # "cur" => Frames(toD') = {}
      <3> SUFFICES ASSUME client # "cur" PROVE Frames(toD') = {}
        OBVIOUS
      <3>1. toD' = toD
        BY <1>1, <1>2
      <3> QED
        BY <1>2, <3>1 DEF Frames, Lines, IsFrame
    <2>2. \A i \in DOMAIN toD' : toD'[i].t = "hello" => \E j \in DOMAIN toD : toD[j].t = "hello"
      BY <1>2 DEF IsFrame
    <2> QED
      BY <1>1, <2>1, <2>2, RecvPipes
  <1>6. Ends'
    <2>1. \A j \in Conns : /\ stream[j] = "none" => queue[j] = <<>>
                           /\ stream[j] \in {"left", "stuck"} => conn[j] = "closed"
                           /\ queue[j] # <<>> => conn[j] = "open"
      BY DEF Ends
    <2> QED
      BY <1>1, <1>2, <2>1, EndsStay
  <1>7. Prefixes'
    BY <1>1 DEF Prefixes
  <1>8. ClosesDue'
    <2>1. \A i \in DOMAIN toC' : \E j \in DOMAIN toC : toC[j] = toC'[i]
      BY <1>1, <1>3, RecvTail
    <2> HIDE DEF Due
    <2> QED
      BY <1>1, <1>2, <1>4, <2>1, ClosesStay
  <1> QED
    BY <1>2, <1>4, <1>5, <1>6, <1>7, <1>8

\* An ack from the daemon takes a frame off the replay queue.
LEMMA OnAckTransit ==
  ASSUME TypeOK, TypeOK', Transit, CentralRecv, OnAck(Head(toC))
  PROVE  Transit'
  <1> USE DEF Transit
  <1> DEFINE f == Head(toC)
  <1>1. /\ toC # <<>> /\ toC' = Tail(toC) /\ f.t = "ack" /\ pending' = Acked(pending, f.seq)
        /\ UNCHANGED <<sid, nextStream, client, dOut, outbuf, dIn, pipe, zombie, conn, sentUp, sentDn, queue,
                       gotDn, resets, gotUp, ready, cOut, cIn, stream, toD>>
    BY DEF CentralRecv, OnAck, daemonVars
  <1>2. ~IsFrame(f)
    BY <1>1 DEF IsFrame
  <1>3. /\ f \in Line /\ f \in Lines(toC) /\ Lines(toC') \subseteq Lines(toC)
        /\ \A i \in DOMAIN toC' : \E j \in DOMAIN toC : toC[j] = toC'[i]
    BY <1>1, <1>2, RecvTail
  <1>4. f.seq \in Nat /\ f.seq <= dIn /\ dIn \in Nat
    BY <1>1, <1>3, LineFields, WireTypes DEF DnInv, DnAcks
  <1>5. /\ Increasing(pending') /\ \A i \in DOMAIN pending' : IsFrame(pending'[i])
        /\ Frames(pending') = {g \in Frames(pending) : g.seq # f.seq}
    <2>1. pending \in Seq(Line) /\ Increasing(pending) /\ \A i \in DOMAIN pending : IsFrame(pending[i])
      BY WireTypes DEF DnInv, DnWire
    <2> HIDE DEF f
    <2> QED
      BY <1>1, <1>4, <2>1, AckedFrames
  <1> HIDE DEF f
  <1>6. Owed' = Owed
    <2>1. \A g \in Frames(pending) : g.seq \in Nat
      BY FrameTypes
    <2>2. \A g \in Frames(pending) : g.seq > dIn => g.seq # f.seq
      BY <1>4, <2>1
    <2> QED
      BY <1>1, <1>5, <2>2 DEF Owed
  <1>7. UpInv' /\ Due' = Due
    <2>1. cIn' \in Nat /\ cIn' <= cIn /\ cIn' = cIn
      BY <1>1, WireTypes
    <2>2. UpInv /\ \A a \in Lines(toD') : a \in Lines(toD)
      BY <1>1 DEF Lines
    <2> HIDE DEF Due, Transit
    <2> QED
      BY <1>1, <1>2, <2>1, <2>2, RecvUp DEF f
  <1>8. DnInv'
    <2>1. OnWay' = OnWay /\ Increasing(toD') /\ Increasing(zombie')
      BY <1>1 DEF OnWay, Frames, Lines, IsFrame, DnInv, DnWire, Increasing
    <2>2. \A j \in Conns : stream[j] = "none" => sentDn[j] = 0
      BY DEF Ends
    <2>3. DnInv
      OBVIOUS
    <2> HIDE DEF OnWay, Owed, Transit
    <2> QED
      BY <1>1, <1>3, <1>5, <1>6, <2>1, <2>2, <2>3, DnStays
  <1>9. Pipes'
    <2>1. client # "cur" => Frames(toD') = {}
      BY <1>1 DEF Pipes, Frames, Lines, IsFrame
    <2> QED
      BY <1>1, <2>1, RecvPipes
  <1>10. Ends'
    <2>1. \A j \in Conns : /\ stream[j] = "none" => queue[j] = <<>>
                           /\ stream[j] \in {"left", "stuck"} => conn[j] = "closed"
                           /\ queue[j] # <<>> => conn[j] = "open"
      BY DEF Ends
    <2> QED
      BY <1>1, <2>1, EndsStay
  <1>11. Prefixes'
    BY <1>1 DEF Prefixes
  <1>12. ClosesDue'
    <2> HIDE DEF Due
    <2> QED
      BY <1>1, <1>3, <1>7, ClosesStay
  <1> QED
    BY <1>7, <1>8, <1>9, <1>10, <1>11, <1>12

\* A reset: nothing is owed to the daemon, and every stream ends.
LEMMA OnResetTransit ==
  ASSUME TypeOK, TypeOK', Transit, CentralRecv, OnReset(Head(toC))
  PROVE  Transit'
  <1> USE DEF Transit
  <1> DEFINE f == Head(toC)
  <1>1. /\ toC # <<>> /\ toC' = Tail(toC) /\ f.t = "reset" /\ pending' = <<>> /\ cIn' = 0
        /\ stream' = Dropped(stream)
        /\ UNCHANGED <<sid, nextStream, client, dOut, outbuf, dIn, pipe, zombie, conn, sentUp, sentDn, queue,
                       gotDn, resets, gotUp, ready, cOut, toD>>
    BY DEF CentralRecv, OnReset, daemonVars
  <1>2. ~IsFrame(f)
    BY <1>1 DEF IsFrame
  <1>3. Lines(toC') \subseteq Lines(toC)
    BY <1>1, <1>2, RecvTail
  <1>4. 1 \in DOMAIN toC /\ toC[1] = f
    <2>1. toC \in Seq(Line) /\ toC # <<>>
      BY <1>1, WireTypes
    <2>2. Len(toC) \in Nat /\ Len(toC) # 0 /\ DOMAIN toC = 1..Len(toC)
      BY <2>1, LenProperties, EmptySeq
    <2>3. 1 \in DOMAIN toC
      BY <2>2
    <2> QED
      BY <2>1, <2>3
  <1>5. /\ \A g \in Frames(outbuf) : g.seq > cIn
        /\ resets # 0
    BY <1>1, <1>4 DEF UpInv, UpWire, ResetsClear, ClosesDue
  <1>6. /\ \A k \in Conns : stream'[k] = IF stream[k] = "mapped" THEN "gone" ELSE stream[k]
    BY <1>1 DEF Dropped
  <1> HIDE DEF f
  <1>7. UpInv'
    <2>1. cIn' \in Nat /\ cIn' <= cIn
      BY <1>1, WireTypes
    <2>2. UpInv /\ \A a \in Lines(toD') : a \in Lines(toD)
      BY <1>1 DEF Lines
    <2>3. \A k \in Conns : \/ stream'[k] = stream[k]
                           \/ stream[k] # "none" /\ stream'[k] \notin {"none", "mapped"}
      BY <1>6
    <2> HIDE DEF Transit
    <2> QED
      BY <1>1, <1>2, <1>5, <2>1, <2>2, <2>3, RecvUp DEF f
  <1>8. DnInv'
    <2>1. OnWay' = OnWay /\ Increasing(toD') /\ Increasing(zombie')
      BY <1>1 DEF OnWay, Frames, Lines, IsFrame, DnInv, DnWire, Increasing
    <2>2. \A j \in Conns : stream[j] = "none" => sentDn[j] = 0
      BY DEF Ends
    <2>3. Frames(pending') = {} /\ Increasing(pending') /\ DOMAIN pending' = {}
      BY <1>1, NoLines, EmptySeq
    <2>4. Owed' = {}
      BY <2>3 DEF Owed
    <2>5. \A k \in Conns : stream'[k] # "mapped" /\ (stream[k] # "none" => stream'[k] # "none")
      BY <1>6
    <2>6. DnInv
      OBVIOUS
    <2> HIDE DEF OnWay, Owed, Transit
    <2> QED
      BY <1>1, <1>3, <2>1, <2>2, <2>3, <2>4, <2>5, <2>6, DnStays
  <1>9. Pipes'
    <2>1. client # "cur" => Frames(toD') = {}
      BY <1>1 DEF Pipes, Frames, Lines, IsFrame
    <2> QED
      BY <1>1, <2>1, RecvPipes
  <1>10. Ends'
    <2>1. \A j \in Conns : /\ stream[j] = "none" => queue[j] = <<>>
                           /\ stream[j] \in {"left", "stuck"} => conn[j] = "closed"
                           /\ queue[j] # <<>> => conn[j] = "open"
                           /\ conn[j] = "idle" => stream[j] = "none"
      BY DEF Ends
    <2>2. \A j \in Conns : /\ stream'[j] = "none" => stream[j] = "none" /\ queue'[j] = <<>>
                           /\ stream'[j] \in {"left", "stuck"} => conn'[j] = "closed"
                           /\ conn[j] = "idle" => stream'[j] = stream[j]
                           /\ queue'[j] # <<>> => conn'[j] = "open"
      BY <1>1, <1>6, <2>1
    <2> QED
      BY <1>1, <2>2, EndsStay
  <1>11. Prefixes'
    BY <1>1 DEF Prefixes
  <1>12. ClosesDue'
    BY <1>1, <1>5 DEF ClosesDue
  <1> QED
    BY <1>7, <1>8, <1>9, <1>10, <1>11, <1>12

\* One more chunk read by the route.
LEMMA TakePrefixes ==
  ASSUME TypeOK, TypeOK', Prefixes, UNCHANGED <<queue, gotDn, sentUp, sentDn>>,
         NEW f \in Line,
         \A k \in Conns : gotUp'[k] = gotUp[k]
                               \/ (k = f.conn /\ gotUp'[k] = Append(gotUp[k], <<k, f.n>>)
                                    /\ f.n = Len(gotUp[k]) + 1 /\ f.n <= sentUp[k])
  PROVE  Prefixes'
  <1> SUFFICES ASSUME NEW k \in Conns
               PROVE  /\ Len(gotUp'[k]) <= sentUp'[k]
                      /\ Len(gotDn'[k]) + Len(queue'[k]) <= sentDn'[k]
                      /\ \A i \in DOMAIN gotUp'[k] : gotUp'[k][i] = <<k, i>>
                      /\ \A i \in DOMAIN gotDn'[k] : gotDn'[k][i] = <<k, i>>
                      /\ \A i \in DOMAIN queue'[k] : queue'[k][i] = <<k, Len(gotDn'[k]) + i>>
    BY DEF Prefixes
  <1>1. /\ Len(gotUp[k]) <= sentUp[k] /\ Len(gotDn[k]) + Len(queue[k]) <= sentDn[k]
        /\ \A i \in DOMAIN gotUp[k] : gotUp[k][i] = <<k, i>>
        /\ \A i \in DOMAIN gotDn[k] : gotDn[k][i] = <<k, i>>
        /\ \A i \in DOMAIN queue[k] : queue[k][i] = <<k, Len(gotDn[k]) + i>>
    BY DEF Prefixes
  <1>2. Len(gotUp[k]) \in Nat /\ gotUp[k] \in Seq(Chunk)
    BY ReadTypes
  <1>3. CASE gotUp'[k] = gotUp[k]
    BY <1>1, <1>3
  <1>4. CASE /\ k = f.conn /\ gotUp'[k] = Append(gotUp[k], <<k, f.n>>)
             /\ f.n = Len(gotUp[k]) + 1 /\ f.n <= sentUp[k]
    <2> DEFINE q == gotUp[k]
               m == Len(gotUp[k])
               e == <<k, f.n>>
               a == Append(q, e)
    <2>1. m \in Nat /\ f.n = m + 1 /\ f.n \in Nat /\ f.n <= sentUp[k]
      BY <1>2, <1>4, LineFields
    <2>2. e \in Chunk
      <3>1. k \in Nat
        BY BoundsAssumption DEF Conns
      <3>2. f.n \in Nat
        BY <2>1
      <3> QED
        BY <3>1, <3>2 DEF Chunk
    <2>3. q \in Seq(Chunk) /\ m = Len(q) /\ \A i \in DOMAIN q : q[i] = <<k, i>>
      BY <1>1, <1>2
    <2>4. gotUp'[k] = a
      BY <1>4
    <2>5. e = <<k, m + 1>>
      BY <2>1
    <2> HIDE DEF q, m, e
    <2>6. /\ Len(a) = m + 1 /\ a[m + 1] = e /\ DOMAIN q = 1..m
          /\ a \in Seq(Chunk) /\ \A i \in 1..m : a[i] = q[i]
      BY <2>2, <2>3, AppendProperties, LenProperties
    <2>7. DOMAIN a = 1..(m + 1)
      BY <2>6, LenProperties
    <2> HIDE DEF a
    <2>8. \A i \in 1..(m + 1) : a[i] = <<k, i>>
      <3> SUFFICES ASSUME NEW i \in 1..(m + 1) PROVE a[i] = <<k, i>>
        OBVIOUS
      <3>1. CASE i = m + 1
        BY <2>5, <2>6, <3>1
      <3>2. CASE i # m + 1
        <4>1. i \in 1..m
          BY <2>1, <3>2
        <4> QED
          BY <2>3, <2>6, <4>1
      <3> QED
        BY <3>1, <3>2
    <2>9. Len(gotUp'[k]) <= sentUp'[k]
      BY <2>1, <2>4, <2>6
    <2>10. \A i \in DOMAIN gotUp'[k] : gotUp'[k][i] = <<k, i>>
      BY <2>4, <2>7, <2>8
    <2> QED
      BY <1>1, <2>9, <2>10
  <1> QED
    BY <1>3, <1>4

\* Central acts on the first frame on the pipe: it is the next.
LEMMA FrameTook ==
  ASSUME TypeOK, NEW f \in Line, f.seq > cIn, f.conn \in Conns,
         stream[f.conn] = "none" <=> f.t = "open",
         Mapped(f.id) = {k \in Conns : k = f.conn /\ stream[k] = "mapped"},
         OnOpen(f) \/ OnData(f) \/ OnClose(f)
  PROVE  /\ Took(f) /\ cIn' = f.seq /\ IsFrame(f) /\ Write(<<Control("ack", f.seq, 0)>>)
         /\ UNCHANGED <<ready, cOut, pending>>
         /\ \A k \in Conns : \/ stream'[k] = stream[k]
                             \/ k = f.conn /\ f.t = "open" /\ stream'[k] = "mapped"
                             \/ k = f.conn /\ f.t = "close" /\ stream[k] = "mapped" /\ stream'[k] \in {"left", "stuck"}
         /\ f.t = "close" => stream'[f.conn] # "mapped"
         /\ \A k \in Conns : \/ gotUp'[k] = gotUp[k]
                             \/ /\ k = f.conn /\ f.t = "data" /\ stream[k] = "mapped"
                                /\ gotUp'[k] = Append(gotUp[k], <<k, f.n>>)
  <1>1. stream \in [Conns -> StreamStates] /\ Unmapped \in {"left", "stuck"}
    BY WireTypes DEF Unmapped
  <1>2. AckFrame(f) => /\ cIn' = f.seq /\ Write(<<Control("ack", f.seq, 0)>>) /\ UNCHANGED <<ready, cOut, pending>>
    BY DEF AckFrame, Fresh
  <1>3. CASE OnOpen(f)
    <2>1. f.t = "open" /\ AckFrame(f) /\ gotUp' = gotUp /\ stream[f.conn] = "none"
      BY <1>3 DEF OnOpen
    <2>2. stream' = [k \in Conns |-> IF k = f.conn THEN "mapped"
                       ELSE IF k \in Mapped(f.id) THEN Unmapped ELSE stream[k]]
      BY <1>3 DEF OnOpen, Fresh
    <2>3. stream' = [stream EXCEPT ![f.conn] = "mapped"]
      BY <1>1, <2>2
    <2>4. \A k \in Conns : k # f.conn => stream'[k] = stream[k]
      BY <1>1, <2>3
    <2>5. stream'[f.conn] = "mapped"
      BY <1>1, <2>3
    <2> QED
      BY <1>2, <2>1, <2>3, <2>4, <2>5 DEF Took, IsFrame
  <1>4. CASE OnData(f)
    <2>1. f.t = "data" /\ AckFrame(f) /\ stream' = stream
      BY <1>4 DEF OnData
    <2>2. \A k \in Conns : gotUp'[k] = IF k = f.conn /\ stream[k] = "mapped"
                                       THEN Append(gotUp[k], <<f.conn, f.n>>) ELSE gotUp[k]
      BY <1>4 DEF OnData, Fresh
    <2> QED
      BY <1>2, <2>1, <2>2 DEF Took, IsFrame
  <1>5. CASE OnClose(f)
    <2>1. f.t = "close" /\ AckFrame(f) /\ gotUp' = gotUp
      BY <1>5 DEF OnClose
    <2>2. \A k \in Conns : stream'[k] = IF k = f.conn /\ stream[k] = "mapped" THEN Unmapped ELSE stream[k]
      BY <1>5 DEF OnClose, Fresh
    <2>3. Took(f)
      BY <1>1, <2>1, <2>2 DEF Took
    <2> QED
      BY <1>1, <1>2, <2>1, <2>2, <2>3 DEF IsFrame
  <1> QED
    BY <1>3, <1>4, <1>5

\* A frame from the daemon is the next for its route.
LEMMA OnFrameTransit ==
  ASSUME TypeOK, TypeOK', Transit, CentralRecv,
         OnOpen(Head(toC)) \/ OnData(Head(toC)) \/ OnClose(Head(toC))
  PROVE  Transit'
  <1> USE DEF Transit
  <1> DEFINE f == Head(toC)
             l == Control("ack", f.seq, 0)
  <1>1. /\ toC # <<>> /\ toC' = Tail(toC)
        /\ UNCHANGED <<sid, nextStream, client, dOut, outbuf, dIn, pipe, zombie, conn, sentUp, sentDn, queue,
                       gotDn, resets>>
    BY DEF CentralRecv, daemonVars
  <1>2. IsFrame(f) /\ (OnOpen(f) \/ OnData(f) \/ OnClose(f))
    BY DEF OnOpen, OnData, OnClose, IsFrame
  <1>3. /\ f \in Frames(toC) /\ f \in UpFrames /\ f \in Line /\ f.conn \in Conns
        /\ f.seq \in Nat /\ f.seq > cIn
        /\ Frames(toC) = Frames(Tail(toC)) \cup {f} /\ Tail(toC) \in Seq(Line)
        /\ stream[f.conn] = "none" <=> f.t = "open"
        /\ f.t = "data" /\ stream[f.conn] = "mapped" => f.n = Len(gotUp[f.conn]) + 1
        /\ Mapped(f.id) = {k \in Conns : k = f.conn /\ stream[k] = "mapped"}
    <2> HIDE DEF Transit
    <2>1. Ends /\ UpInv
      BY DEF Transit
    <2> QED
      BY <1>1, <1>2, <2>1, HeadUp
  <1>4. l \in Line /\ l.t = "ack" /\ l.seq = f.seq /\ ~IsFrame(l)
    BY <1>3, LineTypes DEF Control, Kinds, IsFrame
  <1>5. /\ conn[f.conn] # "idle"
        /\ f.t = "close" => conn[f.conn] = "closed"
        /\ f.t = "data" => f.n \in 1..sentUp[f.conn]
    BY <1>3 DEF UpInv, UpSound
  <1> HIDE DEF f, l
  <1>6. /\ Took(f) /\ cIn' = f.seq /\ Write(<<l>>)
        /\ UNCHANGED <<ready, cOut, pending>>
        /\ \A k \in Conns : \/ stream'[k] = stream[k]
                            \/ k = f.conn /\ f.t = "open" /\ stream'[k] = "mapped"
                            \/ k = f.conn /\ f.t = "close" /\ stream[k] = "mapped" /\ stream'[k] \in {"left", "stuck"}
        /\ f.t = "close" => stream'[f.conn] # "mapped"
        /\ \A k \in Conns : \/ gotUp'[k] = gotUp[k]
                            \/ /\ k = f.conn /\ f.t = "data" /\ stream[k] = "mapped"
                               /\ gotUp'[k] = Append(gotUp[k], <<k, f.n>>)
    BY <1>2, <1>3, FrameTook DEF l
  <1>7. /\ Frames(toD') = Frames(toD) /\ Lines(toD') \subseteq Lines(toD) \cup {l} /\ Increasing(toD')
        /\ \A i \in DOMAIN toD' : toD'[i].t = "hello" => \E j \in DOMAIN toD : toD[j].t = "hello"
    <2>1. toD \in Seq(Line) /\ Increasing(toD)
      BY WireTypes DEF DnInv, DnWire
    <2>2. CASE toD' = toD
      BY <2>1, <2>2 DEF Frames, Lines, Increasing, IsFrame
    <2>3. CASE toD' = toD \o <<l>>
      <3>1. /\ Lines(toD') = Lines(toD) \cup {l} /\ Frames(toD') = Frames(toD) /\ Increasing(toD')
        BY <1>4, <2>1, <2>3, AppendLines
      <3>2. \A i \in DOMAIN toD' : toD'[i] \in Lines(toD) \/ toD'[i] = l
        BY <3>1 DEF Lines
      <3>3. \A i \in DOMAIN toD' : toD'[i].t = "hello" => \E j \in DOMAIN toD : toD[j].t = "hello"
        BY <1>4, <3>2 DEF Lines
      <3> QED
        BY <3>1, <3>3
    <2> QED
      BY <1>6, <2>2, <2>3 DEF Write
  <1>8. Lines(toC') \subseteq Lines(toC) /\ \A i \in DOMAIN toC' : \E j \in DOMAIN toC : toC[j] = toC'[i]
    <2>1. Lines(Tail(toC)) \subseteq Lines(toC)
      BY <1>1, WireTypes, TailLines
    <2> QED
      BY <1>1, <2>1 DEF Lines
  <1>9. UpInv' /\ Due' = Due \ {f}
    <2>1. \A a \in Lines(toD') : a.t = "ack" => a \in Lines(toD) \/ a.seq = f.seq
      BY <1>4, <1>7
    <2>2. Ends /\ UpInv
      OBVIOUS
    <2> HIDE DEF Due, Transit
    <2> QED
      BY <1>1, <1>2, <1>6, <2>1, <2>2, TakeUp DEF f
  <1>10. DnInv'
    <2>1. OnWay' = OnWay /\ Increasing(zombie')
      BY <1>1, <1>7 DEF OnWay, Frames, Lines, IsFrame, DnInv, DnWire, Increasing
    <2>2. \A j \in Conns : stream[j] = "none" => sentDn[j] = 0
      BY DEF Ends
    <2>3. /\ Frames(pending') = Frames(pending) /\ Owed' = Owed /\ Increasing(pending')
          /\ \A i \in DOMAIN pending' : IsFrame(pending'[i])
      BY <1>1, <1>6 DEF Frames, Lines, Owed, DnInv, DnWire, Increasing, IsFrame
    <2>4. \A k \in Conns : stream[k] # "none" =>
            sid'[k] = sid[k] /\ stream'[k] # "none" /\ (stream[k] # "mapped" => stream'[k] # "mapped")
      BY <1>1, <1>3, <1>6
    <2>5. DnInv
      OBVIOUS
    <2> HIDE DEF OnWay, Owed, Transit
    <2> QED
      BY <1>1, <1>6, <1>7, <1>8, <2>1, <2>2, <2>3, <2>4, <2>5, DnStays
  <1>11. Pipes'
    <2>1. client # "cur" => Frames(toD') = {}
      BY <1>7 DEF Pipes
    <2> QED
      BY <1>1, <1>7, <2>1, RecvPipes
  <1>12. Ends'
    <2>1. \A j \in Conns : /\ stream[j] = "none" => queue[j] = <<>> /\ gotUp[j] = <<>>
                           /\ stream[j] \in {"left", "stuck"} => conn[j] = "closed"
                           /\ queue[j] # <<>> => conn[j] = "open"
                           /\ conn[j] = "idle" => stream[j] = "none"
      BY DEF Ends
    <2>2. \A j \in Conns : /\ stream'[j] = "none" => stream[j] = "none" /\ queue[j] = <<>> /\ gotUp'[j] = gotUp[j]
                           /\ stream'[j] \in {"left", "stuck"} => conn[j] = "closed"
                           /\ conn[j] = "idle" => stream'[j] = stream[j]
                           /\ queue[j] # <<>> => conn[j] = "open"
      BY <1>3, <1>5, <1>6, <2>1
    <2> QED
      BY <1>1, <2>2, EndsStay
  <1>13. Prefixes'
    <2>1. f.t = "data" => f.n <= sentUp[f.conn]
      BY <1>3, <1>5, ReadTypes
    <2>2. \A k \in Conns : gotUp'[k] = gotUp[k]
                               \/ (k = f.conn /\ gotUp'[k] = Append(gotUp[k], <<k, f.n>>)
                                    /\ f.n = Len(gotUp[k]) + 1 /\ f.n <= sentUp[k])
      BY <1>3, <1>6, <2>1
    <2>3. Prefixes
      OBVIOUS
    <2> HIDE DEF Transit
    <2> QED
      BY <1>1, <1>3, <2>2, <2>3, TakePrefixes
  <1>14. ClosesDue'
    <2> HIDE DEF Due
    <2> SUFFICES ASSUME resets = 0
                 PROVE  /\ \A i \in DOMAIN toC' : toC'[i].t # "reset"
                        /\ \A k \in Conns : conn[k] = "closed" /\ stream'[k] \in {"none", "mapped"} =>
                             \E g \in Due' : g.t = "close" /\ g.conn = k
      BY <1>1 DEF ClosesDue
    <2>1. /\ \A i \in DOMAIN toC : toC[i].t # "reset"
          /\ \A k \in Conns : conn[k] = "closed" /\ stream[k] \in {"none", "mapped"} =>
               \E g \in Due : g.t = "close" /\ g.conn = k
      BY DEF ClosesDue
    <2>2. ASSUME NEW k \in Conns, conn[k] = "closed", stream'[k] \in {"none", "mapped"}
          PROVE  \E g \in Due' : g.t = "close" /\ g.conn = k
      <3>1. stream[k] \in {"none", "mapped"}
        BY <1>3, <1>6, <2>2
      <3>2. PICK g \in Due : g.t = "close" /\ g.conn = k
        BY <2>1, <2>2, <3>1
      <3>3. g # f
        BY <1>3, <1>6, <2>2, <3>2
      <3> QED
        BY <1>9, <3>2, <3>3
    <2> QED
      BY <1>8, <2>1, <2>2
  <1> QED
    BY <1>9, <1>10, <1>11, <1>12, <1>13, <1>14

\* A line central reads.
LEMMA CentralRecvTransit == TypeOK /\ TypeOK' /\ Transit /\ CentralRecv => Transit'
  <1> SUFFICES ASSUME TypeOK, TypeOK', Transit, CentralRecv PROVE Transit'
    OBVIOUS
  <1>1. OnLine(Head(toC))
    BY DEF CentralRecv
  <1> QED
    BY <1>1, OnReadyTransit, OnAckTransit, OnResetTransit, OnFrameTransit DEF OnLine

\* A send away from an open, ready pipe puts no line on it.
LEMMA SendQuiet ==
  ASSUME TypeOK, NEW t, NEW k, NEW n, NEW streams, Send(t, k, n, streams), ~(ready /\ pipe = "open")
  PROVE  toD' = toD
  <1>1. toD \o <<>> = toD
    BY WireTypes, ConcatEmptySeq
  <1>2. \E lines : Write(lines) /\ (~ready => lines = <<>>)
    BY DEF Send
  <1> QED
    BY <1>1, <1>2 DEF Write

\* What a route sends or ends.
LEMMA SendTransit ==
  ASSUME TypeOK, TypeOK', Transit, NEW t \in {"data", "close"}, NEW k \in Conns, NEW n \in Nat,
         NEW streams \in [Conns -> StreamStates], Send(t, k, n, streams),
         stream[k] # "none",
         \A j \in Conns : \/ streams[j] = stream[j]
                          \/ j = k /\ t = "close" /\ stream[j] = "mapped" /\ streams[j] \in {"ended", "gone"},
         t = "data" => /\ streams = stream /\ n = sentDn[k] + 1 /\ sentDn' = [sentDn EXCEPT ![k] = n]
                       /\ stream[k] = "mapped" \/ conn[k] = "closed",
         t = "close" => n = 0 /\ sentDn' = sentDn /\ stream[k] = "mapped" /\ streams[k] # "mapped",
         UNCHANGED routeUnchanged
  PROVE  Transit'
  <1> USE DEF Transit
  <1>1. UNCHANGED <<sid, nextStream, client, dOut, outbuf, dIn, cIn, pipe, ready, toC, zombie, conn, sentUp,
                    gotUp, queue, gotDn, resets>>
    BY DEF routeUnchanged, daemonVars
  <1>2. /\ DnInv'
        /\ \A a \in Lines(toD') : ~IsFrame(a) => a \in Lines(toD)
        /\ \A i \in DOMAIN toD' : (i \in DOMAIN toD /\ toD'[i] = toD[i]) \/ IsFrame(toD'[i])
    <2>1. Ends /\ Prefixes /\ DnInv
      OBVIOUS
    <2> HIDE DEF Transit
    <2> QED
      BY <1>1, <2>1, SendDn
  <1>3. \A j \in Conns : \/ stream'[j] = stream[j]
                         \/ stream[j] = "mapped" /\ stream'[j] \in {"ended", "gone"}
    BY SendStreams
  <1>4. ~(ready /\ pipe = "open") => toD' = toD
    BY SendQuiet
  <1>5. \A j \in Conns : sentDn[j] <= sentDn'[j] /\ (j # k => sentDn'[j] = sentDn[j])
    <2>1. sentDn \in [Conns -> Nat] /\ sentDn' \in [Conns -> Nat]
      BY WireTypes DEF TypeOK, AgentTypeOK
    <2>2. CASE t = "data"
      <3>1. sentDn'[k] = sentDn[k] + 1 /\ \A j \in Conns : j # k => sentDn'[j] = sentDn[j]
        BY <2>1, <2>2
      <3>2. ASSUME NEW j \in Conns PROVE sentDn[j] <= sentDn'[j]
        <4>1. sentDn[j] \in Nat /\ (j = k => sentDn'[j] = sentDn[j] + 1) /\ (j # k => sentDn'[j] = sentDn[j])
          BY <2>1, <3>1
        <4> QED
          BY <4>1
      <3> QED
        BY <3>1, <3>2
    <2>3. CASE t = "close"
      <3>1. sentDn' = sentDn
        BY <2>3
      <3>2. \A j \in Conns : sentDn[j] \in Nat
        BY <2>1
      <3> QED
        BY <3>1, <3>2
    <2> QED
      BY <2>2, <2>3
  <1>6. UpInv' /\ Due' = Due
    <2>1. /\ Frames(outbuf') = Frames(outbuf) /\ Due' = Due /\ Frames(toC') = Frames(toC)
          /\ Lines(zombie') = Lines(zombie)
      BY <1>1 DEF Frames, Lines, Due, IsFrame
    <2>2. /\ Increasing(outbuf') /\ Increasing(toC')
          /\ \A i \in DOMAIN outbuf' : IsFrame(outbuf'[i])
      BY <1>1 DEF UpInv, UpWire, Increasing, IsFrame
    <2>3. ResetsClear(toC)'
      BY <1>1 DEF UpInv, UpWire, ResetsClear, Frames, Lines, IsFrame
    <2>4. cIn' \in Nat /\ cIn' <= cIn
      BY <1>1, WireTypes
    <2>5. \A j \in Conns : \/ stream'[j] = stream[j]
                           \/ stream[j] # "none" /\ stream'[j] \notin {"none", "mapped"}
      BY <1>3
    <2>6. \A a \in Lines(toD') \cup Lines(zombie') : a.t = "ack" => a \in Lines(toD) \cup Lines(zombie)
      BY <1>2, <2>1 DEF IsFrame
    <2>7. UpInv
      OBVIOUS
    <2> HIDE DEF Due, Transit
    <2> QED
      BY <1>1, <2>1, <2>2, <2>3, <2>4, <2>5, <2>6, <2>7, UpStays
  <1>7. Pipes'
    <2>1. client # "cur" => toD' = toD /\ Frames(toD) = {}
      BY <1>4 DEF Pipes
    <2>2. client' # "cur" => Frames(toD') = {}
      BY <1>1, <2>1 DEF Frames, Lines, IsFrame
    <2>3. ASSUME NEW i \in DOMAIN toD', toD'[i].t = "hello"
          PROVE  /\ i = 1 /\ client' # "cur" /\ toC' = <<>> /\ toD'[i].n = cIn' /\ toD'[i].seq >= dIn'
                 /\ \A f \in Frames(zombie') : f.seq <= toD'[i].seq
      <3>1. i \in DOMAIN toD /\ toD'[i] = toD[i]
        BY <1>2, <2>3 DEF IsFrame
      <3>2. Frames(zombie') = Frames(zombie)
        BY <1>1 DEF Frames, Lines, IsFrame
      <3> QED
        BY <1>1, <2>3, <3>1, <3>2 DEF Pipes
    <2>4. ASSUME NEW i \in DOMAIN toC', toC'[i].t = "ready"
          PROVE  i = 1 /\ ~ready' /\ toC'[i].seq >= cIn' /\ toC'[i].n = dIn' /\ Frames(toD') = {}
      <3>1. /\ i = 1 /\ ~ready /\ toC[i].seq >= cIn /\ toC[i].n = dIn /\ Frames(toD) = {}
        BY <1>1, <2>4 DEF Pipes
      <3>2. Frames(toD') = {}
        BY <1>4, <3>1 DEF Frames, Lines, IsFrame
      <3> QED
        BY <1>1, <3>1, <3>2
    <2>5. /\ pipe' \in {"none", "missing"} => ~ready' /\ toC' = <<>>
          /\ pipe' = "open" /\ client' # "cur" => ~ready' /\ toC' = <<>>
          /\ client' # "old" => zombie' = <<>>
          /\ client' = "old" => toC' = <<>>
      BY <1>1 DEF Pipes
    <2> QED
      BY <2>2, <2>3, <2>4, <2>5 DEF Pipes
  <1>8. Ends'
    <2>1. \A j \in Conns : /\ stream[j] = "none" => queue[j] = <<>>
                           /\ stream[j] \in {"left", "stuck"} => conn[j] = "closed"
                           /\ queue[j] # <<>> => conn[j] = "open"
                           /\ conn[j] = "idle" => stream[j] = "none"
      BY DEF Ends
    <2>2. \A j \in Conns : /\ stream'[j] = "none" => /\ stream[j] = "none" /\ queue[j] = <<>>
                                                     /\ sentDn'[j] = sentDn[j]
                           /\ stream'[j] \in {"left", "stuck"} => conn[j] = "closed"
                           /\ conn[j] = "idle" => stream'[j] = stream[j]
                           /\ queue[j] # <<>> => conn[j] = "open"
      BY <1>3, <1>5, <2>1
    <2> QED
      BY <1>1, <2>2, EndsStay
  <1>9. Prefixes'
    <2>1. \A j \in Conns : sentUp[j] <= sentUp'[j]
      BY <1>1, ReadTypes
    <2>2. Prefixes
      OBVIOUS
    <2> HIDE DEF Transit
    <2> QED
      BY <1>1, <1>5, <2>1, <2>2, PrefixesStay
  <1>10. ClosesDue'
    <2>1. \A j \in Conns : conn'[j] = "closed" /\ stream'[j] \in {"none", "mapped"} =>
            conn[j] = "closed" /\ stream[j] \in {"none", "mapped"}
      BY <1>1, <1>3
    <2>2. ClosesDue
      OBVIOUS
    <2> HIDE DEF Due, Transit
    <2> QED
      BY <1>1, <1>6, <2>1, <2>2, ClosesStay
  <1> QED
    BY <1>2, <1>6, <1>7, <1>8, <1>9, <1>10

\* A route's steps.
LEMMA RouteTransit ==
  ASSUME TypeOK, TypeOK', Transit, NEW k \in Conns, RouteSend(k) \/ RouteEnd(k) \/ RouteDestroy(k)
  PROVE  Transit'
  <1>1. stream \in [Conns -> StreamStates] /\ sentDn \in [Conns -> Nat]
    BY WireTypes
  <1>2. CASE RouteSend(k)
    <2>1. /\ stream[k] \in {"mapped", "left"} /\ sentDn' = [sentDn EXCEPT ![k] = sentDn[k] + 1]
          /\ Send("data", k, sentDn[k] + 1, stream) /\ UNCHANGED routeUnchanged
      BY <1>2 DEF RouteSend
    <2>2. stream[k] = "mapped" \/ conn[k] = "closed"
      BY <2>1 DEF Transit, Ends
    <2>3. sentDn[k] + 1 \in Nat
      BY <1>1
    <2> QED
      BY <1>1, <2>1, <2>2, <2>3, SendTransit
  <1>3. CASE RouteEnd(k) \/ RouteDestroy(k)
    <2>1. PICK s \in {"ended", "gone"} :
            /\ stream[k] = "mapped" /\ Send("close", k, 0, [stream EXCEPT ![k] = s])
            /\ UNCHANGED <<sentDn, routeUnchanged>>
      BY <1>3 DEF RouteEnd, RouteDestroy
    <2> DEFINE streams == [stream EXCEPT ![k] = s]
    <2>2. /\ streams \in [Conns -> StreamStates] /\ streams[k] = s
          /\ \A j \in Conns : j # k => streams[j] = stream[j]
      BY <1>1 DEF StreamStates
    <2>3. Send("close", k, 0, streams) /\ UNCHANGED routeUnchanged /\ sentDn' = sentDn
      BY <2>1
    <2> HIDE DEF streams
    <2>4. \A j \in Conns : \/ streams[j] = stream[j]
                           \/ j = k /\ stream[j] = "mapped" /\ streams[j] \in {"ended", "gone"}
      BY <2>1, <2>2
    <2>5. streams[k] # "mapped"
      BY <2>2
    <2> QED
      BY <2>1, <2>2, <2>3, <2>4, <2>5, SendTransit
  <1> QED
    BY <1>2, <1>3

\* Nothing is on its way before the first daemon starts.
LEMMA InitTransit == Init => Transit
  <1> SUFFICES ASSUME Init PROVE Transit
    OBVIOUS
  <1>1. /\ client = "none" /\ dOut = 0 /\ outbuf = <<>> /\ dIn = 0 /\ pipe = "none" /\ ready = FALSE
        /\ cOut = 0 /\ pending = <<>> /\ cIn = 0 /\ toD = <<>> /\ toC = <<>> /\ zombie = <<>>
    BY DEF Init
  <1>2. \A k \in Conns : /\ conn[k] = "idle" /\ queue[k] = <<>> /\ stream[k] = "none" /\ sentUp[k] = 0
                         /\ gotUp[k] = <<>> /\ gotDn[k] = <<>> /\ sentDn[k] = 0
    BY DEF Init
  <1>3. /\ Lines(outbuf) = {} /\ Lines(toC) = {} /\ Lines(toD) = {} /\ Lines(zombie) = {}
        /\ Frames(outbuf) = {} /\ Frames(toC) = {} /\ Frames(toD) = {} /\ Frames(zombie) = {}
        /\ Increasing(outbuf) /\ Increasing(toC) /\ Increasing(toD) /\ Increasing(zombie)
        /\ DOMAIN outbuf = {} /\ DOMAIN toC = {} /\ DOMAIN toD = {}
        /\ Frames(pending) = {} /\ Increasing(pending) /\ DOMAIN pending = {}
    BY <1>1, NoLines, EmptySeq
  <1>4. UpFrames = {} /\ DnFrames = {} /\ Due = {} /\ Owed = {} /\ OnWay = {}
    BY <1>3 DEF UpFrames, DnFrames, Due, Owed, OnWay
  <1> HIDE DEF UpFrames, DnFrames, Due, Owed, OnWay
  <1>5. UpInv
    <2>1. UpSound /\ UpNext(Due) /\ UpNext(Frames(toC))
      BY <1>3, <1>4 DEF UpSound, UpNext
    <2>2. UpWire
      BY <1>1, <1>3, <1>4 DEF UpWire, ResetsClear
    <2>3. UpAcks /\ UpHeld
      BY <1>2, <1>3 DEF UpAcks, UpHeld
    <2> QED
      BY <2>1, <2>2, <2>3 DEF UpInv
  <1>6. DnInv
    <2>1. DnSound /\ DnNext(Owed) /\ DnNext(OnWay) /\ DnAcks /\ DnKept
      BY <1>2, <1>3, <1>4 DEF DnSound, DnNext, DnAcks, DnKept
    <2>2. DnWire
      BY <1>1, <1>3, <1>4 DEF DnWire
    <2> QED
      BY <2>1, <2>2 DEF DnInv
  <1>7. Pipes /\ Ends /\ ClosesDue
    BY <1>1, <1>2, <1>3 DEF Pipes, Ends, ClosesDue
  <1>8. Prefixes
    <2>1. DOMAIN <<>> = {} /\ Len(<<>>) = 0 /\ 0 <= 0 /\ 0 + 0 <= 0
      BY EmptySeq
    <2> QED
      BY <1>2, <2>1 DEF Prefixes
  <1> QED
    BY <1>5, <1>6, <1>7, <1>8 DEF Transit

\* A step of the first daemon's life keeps what the two ends owe each other.
LEMMA StepTransit ==
  ASSUME TypeOK, TypeOK', NothingStarted, Transit, Next, OneDaemon'
  PROVE  Transit'
  <1>0. /\ StartDaemon => starts = 0
        /\ DaemonCrash => starts = 0 /\ daemon # "none"
    BY FirstDaemon
  <1>1. CASE AgentNext
    BY <1>1, ConnectTransit, AgentSendTransit, AgentCloseTransit, AgentReadTransit DEF AgentNext
  <1>2. CASE DaemonNext
    BY <1>2, DaemonHelloTransit, DaemonRecvTransit, DaemonGoneTransit, GraceTransit, FlagTransit DEF DaemonNext
  <1>3. CASE PipeNext
    BY <1>0, <1>3, AttachTransit, StartTransit, FlagTransit DEF PipeNext
  <1>4. CASE CentralRecv
    BY <1>4, CentralRecvTransit
  <1>5. CASE RouteNext
    BY <1>5, RouteTransit, FlagTransit DEF RouteNext
  <1>6. CASE Drain \/ Break \/ Close
    BY <1>6, FlagTransit, CutStepsTransit
  <1>7. CASE DaemonCrash
    BY <1>0, <1>7 DEF NothingStarted
  <1> QED
    BY <1>1, <1>2, <1>3, <1>4, <1>5, <1>6, <1>7 DEF Next, FaultNext

\* Nothing changes, and what is on its way is as it was.
LEMMA StutterTransit ==
  ASSUME TypeOK, TypeOK', Transit, UNCHANGED vars
  PROVE  Transit'
  <1>1. /\ UNCHANGED <<sid, nextStream, dOut, outbuf, dIn, cOut, pending, cIn, toD, toC, zombie,
                       agentVars, resets, stream, pipe, ready, client>>
    BY DEF vars, daemonVars, centralVars, wireVars
  <1>2. Pipes'
    BY <1>1, PipesStay DEF Transit
  <1> QED
    BY <1>1, <1>2, StillTransit

\* While the first daemon runs, what each end has sent and the other has not
\* taken is kept, and on its way in order on every pipe, live or dying, whatever
\* breaks, is replayed, overflows or is reset.
THEOREM TransitKept == Spec => [](OneDaemon => Transit)
  <1> DEFINE I == OneDaemon => Transit
  <1>1. Init => I
    BY InitTransit
  <1>2. /\ TypeOK /\ TypeOK' /\ (OneDaemon => UpCounters) /\ I /\ [Next]_vars
        => I'
    <2> SUFFICES ASSUME TypeOK, TypeOK', OneDaemon => UpCounters, I, [Next]_vars, OneDaemon'
                 PROVE  Transit'
      OBVIOUS
    <2>1. CASE Next
      <3>1. OneDaemon
        BY <2>1, FirstDaemon
      <3> QED
        BY <2>1, <3>1, StepTransit DEF UpCounters
    <2>2. CASE UNCHANGED vars
      <3>1. OneDaemon
        BY <2>2 DEF vars, daemonVars, OneDaemon
      <3> QED
        BY <2>2, <3>1, StutterTransit
    <2> QED
      BY <2>1, <2>2
  <1> QED
    BY <1>1, <1>2, TypeCorrect, CountersAgree, PTL DEF Spec

\* What a route and an agent read of a connection is its own, in order, without
\* a gap or a repeat, through any breaks, replays, overflows and resets of the
\* first daemon (the seq checks of #onLine and handleClientFrame).
THEOREM ReadInOrder == Spec => [](OneDaemon => InOrder)
  <1>1. Transit => InOrder
    BY DEF Transit, Prefixes, InOrder
  <1> QED
    BY <1>1, TransitKept, PTL

\* What an agent has not read of an open connection is in central's replay queue.
THEOREM KeptForAgent == Spec => [](OneDaemon => DnHeld)
  <1>1. TypeOK /\ Transit => DnHeld
    <2> SUFFICES ASSUME TypeOK, Transit, NEW k \in Conns, stream[k] = "mapped", conn[k] = "open",
                        NEW n \in (Len(gotDn[k]) + Len(queue[k]) + 1)..sentDn[k]
                 PROVE  Holds(pending, "data", k, n)
      BY DEF DnHeld
    <2>1. PICK g \in Owed : g.t = "data" /\ g.conn = k /\ g.n = n
      BY DEF Transit, DnInv, DnKept
    <2> QED
      BY <2>1 DEF Owed, Frames, Lines, Holds
  <1> QED
    BY <1>1, TypeCorrect, TransitKept, PTL

-----------------------------------------------------------------------------
(* The relay over its first daemon is a set of tunnels (Tunnel.tla).       *)

\* The route's end of each connection, as ExecRelay maps it to Tunnel's served.
Served == [k \in Conns |-> CASE stream[k] = "none" -> "no"
                             [] stream[k] = "mapped" -> "yes"
                             [] OTHER -> "over"]

TunnelStep == [Tunnels!Next]_(Tunnels!tunnelVars)

\* The ends of the streams as the routes see them.
LEMMA ServedEnds ==
  ASSUME TypeOK
  PROVE  \A k \in Conns :
           /\ stream[k] = "none" => Served[k] = "no"
           /\ stream[k] = "mapped" => Served[k] = "yes"
           /\ stream[k] \notin {"none", "mapped"} => Served[k] = "over"
  BY DEF Served

\* Nothing a tunnel shows has changed.
LEMMA TunnelStutter ==
  ASSUME UNCHANGED <<conn, Served, sentUp, gotUp, sentDn, gotDn>>
  PROVE  TunnelStep
  BY DEF TunnelStep, Tunnels!tunnelVars, Served

\* Connections of S end on the agent's side.
LEMMA TunnelReset ==
  ASSUME TypeOK, NEW S \in SUBSET Conns, \A k \in S : conn[k] = "open",
         conn' = [k \in Conns |-> IF k \in S THEN "closed" ELSE conn[k]],
         UNCHANGED <<stream, sentUp, gotUp, sentDn, gotDn>>
  PROVE  TunnelStep
  <1>1. CASE S = {}
    <2>1. conn' = conn
      BY <1>1 DEF TypeOK, AgentTypeOK
    <2> QED
      BY <2>1, TunnelStutter DEF Served
  <1>2. CASE S # {}
    <2>1. Tunnels!Reset(S)
      BY <1>2 DEF Tunnels!Reset
    <2> QED
      BY <2>1 DEF TunnelStep, Tunnels!Next
  <1> QED
    BY <1>1, <1>2

\* Every open connection ends on the agent's side.
LEMMA TunnelShut ==
  ASSUME TypeOK, conn' = Shut(conn), UNCHANGED <<stream, sentUp, gotUp, sentDn, gotDn>>
  PROVE  TunnelStep
  <1> DEFINE S == {k \in Conns : conn[k] = "open"}
  <1>1. conn' = [k \in Conns |-> IF k \in S THEN "closed" ELSE conn[k]]
    BY DEF Shut
  <1> HIDE DEF S
  <1>2. S \in SUBSET Conns /\ \A k \in S : conn[k] = "open"
    BY DEF S
  <1> QED
    BY <1>1, <1>2, TunnelReset

\* Streams that were served end, others stay as their routes see them.
LEMMA TunnelFinish ==
  ASSUME TypeOK, UNCHANGED <<conn, sentUp, gotUp, sentDn, gotDn>>,
         \A k \in Conns : \/ stream'[k] = stream[k]
                          \/ stream[k] # "none" /\ stream'[k] \notin {"none", "mapped"}
  PROVE  TunnelStep
  <1> DEFINE S == {k \in Conns : stream[k] = "mapped" /\ stream'[k] # "mapped"}
  <1>1. Served' = [k \in Conns |-> IF k \in S THEN "over" ELSE Served[k]]
    BY DEF Served
  <1>2. CASE S = {}
    <2>1. Served' = Served
      BY <1>1, <1>2 DEF Served
    <2> QED
      BY <2>1, TunnelStutter
  <1>3. CASE S # {}
    <2>1. S \in SUBSET Conns /\ \A k \in S : Served[k] = "yes"
      BY DEF Served
    <2> HIDE DEF S
    <2>2. PICK T \in SUBSET Conns : T # {} /\ (\A k \in T : Served[k] = "yes")
                   /\ Served' = [k \in Conns |-> IF k \in T THEN "over" ELSE Served[k]]
      BY <1>1, <1>3, <2>1
    <2>3. Tunnels!Finish(T)
      BY <2>2 DEF Tunnels!Finish, Served
    <2> QED
      BY <2>3 DEF TunnelStep, Tunnels!Next
  <1> QED
    BY <1>2, <1>3

\* Every stream in #streams ends.
LEMMA TunnelDrop ==
  ASSUME TypeOK, stream' \in {stream, Dropped(stream)}, UNCHANGED <<conn, sentUp, gotUp, sentDn, gotDn>>
  PROVE  TunnelStep
  <1>1. \A k \in Conns : \/ stream'[k] = stream[k]
                         \/ stream[k] # "none" /\ stream'[k] \notin {"none", "mapped"}
    BY DEF Dropped
  <1> QED
    BY <1>1, TunnelFinish

\* The agent's own steps.
LEMMA ConnectTunnel ==
  ASSUME TypeOK, NEW k \in Conns, AgentConnect(k)
  PROVE  TunnelStep
  <1>1. /\ conn[k] = "idle" /\ UNCHANGED <<stream, sentUp, gotUp, sentDn, gotDn>>
        /\ conn' = Shut(conn) \/ conn' = [conn EXCEPT ![k] = "open"]
    BY DEF AgentConnect, Emit, ResetTunnels, centralVars
  <1>2. CASE conn' = [conn EXCEPT ![k] = "open"]
    <2>1. Tunnels!Open(k)
      BY <1>1, <1>2 DEF Tunnels!Open
    <2> QED
      BY <2>1 DEF TunnelStep, Tunnels!Next
  <1> QED
    BY <1>1, <1>2, TunnelShut

\* A chunk more, and perhaps the tunnels are reset.
LEMMA AgentSendTunnel ==
  ASSUME TypeOK, NEW k \in Conns, AgentSend(k)
  PROVE  TunnelStep
  <1>1. /\ conn[k] = "open" /\ UNCHANGED <<stream, gotUp, sentDn, gotDn>>
        /\ sentUp' = [sentUp EXCEPT ![k] = @ + 1]
        /\ conn' = Shut(conn) \/ conn' = conn
    BY DEF AgentSend, Emit, ResetTunnels, centralVars
  <1>2. PICK S \in SUBSET {j \in Conns : conn[j] = "open"} :
           conn' = [j \in Conns |-> IF j \in S THEN "closed" ELSE conn[j]]
    <2>1. CASE conn' = conn
      <3>1. /\ {} \in SUBSET {j \in Conns : conn[j] = "open"}
            /\ conn' = [j \in Conns |-> IF j \in {} THEN "closed" ELSE conn[j]]
        BY <2>1 DEF TypeOK, AgentTypeOK
      <3> QED
        BY <3>1
    <2>2. CASE conn' = Shut(conn)
      <3> DEFINE S == {j \in Conns : conn[j] = "open"}
      <3>1. conn' = [j \in Conns |-> IF j \in S THEN "closed" ELSE conn[j]]
        BY <2>2 DEF Shut
      <3> QED
        BY <3>1
    <2> QED
      BY <1>1, <2>1, <2>2
  <1>3. Tunnels!SendUp(k)
    BY <1>1, <1>2 DEF Tunnels!SendUp
  <1> QED
    BY <1>3 DEF TunnelStep, Tunnels!Next

\* The agent closes, and perhaps the tunnels are reset.
LEMMA AgentCloseTunnel ==
  ASSUME TypeOK, NEW k \in Conns, AgentClose(k)
  PROVE  TunnelStep
  <1>1. /\ conn[k] = "open" /\ UNCHANGED <<stream, sentUp, gotUp, sentDn, gotDn>>
        /\ conn' = Shut(conn) \/ conn' = [conn EXCEPT ![k] = "closed"]
    BY DEF AgentClose, Emit, ResetTunnels, centralVars
  <1>2. CASE conn' = [conn EXCEPT ![k] = "closed"]
    <2>1. conn' = [j \in Conns |-> IF j \in {k} THEN "closed" ELSE conn[j]]
      BY <1>2 DEF TypeOK, AgentTypeOK
    <2> QED
      BY <1>1, <2>1, TunnelReset
  <1> QED
    BY <1>1, <1>2, TunnelShut

\* The agent reads the next chunk of its own connection.
LEMMA AgentReadTunnel ==
  ASSUME TypeOK, Transit, NEW k \in Conns, AgentRead(k)
  PROVE  TunnelStep
  <1>1. /\ queue[k] # <<>> /\ gotDn' = [gotDn EXCEPT ![k] = Append(@, Head(queue[k]))]
        /\ UNCHANGED <<conn, stream, sentUp, gotUp, sentDn>>
    BY DEF AgentRead, centralVars
  <1>2. /\ queue[k] \in Seq(Chunk) /\ gotDn[k] \in Seq(Chunk) /\ Len(gotDn[k]) \in Nat
        /\ Len(queue[k]) \in Nat /\ sentDn[k] \in Nat /\ gotDn \in [Conns -> Seq(Chunk)]
    BY LenProperties DEF TypeOK, AgentTypeOK
  <1>3. conn[k] = "open"
    BY <1>1 DEF Transit, Ends
  <1>4. Len(queue[k]) >= 1 /\ 1 \in DOMAIN queue[k] /\ Head(queue[k]) = queue[k][1]
    BY <1>1, <1>2, EmptySeq, LenProperties, HeadTailProperties
  <1>5. Head(queue[k]) = <<k, Len(gotDn[k]) + 1>> /\ Len(gotDn[k]) < sentDn[k]
    BY <1>2, <1>4 DEF Transit, Prefixes
  <1>6. Tunnels!ReadDn(k)
    BY <1>1, <1>3, <1>5 DEF Tunnels!ReadDn
  <1> QED
    BY <1>6 DEF TunnelStep, Tunnels!Next

\* A frame from central, or the end of a grace period, ends connections at most.
LEMMA DaemonTunnel ==
  ASSUME TypeOK, DaemonNext
  PROVE  TunnelStep
  <1>1. CASE DaemonHello \/ DaemonGone \/ DaemonBoot
    <2>1. UNCHANGED <<conn, stream, sentUp, gotUp, sentDn, gotDn>>
      BY <1>1 DEF DaemonHello, DaemonGone, DaemonBoot, centralVars, agentVars
    <2> QED
      BY <2>1, TunnelStutter DEF Served
  <1>2. CASE GraceExpire
    <2>1. conn' = Shut(conn) /\ UNCHANGED <<stream, sentUp, gotUp, sentDn, gotDn>>
      BY <1>2 DEF GraceExpire, ResetTunnels, centralVars
    <2> QED
      BY <2>1, TunnelShut
  <1>3. CASE DaemonRecv
    <2>1. /\ UNCHANGED <<stream, sentUp, gotUp, sentDn, gotDn>>
          /\ DaemonFrame(Head(toD)) \/ DaemonFrame(Head(zombie))
      BY <1>3 DEF DaemonRecv, centralVars
    <2>2. ASSUME NEW f, DaemonFrame(f) PROVE TunnelStep
      <3>1. CASE conn' = conn
        BY <2>1, <3>1, TunnelStutter DEF Served
      <3>2. CASE OnClientClose(f)
        <4> DEFINE S == {k \in Conns : f.seq > dIn /\ k \in Socket(f.id)}
        <4>1. conn' = [k \in Conns |-> IF k \in S THEN "closed" ELSE conn[k]]
          BY <3>2 DEF OnClientClose
        <4>2. S \in SUBSET Conns /\ \A k \in S : conn[k] = "open"
          BY DEF Socket
        <4> HIDE DEF S
        <4> QED
          BY <2>1, <4>1, <4>2, TunnelReset
      <3> QED
        BY <2>2, <3>1, <3>2 DEF DaemonFrame, OnClientAck, OnClientData
    <2> QED
      BY <2>1, <2>2
  <1> QED
    BY <1>1, <1>2, <1>3 DEF DaemonNext

\* A daemon that dies or is replaced ends every connection, a relay that is
\* closed every stream.
LEMMA PipeTunnel ==
  ASSUME TypeOK, PipeNext \/ Break \/ Drain \/ Close \/ DaemonCrash
  PROVE  TunnelStep
  <1>1. CASE StartDaemon \/ DaemonCrash
    <2>1. conn' = Shut(conn) /\ UNCHANGED <<stream, sentUp, gotUp, sentDn, gotDn>>
      BY <1>1 DEF StartDaemon, DaemonCrash, DaemonDies
    <2> QED
      BY <2>1, TunnelShut
  <1>2. CASE Close
    <2>1. stream' = Dropped(stream) /\ UNCHANGED <<conn, sentUp, gotUp, sentDn, gotDn>>
      BY <1>2 DEF Close, agentVars
    <2> QED
      BY <2>1, TunnelDrop
  <1>3. CASE Attach \/ AttachNoDaemon \/ StartFails \/ PipeDone \/ Break \/ Drain
    <2>1. UNCHANGED <<conn, stream, sentUp, gotUp, sentDn, gotDn>>
      BY <1>3 DEF Attach, AttachNoDaemon, StartFails, PipeDone, Break, Drain, agentVars
    <2> QED
      BY <2>1, TunnelStutter DEF Served
  <1> QED
    BY <1>1, <1>2, <1>3 DEF PipeNext

\* A frame central takes serves a connection, is its route's next chunk, or ends
\* it; anything else it reads ends streams at most.
LEMMA CentralRecvTunnel ==
  ASSUME TypeOK, Transit, CentralRecv
  PROVE  TunnelStep
  <1> DEFINE f == Head(toC)
  <1>1. /\ toC # <<>> /\ OnLine(f) /\ UNCHANGED <<conn, sentUp, sentDn, gotDn>>
    BY DEF CentralRecv
  <1>2. CASE OnReady(f) \/ OnAck(f) \/ OnReset(f)
    <2>1. stream' \in {stream, Dropped(stream)} /\ gotUp' = gotUp
      BY <1>2 DEF OnReady, OnAck, OnReset
    <2> QED
      BY <1>1, <2>1, TunnelDrop
  <1>3. CASE (OnOpen(f) \/ OnData(f) \/ OnClose(f))
    <2>1. IsFrame(f)
      BY <1>3 DEF OnOpen, OnData, OnClose, IsFrame
    <2>2. /\ f \in UpFrames /\ f \in Line /\ f.conn \in Conns /\ f.seq \in Nat /\ f.seq > cIn
          /\ stream[f.conn] = "none" <=> f.t = "open"
          /\ f.t = "data" /\ stream[f.conn] = "mapped" => f.n = Len(gotUp[f.conn]) + 1
          /\ Mapped(f.id) = {k \in Conns : k = f.conn /\ stream[k] = "mapped"}
      BY <1>1, <1>3, <2>1, HeadUp DEF Transit
    <2>3. /\ conn[f.conn] # "idle"
          /\ f.t = "data" => f.n \in 1..sentUp[f.conn]
      BY <2>2 DEF Transit, UpInv, UpSound
    <2>4. /\ stream \in [Conns -> StreamStates] /\ gotUp \in [Conns -> Seq(Chunk)]
          /\ sentUp \in [Conns -> Nat] /\ Len(gotUp[f.conn]) \in Nat
      BY <2>2, LenProperties DEF TypeOK, CentralTypeOK, AgentTypeOK
    <2> HIDE DEF f
    <2>5. CASE OnOpen(f)
      <3>1. f.t = "open" /\ gotUp' = gotUp /\ stream[f.conn] = "none"
        BY <2>2, <2>5 DEF OnOpen
      <3>2. stream' = [k \in Conns |-> IF k = f.conn THEN "mapped" ELSE stream[k]]
        <4>1. stream' = [k \in Conns |-> IF k = f.conn THEN "mapped"
                           ELSE IF k \in Mapped(f.id) THEN Unmapped ELSE stream[k]]
          BY <2>2, <2>5 DEF OnOpen, Fresh
        <4>2. Mapped(f.id) = {}
          BY <2>2, <3>1
        <4> QED
          BY <4>1, <4>2
      <3>3. Served' = [Served EXCEPT ![f.conn] = "yes"] /\ Served[f.conn] = "no"
        BY <2>2, <3>1, <3>2 DEF Served
      <3>4. PICK k \in Conns : k = f.conn
        BY <2>2
      <3>5. Tunnels!Serve(k)
        BY <1>1, <2>3, <3>1, <3>3, <3>4 DEF Tunnels!Serve, Served
      <3> QED
        BY <3>5 DEF TunnelStep, Tunnels!Next
    <2>6. CASE OnData(f)
      <3>1. f.t = "data" /\ stream' = stream
        BY <2>6 DEF OnData
      <3>2. CASE stream[f.conn] # "mapped"
        <4>1. gotUp' = gotUp
          BY <2>2, <2>4, <2>6, <3>2 DEF OnData
        <4> QED
          BY <1>1, <3>1, <4>1, TunnelStutter DEF Served
      <3>3. CASE stream[f.conn] = "mapped"
        <4>1. /\ gotUp' = [gotUp EXCEPT ![f.conn] = Append(@, <<f.conn, Len(@) + 1>>)]
              /\ Len(gotUp[f.conn]) < sentUp[f.conn]
          <5>1. \A k \in Conns : gotUp'[k] = IF k = f.conn THEN Append(gotUp[k], <<f.conn, f.n>>)
                                             ELSE gotUp[k]
            BY <2>2, <2>6, <3>3 DEF OnData, Fresh
          <5>2. gotUp' = [k \in Conns |-> gotUp'[k]]
            BY <2>6 DEF OnData
          <5>3. f.n = Len(gotUp[f.conn]) + 1 /\ f.n \in 1..sentUp[f.conn]
            BY <2>2, <2>3, <3>1, <3>3
          <5> QED
            BY <2>2, <2>4, <5>1, <5>2, <5>3
        <4>2. Served[f.conn] = "yes"
          BY <2>2, <3>3 DEF Served
        <4>3. PICK k \in Conns : k = f.conn
          BY <2>2
        <4>4. Tunnels!ReadUp(k)
          BY <1>1, <3>1, <4>1, <4>2, <4>3 DEF Tunnels!ReadUp, Served
        <4> QED
          BY <4>4 DEF TunnelStep, Tunnels!Next
      <3> QED
        BY <3>2, <3>3
    <2>7. CASE OnClose(f)
      <3>1. gotUp' = gotUp
        BY <2>7 DEF OnClose
      <3>2. \A k \in Conns : \/ stream'[k] = stream[k]
                             \/ stream[k] # "none" /\ stream'[k] \notin {"none", "mapped"}
        BY <2>7 DEF OnClose, Mapped, Unmapped
      <3> QED
        BY <1>1, <3>1, <3>2, TunnelFinish
    <2> QED
      BY <1>3, <2>5, <2>6, <2>7
  <1> QED
    BY <1>1, <1>2, <1>3 DEF OnLine

\* What a route sends goes to its connection; every stream may end of it.
LEMMA RouteTunnel ==
  ASSUME TypeOK, NEW k \in Conns,
         RouteSend(k) \/ RouteEnd(k) \/ RouteDestroy(k) \/ RouteFinish(k)
  PROVE  TunnelStep
  <1>1. stream \in [Conns -> StreamStates]
    BY DEF TypeOK, CentralTypeOK
  <1>2. ASSUME NEW t, NEW n, NEW streams, Send(t, k, n, streams)
        PROVE  stream' \in {streams, Dropped(streams)}
    BY <1>2 DEF Send
  <1>3. CASE RouteSend(k)
    <2>1. /\ stream[k] \in {"mapped", "left"} /\ sentDn' = [sentDn EXCEPT ![k] = @ + 1]
          /\ UNCHANGED <<conn, sentUp, gotUp, gotDn>>
          /\ stream' \in {stream, Dropped(stream)}
      BY <1>2, <1>3 DEF RouteSend, routeUnchanged
    <2>2. PICK S \in SUBSET {j \in Conns : Served[j] = "yes"} :
             Served' = [j \in Conns |-> IF j \in S THEN "over" ELSE Served[j]]
      <3>1. CASE stream' = stream
        <4> DEFINE T == {}
        <4>1. Served' = [j \in Conns |-> IF j \in T THEN "over" ELSE Served[j]]
          BY <3>1 DEF Served
        <4>2. T \in SUBSET {j \in Conns : Served[j] = "yes"}
          OBVIOUS
        <4> HIDE DEF T
        <4> QED
          BY <4>1, <4>2
      <3>2. CASE stream' = Dropped(stream)
        <4> DEFINE T == {j \in Conns : Served[j] = "yes"}
        <4>1. Served' = [j \in Conns |-> IF j \in T THEN "over" ELSE Served[j]]
          BY <3>2 DEF Served, Dropped
        <4> QED
          BY <4>1
      <3> QED
        BY <2>1, <3>1, <3>2
    <2>3. Served[k] # "no"
      BY <2>1 DEF Served
    <2>4. Tunnels!SendDn(k)
      BY <2>1, <2>2, <2>3 DEF Tunnels!SendDn, Served
    <2> QED
      BY <2>4 DEF TunnelStep, Tunnels!Next
  <1>4. CASE RouteEnd(k) \/ RouteDestroy(k) \/ RouteFinish(k)
    <2>1. UNCHANGED <<conn, sentUp, gotUp, sentDn, gotDn>> /\ stream[k] # "none"
      BY <1>4 DEF RouteEnd, RouteDestroy, RouteFinish, routeUnchanged, agentVars
    <2>2. \E s \in {"ended", "gone"} :
            stream' \in {[stream EXCEPT ![k] = s], Dropped([stream EXCEPT ![k] = s])}
      <3>1. CASE RouteEnd(k)
        BY <1>2, <3>1 DEF RouteEnd
      <3>2. CASE RouteDestroy(k)
        BY <1>2, <3>2 DEF RouteDestroy
      <3>3. CASE RouteFinish(k)
        BY <3>3 DEF RouteFinish
      <3> QED
        BY <1>4, <3>1, <3>2, <3>3
    <2>3. \A j \in Conns : \/ stream'[j] = stream[j]
                           \/ stream[j] # "none" /\ stream'[j] \notin {"none", "mapped"}
      BY <1>1, <2>1, <2>2 DEF Dropped
    <2> QED
      BY <2>1, <2>3, TunnelFinish
  <1> QED
    BY <1>3, <1>4

\* While the first daemon runs, what agent and routes see is a set of tunnels:
\* each step of the relay is one of theirs or shows nothing, so that breaks,
\* replays, acks and resets are invisible except as ends of connections.
THEOREM RelaysTunnels == Spec /\ []OneDaemon => ImplementsTunnels
  <1>1. Init => Tunnels!Init
    BY DEF Init, Tunnels!Init
  <1>2. TypeOK /\ Transit /\ [Next]_vars => [Tunnels!Next]_(Tunnels!tunnelVars)
    <2> SUFFICES ASSUME TypeOK, Transit, [Next]_vars PROVE TunnelStep
      BY DEF TunnelStep
    <2>1. CASE AgentNext
      BY <2>1, ConnectTunnel, AgentSendTunnel, AgentCloseTunnel, AgentReadTunnel DEF AgentNext
    <2>2. CASE DaemonNext
      BY <2>2, DaemonTunnel
    <2>3. CASE PipeNext \/ Break \/ Drain \/ Close \/ DaemonCrash
      BY <2>3, PipeTunnel
    <2>4. CASE CentralRecv
      BY <2>4, CentralRecvTunnel
    <2>5. CASE RouteNext
      BY <2>5, RouteTunnel DEF RouteNext
    <2>6. CASE UNCHANGED vars
      BY <2>6, TunnelStutter DEF vars, centralVars, agentVars, Served
    <2> QED
      BY <2>1, <2>2, <2>3, <2>4, <2>5, <2>6 DEF Next, FaultNext
  <1> QED
    BY <1>1, <1>2, TypeCorrect, TransitKept, PTL DEF Spec, ImplementsTunnels, Tunnels!Spec

-----------------------------------------------------------------------------
(* A close is kept until the other end has seen it.                        *)

\* Without a reset, central keeps the close of a connection its route ended
\* until the daemon has it.
CloseOwed ==
  resets = 0 /\ pipe # "closed" =>
    \A k \in Conns : stream[k] \in {"ended", "gone"} /\ conn[k] = "open" =>
      \E g \in Owed : g.t = "close" /\ g.conn = k

\* A step after which no more closes are owed, and those owed are.
LEMMA OwedStays ==
  ASSUME CloseOwed, TypeOK, resets' \in {resets, resets + 1}, pipe' = "closed" \/ pipe # "closed",
         resets' = resets =>
           /\ \A k \in Conns : conn'[k] = "open" /\ stream'[k] \in {"ended", "gone"} =>
                                 conn[k] = "open" /\ stream[k] \in {"ended", "gone"}
           /\ \A g \in Owed : g.t = "close" /\ conn'[g.conn] = "open" => g \in Owed'
  PROVE  CloseOwed'
  <1>1. resets \in Nat
    BY WireTypes
  <1>2. CASE resets' = resets
    BY <1>2 DEF CloseOwed
  <1>3. CASE resets' = resets + 1
    BY <1>1, <1>3 DEF CloseOwed
  <1> QED
    BY <1>2, <1>3

\* What the daemon sends, or resets, leaves what central keeps.
LEMMA EmitOwed ==
  ASSUME CloseOwed, TypeOK, NEW f, NEW c, NEW q, Emit(f, c, q), UNCHANGED <<pending, dIn, stream, pipe>>,
         \A k \in Conns : c[k] = "open" => conn[k] = "open" \/ stream[k] = "none"
  PROVE  CloseOwed'
  <1>1. Owed' = Owed
    BY DEF Owed, Frames, Lines, IsFrame
  <1>2. resets' = resets + 1 \/ (resets' = resets /\ conn' = c)
    BY EmitCases DEF ResetTunnels
  <1>3. resets \in Nat
    BY WireTypes
  <1>4. pipe' = "closed" \/ pipe # "closed"
    OBVIOUS
  <1>5. resets' = resets =>
          /\ \A k \in Conns : conn'[k] = "open" /\ stream'[k] \in {"ended", "gone"} =>
                                conn[k] = "open" /\ stream[k] \in {"ended", "gone"}
          /\ \A g \in Owed : g.t = "close" /\ conn'[g.conn] = "open" => g \in Owed'
    BY <1>1, <1>2, <1>3
  <1> QED
    BY <1>2, <1>4, <1>5, OwedStays

\* The agent's steps.
LEMMA AgentOwed ==
  ASSUME CloseOwed, TypeOK, Transit, AgentNext
  PROVE  CloseOwed'
  <1>1. conn \in [Conns -> {"idle", "open", "closed"}]
    BY WireTypes
  <1>2. CASE \E k \in Conns : AgentConnect(k)
    <2>1. PICK k \in Conns : AgentConnect(k)
      BY <1>2
    <2>2. stream[k] = "none"
      BY <2>1 DEF AgentConnect, Transit, Ends
    <2> DEFINE c == [conn EXCEPT ![k] = "open"]
               f == [t |-> "open", id |-> nextStream, conn |-> k, n |-> 0, seq |-> dOut + 1]
    <2>3. Emit(f, c, queue) /\ UNCHANGED <<pending, dIn, stream, pipe>>
      BY <2>1 DEF AgentConnect, centralVars
    <2>4. \A j \in Conns : c[j] = "open" => conn[j] = "open" \/ stream[j] = "none"
      BY <1>1, <2>2
    <2> HIDE DEF c, f
    <2> QED
      BY <2>3, <2>4, EmitOwed
  <1>3. CASE \E k \in Conns : AgentSend(k)
    <2>1. PICK k \in Conns : AgentSend(k)
      BY <1>3
    <2> DEFINE f == Frame("data", k, sentUp[k] + 1, dOut + 1)
    <2>2. Emit(f, conn, queue) /\ UNCHANGED <<pending, dIn, stream, pipe>>
      BY <2>1 DEF AgentSend, centralVars
    <2> HIDE DEF f
    <2> QED
      BY <2>2, EmitOwed
  <1>4. CASE \E k \in Conns : AgentClose(k)
    <2>1. PICK k \in Conns : AgentClose(k)
      BY <1>4
    <2> DEFINE c == [conn EXCEPT ![k] = "closed"]
               q == [queue EXCEPT ![k] = <<>>]
               f == Frame("close", k, 0, dOut + 1)
    <2>2. Emit(f, c, q) /\ UNCHANGED <<pending, dIn, stream, pipe>>
      BY <2>1 DEF AgentClose, centralVars
    <2>3. \A j \in Conns : c[j] = "open" => conn[j] = "open" \/ stream[j] = "none"
      BY <1>1
    <2> HIDE DEF c, f, q
    <2> QED
      BY <2>2, <2>3, EmitOwed
  <1>5. CASE \E k \in Conns : AgentRead(k)
    <2>1. UNCHANGED <<pending, dIn, stream, pipe, conn, resets>>
      BY <1>5 DEF AgentRead, daemonVars, centralVars
    <2> QED
      BY <2>1 DEF CloseOwed, Owed, Frames, Lines, IsFrame
  <1> QED
    BY <1>2, <1>3, <1>4, <1>5 DEF AgentNext

\* The daemon takes a close only to end the connection it is for.
LEMMA DaemonRecvOwed ==
  ASSUME CloseOwed, TypeOK, TypeOK', Transit, DaemonRecv
  PROVE  CloseOwed'
  <1>1. UNCHANGED <<pending, stream, pipe, resets>>
    BY DEF DaemonRecv, centralVars
  <1>2. PICK q \in {toD, zombie} :
           /\ q \in Seq(Line) /\ q # <<>> /\ Frames(q) = OnWay /\ Increasing(q) /\ DaemonFrame(Head(q))
    BY RecvQueue DEF Transit
  <1> DEFINE f == Head(q)
  <1>3. CASE OnClientAck(f)
    <2>1. conn' = conn /\ dIn' = dIn
      BY <1>3 DEF OnClientAck
    <2> QED
      BY <1>1, <2>1 DEF CloseOwed, Owed, Frames, Lines, IsFrame
  <1>4. CASE OnClientData(f) \/ OnClientClose(f)
    <2>1. /\ f \in Line /\ f.conn \in Conns /\ f.seq \in Nat /\ f.seq > dIn
          /\ \A g \in Owed : g = f \/ f.seq < g.seq
          /\ Socket(f.id) = {k \in Conns : k = f.conn /\ conn[k] = "open"}
      <3>1. IsFrame(f)
        BY <1>4 DEF OnClientData, OnClientClose, IsFrame
      <3> QED
        BY <1>2, <3>1, HeadDn DEF Transit
    <2> HIDE DEF f
    <2>2. /\ dIn' = f.seq
          /\ \A k \in Conns : conn'[k] = conn[k] \/ conn'[k] = "closed"
          /\ f.t = "close" => conn'[f.conn] # "open"
      <3>1. /\ dIn' = f.seq
            /\ \A k \in Conns : conn'[k] = conn[k] \/ conn'[k] = "closed"
        BY <1>4, <2>1, TakeFrameGave DEF Transit
      <3>2. f.t = "close" => conn'[f.conn] # "open"
        BY <1>4, <2>1 DEF OnClientData, OnClientClose
      <3> QED
        BY <3>1, <3>2
    <2>3. \A g \in Owed : g # f => g \in Owed'
      BY <1>1, <2>1, <2>2 DEF Owed, Frames, Lines, IsFrame
    <2>4. \A k \in Conns : conn'[k] = "open" /\ stream'[k] \in {"ended", "gone"} =>
                             conn[k] = "open" /\ stream[k] \in {"ended", "gone"}
      BY <1>1, <2>2
    <2>5. \A g \in Owed : g.t = "close" /\ conn'[g.conn] = "open" => g \in Owed'
      BY <2>2, <2>3
    <2> HIDE DEF Owed
    <2> QED
      BY <1>1, <2>4, <2>5, OwedStays
  <1> QED
    BY <1>2, <1>3, <1>4 DEF DaemonFrame

\* The daemon's steps: a hello does not set its counter back.
LEMMA DaemonOwed ==
  ASSUME CloseOwed, TypeOK, TypeOK', Transit, DaemonNext
  PROVE  CloseOwed'
  <1>1. CASE DaemonHello
    <2> DEFINE h == Head(toD)
    <2>1. /\ toD # <<>> /\ h.t = "hello" /\ dIn' = IF h.seq < dIn THEN h.seq ELSE dIn
          /\ UNCHANGED <<conn, pipe, pending, stream, resets>>
      BY <1>1 DEF DaemonHello, centralVars, agentVars
    <2>2. h = toD[1] /\ 1 \in DOMAIN toD /\ h \in Line
      BY <2>1, WireTypes, Elements
    <2>3. h.seq >= dIn /\ h.seq \in Nat /\ dIn \in Nat
      BY <2>1, <2>2, LineFields, WireTypes DEF Transit, Pipes
    <2>4. dIn' = dIn
      BY <2>1, <2>3
    <2> QED
      BY <2>1, <2>4 DEF CloseOwed, Owed, Frames, Lines, IsFrame
  <1>2. CASE DaemonRecv
    BY <1>2, DaemonRecvOwed
  <1>3. CASE DaemonGone \/ DaemonBoot
    <2>1. UNCHANGED <<pending, dIn, stream, pipe, conn, resets>>
      BY <1>3 DEF DaemonGone, DaemonBoot, centralVars, agentVars
    <2> QED
      BY <2>1 DEF CloseOwed, Owed, Frames, Lines, IsFrame
  <1>4. CASE GraceExpire
    <2>1. resets' = resets + 1 /\ resets \in Nat
      BY <1>4, WireTypes DEF GraceExpire, ResetTunnels
    <2> QED
      BY <2>1 DEF CloseOwed
  <1> QED
    BY <1>1, <1>2, <1>3, <1>4 DEF DaemonNext

\* The first daemon finds no connection; a pipe that comes or goes keeps them.
LEMMA PipeOwed ==
  ASSUME CloseOwed, TypeOK, NothingStarted, StartDaemon => starts = 0,
         PipeNext \/ Break \/ Drain \/ Close
  PROVE  CloseOwed'
  <1>1. CASE StartDaemon
    <2>1. /\ \A k \in Conns : conn[k] = "idle"
          /\ conn' = Shut(conn)
      BY <1>1 DEF NothingStarted, StartDaemon, DaemonDies
    <2>2. \A k \in Conns : conn'[k] # "open"
      BY <2>1 DEF Shut
    <2> QED
      BY <2>2 DEF CloseOwed
  <1>2. CASE Close
    BY <1>2 DEF Close, CloseOwed
  <1>3. CASE Attach \/ AttachNoDaemon \/ StartFails \/ PipeDone \/ Break \/ Drain
    <2>1. UNCHANGED <<pending, dIn, stream, conn, resets>> /\ pipe # "closed"
      BY <1>3 DEF Attach, AttachNoDaemon, StartFails, PipeDone, Break, Drain, daemonVars, agentVars
    <2> QED
      BY <2>1 DEF CloseOwed, Owed, Frames, Lines, IsFrame
  <1> QED
    BY <1>1, <1>2, <1>3 DEF PipeNext

\* An ack is of what the daemon has; a frame ends no connection by itself.
LEMMA CentralRecvOwed ==
  ASSUME CloseOwed, TypeOK, TypeOK', Transit, CentralRecv
  PROVE  CloseOwed'
  <1> DEFINE f == Head(toC)
  <1>1. /\ toC # <<>> /\ toC' = Tail(toC) /\ OnLine(f)
        /\ UNCHANGED <<dIn, sid, sentDn, conn, gotDn, queue, zombie, pipe, resets>>
    BY DEF CentralRecv, daemonVars
  <1>2. f = toC[1] /\ 1 \in DOMAIN toC /\ f \in Line /\ f \in Lines(toC)
    BY <1>1, WireTypes, Elements DEF Lines
  <1>3. pending \in Seq(Line) /\ dIn \in Nat /\ Increasing(pending) /\ \A i \in DOMAIN pending : IsFrame(pending[i])
    BY WireTypes DEF Transit, DnInv, DnWire
  <1>4. CASE OnReady(f)
    <2>1. cIn' = cIn /\ stream' = stream
      BY <1>1, <1>4, ReadyDn DEF Transit
    <2>2. f.seq >= cIn /\ f.n = dIn /\ f.t = "ready"
      BY <1>2, <1>4 DEF OnReady, Transit, Pipes
    <2>3. cIn \in Nat /\ f.seq \in Nat
      BY <1>2, WireTypes, LineFields
    <2>4. pending' = After(pending, dIn)
      BY <1>4, <2>2, <2>3 DEF OnReady
    <2>5. Frames(pending') = {g \in Frames(pending) : g.seq > dIn}
      BY <1>3, <2>4, AfterFrames
    <2>6. Owed' = Owed
      BY <1>1, <2>5 DEF Owed
    <2> QED
      BY <1>1, <2>1, <2>6 DEF CloseOwed
  <1>5. CASE OnAck(f)
    <2>1. stream' = stream /\ pending' = Acked(pending, f.seq) /\ f.t = "ack"
      BY <1>5 DEF OnAck
    <2>2. f.seq \in Nat /\ f.seq <= dIn
      BY <1>2, <2>1, LineFields DEF Transit, DnInv, DnAcks
    <2>3. Frames(pending') = {g \in Frames(pending) : g.seq # f.seq}
      BY <1>3, <2>1, <2>2, AckedFrames
    <2>4. \A g \in Frames(pending) : g.seq \in Nat
      BY FrameTypes
    <2>5. Owed' = Owed
      BY <1>1, <1>3, <2>2, <2>3, <2>4 DEF Owed
    <2> QED
      BY <1>1, <2>1, <2>5 DEF CloseOwed
  <1>6. CASE OnReset(f)
    <2>1. resets # 0
      BY <1>2, <1>6 DEF OnReset, Transit, ClosesDue
    <2> QED
      BY <1>1, <2>1 DEF CloseOwed
  <1>7. CASE (OnOpen(f) \/ OnData(f) \/ OnClose(f))
    <2>1. pending' = pending
      BY <1>7 DEF OnOpen, OnData, OnClose, AckFrame
    <2>2. Owed' = Owed
      BY <1>1, <2>1 DEF Owed, Frames, Lines, IsFrame
    <2>3. \A k \in Conns : stream'[k] \in {"ended", "gone"} => stream'[k] = stream[k]
      BY <1>7 DEF OnOpen, OnData, OnClose, Unmapped
    <2> QED
      BY <1>1, <2>2, <2>3 DEF CloseOwed
  <1> QED
    BY <1>1, <1>4, <1>5, <1>6, <1>7 DEF OnLine

\* A route that ends leaves a close in the queue, as long as there is room.
LEMMA RouteOwed ==
  ASSUME CloseOwed, TypeOK, TypeOK', Transit, Len(pending) < MaxBuffer, NEW k \in Conns,
         RouteSend(k) \/ RouteEnd(k) \/ RouteDestroy(k) \/ RouteFinish(k)
  PROVE  CloseOwed'
  <1>1. stream \in [Conns -> StreamStates] /\ sentDn \in [Conns -> Nat]
    BY WireTypes
  <1>2. CASE RouteSend(k)
    <2>1. /\ stream[k] \in {"mapped", "left"} /\ sentDn' = [sentDn EXCEPT ![k] = sentDn[k] + 1]
          /\ Send("data", k, sentDn[k] + 1, stream)
          /\ UNCHANGED <<dIn, sid, conn, gotDn, queue, zombie, pipe, ready, toC, resets>>
      BY <1>2 DEF RouteSend, routeUnchanged, daemonVars
    <2>2. (stream[k] = "mapped" \/ conn[k] = "closed") /\ stream[k] # "none"
      BY <2>1 DEF Transit, Ends
    <2>3. sentDn[k] + 1 \in Nat
      BY <1>1
    <2>4. stream' = stream /\ Owed \subseteq Owed'
      BY <1>1, <2>1, <2>2, <2>3, SendDn DEF Transit
    <2> QED
      BY <2>1, <2>4 DEF CloseOwed
  <1>3. CASE RouteEnd(k) \/ RouteDestroy(k)
    <2>1. PICK s \in {"ended", "gone"} :
            /\ stream[k] = "mapped" /\ Send("close", k, 0, [stream EXCEPT ![k] = s])
            /\ UNCHANGED <<sentDn, dIn, sid, conn, gotDn, queue, zombie, pipe, ready, toC, resets>>
      BY <1>3 DEF RouteEnd, RouteDestroy, routeUnchanged, daemonVars
    <2> DEFINE streams == [stream EXCEPT ![k] = s]
    <2>2. /\ streams \in [Conns -> StreamStates] /\ streams[k] = s
          /\ \A j \in Conns : j # k => streams[j] = stream[j]
      BY <1>1 DEF StreamStates
    <2>3. Send("close", k, 0, streams)
      BY <2>1
    <2> HIDE DEF streams
    <2>4. /\ \A j \in Conns : \/ streams[j] = stream[j]
                              \/ j = k /\ stream[j] = "mapped" /\ streams[j] \in {"ended", "gone"}
          /\ streams[k] # "mapped" /\ stream[k] # "none"
      BY <2>1, <2>2
    <2>5. stream' = streams /\ Owed' = Owed \cup {Frame("close", k, 0, cOut + 1)}
      BY <2>1, <2>2, <2>3, <2>4, SendDn DEF Transit
    <2>6. Frame("close", k, 0, cOut + 1).t = "close" /\ Frame("close", k, 0, cOut + 1).conn = k
      BY DEF Frame
    <2> QED
      BY <2>1, <2>2, <2>5, <2>6 DEF CloseOwed
  <1>4. CASE RouteFinish(k)
    <2>1. /\ stream[k] \in {"left", "stuck"} /\ stream' = [stream EXCEPT ![k] = "gone"]
          /\ UNCHANGED <<pending, dIn, conn, resets, pipe>>
      BY <1>4 DEF RouteFinish, daemonVars, agentVars
    <2>2. conn[k] = "closed"
      BY <2>1 DEF Transit, Ends
    <2>3. Owed' = Owed
      BY <2>1 DEF Owed, Frames, Lines, IsFrame
    <2> QED
      BY <1>1, <2>1, <2>2, <2>3 DEF CloseOwed
  <1> QED
    BY <1>2, <1>3, <1>4

\* While the first daemon runs and central's replay queue has room, no end
\* stays open alone: the frame that will close it is kept until it is taken.
\* (Past its cap central drops its queue, and the closes in it: #overflow.)
THEOREM ClosesKept ==
  Spec /\ []OneDaemon /\ [](Len(pending) < MaxBuffer) => []ClosesOnItsWay
  <1> DEFINE Room == Len(pending) < MaxBuffer
  <1>1. Init => CloseOwed
    BY DEF Init, CloseOwed
  <1>2. /\ TypeOK /\ TypeOK' /\ UpCounters /\ Transit /\ OneDaemon' /\ Room /\ CloseOwed /\ [Next]_vars
        => CloseOwed'
    <2> SUFFICES ASSUME TypeOK, TypeOK', UpCounters, Transit, OneDaemon', Room, CloseOwed, [Next]_vars
                 PROVE  CloseOwed'
      OBVIOUS
    <2>1. CASE Next
      <3>1. /\ NothingStarted
            /\ StartDaemon => starts = 0
            /\ DaemonCrash => starts = 0 /\ daemon # "none"
        BY <2>1, FirstDaemon DEF UpCounters
      <3>2. ~DaemonCrash
        BY <3>1 DEF NothingStarted
      <3> QED
        BY <2>1, <3>1, <3>2, AgentOwed, DaemonOwed, PipeOwed, CentralRecvOwed, RouteOwed
           DEF Next, FaultNext, RouteNext
    <2>2. CASE UNCHANGED vars
      BY <2>2 DEF vars, daemonVars, centralVars, wireVars, agentVars, CloseOwed, Owed, Frames, Lines, IsFrame
    <2> QED
      BY <2>1, <2>2
  <1>3. TypeOK /\ Transit /\ CloseOwed => ClosesOnItsWay
    <2> SUFFICES ASSUME TypeOK, Transit, CloseOwed, resets = 0, NEW k \in Conns
                 PROVE  /\ stream[k] = "mapped" /\ conn[k] = "closed" => Holds(outbuf, "close", k, 0)
                        /\ stream[k] \in {"ended", "gone"} /\ conn[k] = "open" /\ pipe # "closed" =>
                               Holds(pending, "close", k, 0)
      BY DEF ClosesOnItsWay
    <2>1. ASSUME stream[k] = "mapped", conn[k] = "closed" PROVE Holds(outbuf, "close", k, 0)
      <3>1. PICK g \in Due : g.t = "close" /\ g.conn = k
        BY <2>1 DEF Transit, ClosesDue
      <3>2. g \in Frames(outbuf) /\ g.n = 0
        BY <3>1 DEF Due, Transit, UpInv, UpSound, UpFrames
      <3> QED
        BY <3>1, <3>2 DEF Frames, Lines, Holds
    <2>2. ASSUME stream[k] \in {"ended", "gone"}, conn[k] = "open", pipe # "closed"
          PROVE  Holds(pending, "close", k, 0)
      <3>1. PICK g \in Owed : g.t = "close" /\ g.conn = k
        BY <2>2 DEF CloseOwed
      <3>2. g \in Frames(pending) /\ g.n = 0
        BY <3>1 DEF Owed, Transit, DnInv, DnSound, DnFrames
      <3> QED
        BY <3>1, <3>2 DEF Frames, Lines, Holds
    <2> QED
      BY <2>1, <2>2
  <1> QED
    BY <1>1, <1>2, <1>3, TypeCorrect, CountersAgree, TransitKept, PTL DEF Spec

-----------------------------------------------------------------------------
(* The registry of relays (RelayRegistry), for any names and bounds: its   *)
(* types, and that only the relay of the current registration is open.     *)
(* The second is inductive with the first; what it needs of it is that a   *)
(* probe which has answered was about a registration, never None.          *)

\* Every type is kept by every step: the registry's maps, the probes, the
\* engine's containers and the adoption scan.
THEOREM RegistryTypeCorrect == RegistrySpec => []RegistryTypeOK
<1>1. RegistryInit => RegistryTypeOK
  <2> SUFFICES ASSUME RegistryInit PROVE RegistryTypeOK
    OBVIOUS
  <2> USE RegistryAssumption DEF RegistryInit, None
  <2>1. /\ ctr \in [Names -> Phases] /\ want \in [Names -> BOOLEAN]
        /\ started \in [Names -> BOOLEAN] /\ seenRunning \in [Names -> BOOLEAN]
    BY DEF Phases
  <2>2. /\ last \in [Names -> 0..MaxRegs] /\ registered \in [Names -> 0..MaxRegs]
        /\ age \in [Names -> 0..(Window + 1)] /\ relays \in [Names -> 0..MaxRegs]
        /\ open \in [Names -> SUBSET (1..MaxRegs)]
    OBVIOUS
  <2>3. probing \in [Names -> {NoProbe} \cup [reg : 1..MaxRegs, state : States \cup {"out"}]]
    OBVIOUS
  <2> QED BY <2>1, <2>2, <2>3 DEF RegistryTypeOK
<1>2. RegistryTypeOK /\ [RegistryNext]_allVars => RegistryTypeOK'
  <2> SUFFICES ASSUME RegistryTypeOK, [RegistryNext]_allVars PROVE RegistryTypeOK'
    OBVIOUS
  <2> USE RegistryAssumption DEF RegistryTypeOK, None
  <2>1. ASSUME NEW n \in Names, Registered(n)
        PROVE /\ last' \in [Names -> 0..MaxRegs] /\ registered' \in [Names -> 0..MaxRegs]
              /\ age' \in [Names -> 0..(Window + 1)] /\ seenRunning' \in [Names -> BOOLEAN]
              /\ relays' \in [Names -> 0..MaxRegs]
              /\ open' \in [Names -> SUBSET (1..MaxRegs)] /\ ticker' \in BOOLEAN
    <3>1. last[n] + 1 \in 0..MaxRegs
      BY <2>1 DEF Registered
    <3>2. (registered[n] # None /\ seenRunning[n]) \in BOOLEAN
      OBVIOUS
    <3>3. /\ last' \in [Names -> 0..MaxRegs] /\ registered' \in [Names -> 0..MaxRegs]
          /\ age' \in [Names -> 0..(Window + 1)] /\ relays' \in [Names -> 0..MaxRegs]
          /\ ticker' \in BOOLEAN
      BY <2>1, <3>1 DEF Registered
    <3>4. seenRunning' \in [Names -> BOOLEAN]
      BY <2>1, <3>2, Zenon DEF Registered
    <3>5. open' \in [Names -> SUBSET (1..MaxRegs)]
      BY <2>1 DEF Registered
    <3> QED BY <3>3, <3>4, <3>5
  <2>2. CASE \E n \in Names : Create(n) \/ Run(n) \/ Exit(n) \/ Remove(n) \/ Abort(n)
    <3> PICK n \in Names : Create(n) \/ Run(n) \/ Exit(n) \/ Remove(n) \/ Abort(n)
      BY <2>2
    <3> QED BY DEF Create, Run, Exit, Remove, Abort, Phases, registryVars, scanVars
  <2>3. CASE \E n \in Names : Spawn(n)
    <3> PICK n \in Names : Spawn(n)
      BY <2>3
    <3> QED BY <2>1 DEF Spawn, scanVars
  <2>4. CASE \E n \in Names : Adopt(n)
    <3> PICK n \in Names : Adopt(n)
      BY <2>4
    <3>1. CASE Registered(n)
      BY <2>1, <3>1 DEF Adopt, engineVars
    <3>2. CASE UNCHANGED <<registryVars, ticker>>
      BY <3>2 DEF Adopt, engineVars, registryVars
    <3> QED BY <3>1, <3>2 DEF Adopt
  <2>5. CASE \E n \in Names : Look(n)
    <3> PICK n \in Names, s \in States : /\ Look(n)
                                         /\ probing' = [probing EXCEPT ![n].state = s]
      BY <2>5 DEF Look, Says, Phases, States
    <3> DEFINE Probes == [reg : 1..MaxRegs, state : States \cup {"out"}]
    <3>1. probing[n] \in Probes
      BY DEF Look, NoProbe
    <3>2. [probing[n] EXCEPT !.state = s] \in Probes
      BY <3>1
    <3>3. probing' \in [Names -> {NoProbe} \cup Probes]
      BY <3>2
    <3> QED BY <3>3 DEF Look, engineVars, registryVars, scanVars
  <2>6. CASE \E n \in Names : Answer(n)
    <3> PICK n \in Names : Answer(n)
      BY <2>6
    <3>1. probing[n].reg \in 1..MaxRegs
      BY DEF Answer, NoProbe, States
    <3>2. probing' \in [Names -> {NoProbe} \cup [reg : 1..MaxRegs, state : States \cup {"out"}]]
      BY DEF Answer
    <3>3. CASE AttachRelay(n)
      <4>1. /\ relays' \in [Names -> 0..MaxRegs] /\ open' \in [Names -> SUBSET (1..MaxRegs)]
            /\ seenRunning' \in [Names -> BOOLEAN]
        BY <3>1, <3>3 DEF AttachRelay
      <4> QED BY <3>2, <3>3, <4>1 DEF Answer, AttachRelay, engineVars, scanVars
    <3>4. CASE Forget(n)
      <4>1. /\ relays' \in [Names -> 0..MaxRegs] /\ open' \in [Names -> SUBSET (1..MaxRegs)]
            /\ registered' \in [Names -> 0..MaxRegs]
        BY <3>4 DEF Forget
      <4> QED BY <3>2, <3>4, <4>1 DEF Answer, Forget, engineVars, scanVars
    <3>5. CASE UNCHANGED registryVars
      BY <3>2, <3>5 DEF Answer, registryVars, engineVars, scanVars
    <3> QED BY <3>3, <3>4, <3>5 DEF Answer
  <2>7. CASE \E n \in Names : Age(n)
    <3> PICK n \in Names : Age(n)
      BY <2>7
    <3>1. age' \in [Names -> 0..(Window + 1)]
      BY DEF Age
    <3> QED BY <3>1 DEF Age, engineVars, scanVars
  <2>8. CASE AdoptList
    <3>1. listed' \subseteq Names /\ scan' \in {"none", "due", "done"}
      BY <2>8 DEF AdoptList
    <3> QED BY <2>8, <3>1 DEF AdoptList, engineVars, registryVars
  <2>9. CASE Tick
    <3>1. \A n \in Names : registered[n] # None
             => [reg |-> registered[n], state |-> "out"]
                   \in [reg : 1..MaxRegs, state : States \cup {"out"}]
      OBVIOUS
    <3>2. probing' \in [Names -> {NoProbe} \cup [reg : 1..MaxRegs, state : States \cup {"out"}]]
      BY <2>9, <3>1 DEF Tick
    <3> QED BY <2>9, <3>2 DEF Tick, engineVars, registryVars, scanVars
  <2>10. CASE Restart
    <3>1. /\ registered' \in [Names -> 0..MaxRegs] /\ age' \in [Names -> 0..(Window + 1)]
          /\ seenRunning' \in [Names -> BOOLEAN] /\ relays' \in [Names -> 0..MaxRegs]
          /\ open' \in [Names -> SUBSET (1..MaxRegs)]
      BY <2>10 DEF Restart
    <3>2. probing' \in [Names -> {NoProbe} \cup [reg : 1..MaxRegs, state : States \cup {"out"}]]
      BY <2>10 DEF Restart
    <3>3. ticker' = FALSE /\ scan' = "due" /\ listed' = {} /\ restarts' = restarts + 1
      BY <2>10 DEF Restart
    <3>4. UNCHANGED <<ctr, want, started, last>>
      BY <2>10 DEF Restart, engineVars
    <3>5. ticker' \in BOOLEAN
      BY <3>3
    <3>6. scan' \in {"none", "due", "done"} /\ listed' \subseteq Names
      BY <3>3
    <3>7. restarts' \in Nat
      BY <3>3
    <3> QED BY <3>1, <3>2, <3>4, <3>5, <3>6, <3>7
  <2>11. CASE UNCHANGED allVars
    BY <2>11 DEF allVars, engineVars, registryVars, scanVars
  <2> QED BY <2>2, <2>3, <2>4, <2>5, <2>6, <2>7, <2>8, <2>9, <2>10, <2>11 DEF RegistryNext
<1> QED BY <1>1, <1>2, PTL DEF RegistrySpec

-----------------------------------------------------------------------------
\* Only what these four actions assign is in question.
LEMMA SameRelays ==
    ASSUME OnlyCurrentAttached, UNCHANGED <<registered, relays, open>>
    PROVE  OnlyCurrentAttached'
BY DEF OnlyCurrentAttached

LEMMA RegisteredDetaches ==
    ASSUME RegistryTypeOK, OnlyCurrentAttached, NEW n \in Names, Registered(n)
    PROVE  OnlyCurrentAttached'
<1> SUFFICES ASSUME NEW m \in Names
             PROVE  /\ open'[m] = {relays'[m]} \ {None}
                    /\ relays'[m] # None => relays'[m] = registered'[m]
  BY DEF OnlyCurrentAttached
<1> USE DEF RegistryTypeOK, OnlyCurrentAttached, Registered, None
<1>1. CASE m = n
  BY <1>1
<1>2. CASE m # n
  BY <1>2
<1> QED BY <1>1, <1>2

\* The check after the await is what makes this hold: the probe's registration
\* is the current one.
LEMMA AnswerKeepsCurrent ==
    ASSUME RegistryTypeOK, OnlyCurrentAttached, NEW n \in Names, Answer(n)
    PROVE  OnlyCurrentAttached'
<1> USE DEF None
<1>1. probing[n].reg # None
  BY DEF RegistryTypeOK, Answer, NoProbe, States
<1>2. CASE UNCHANGED registryVars
  BY <1>2, SameRelays DEF registryVars
<1>3. CASE registered[n] = probing[n].reg /\ AttachRelay(n)
  <2> SUFFICES ASSUME NEW m \in Names
               PROVE  /\ open'[m] = {relays'[m]} \ {None}
                      /\ relays'[m] # None => relays'[m] = registered'[m]
    BY DEF OnlyCurrentAttached
  <2>1. CASE m = n /\ relays[n] = None
    BY <1>1, <1>3, <2>1 DEF RegistryTypeOK, OnlyCurrentAttached, AttachRelay
  <2>2. CASE m # n \/ relays[n] # None
    BY <1>3, <2>2 DEF RegistryTypeOK, OnlyCurrentAttached, AttachRelay
  <2> QED BY <2>1, <2>2
<1>4. CASE Forget(n)
  <2> SUFFICES ASSUME NEW m \in Names
               PROVE  /\ open'[m] = {relays'[m]} \ {None}
                      /\ relays'[m] # None => relays'[m] = registered'[m]
    BY DEF OnlyCurrentAttached
  <2> QED BY <1>4 DEF RegistryTypeOK, OnlyCurrentAttached, Forget
<1> QED BY <1>2, <1>3, <1>4 DEF Answer

\* No relay of an earlier spawn stays attached, whatever order probes, spawns,
\* adoptions and restarts come in.
THEOREM OneRelayPerName == RegistrySpec => []OnlyCurrentAttached
<1>1. RegistryInit => OnlyCurrentAttached
  BY DEF RegistryInit, OnlyCurrentAttached, None
<1>2. RegistryTypeOK /\ OnlyCurrentAttached /\ [RegistryNext]_allVars => OnlyCurrentAttached'
  <2> SUFFICES ASSUME RegistryTypeOK, OnlyCurrentAttached, [RegistryNext]_allVars
               PROVE  OnlyCurrentAttached'
    OBVIOUS
  <2>1. CASE \E n \in Names : Registered(n)
    BY <2>1, RegisteredDetaches
  <2>2. CASE \E n \in Names : Answer(n)
    BY <2>2, AnswerKeepsCurrent
  <2>3. CASE Restart
    BY <2>3 DEF Restart, OnlyCurrentAttached, None
  <2>4. CASE UNCHANGED <<registered, relays, open>>
    BY <2>4, SameRelays
  <2>5. ASSUME NEW n \in Names, Spawn(n) \/ Adopt(n)
        PROVE  Registered(n) \/ UNCHANGED <<registered, relays, open>>
    BY <2>5 DEF Spawn, Adopt, registryVars
  <2>6. ASSUME NEW n \in Names,
               Create(n) \/ Run(n) \/ Exit(n) \/ Remove(n) \/ Abort(n) \/ Look(n) \/ Age(n)
        PROVE  UNCHANGED <<registered, relays, open>>
    BY <2>6 DEF Create, Run, Exit, Remove, Abort, Look, Age, registryVars
  <2>7. ASSUME AdoptList \/ Tick \/ UNCHANGED allVars
        PROVE  UNCHANGED <<registered, relays, open>>
    BY <2>7 DEF AdoptList, Tick, allVars, registryVars
  <2> QED BY <2>1, <2>2, <2>3, <2>4, <2>5, <2>6, <2>7 DEF RegistryNext
<1> QED BY <1>1, <1>2, RegistryTypeCorrect, PTL DEF RegistrySpec

==============================================================================

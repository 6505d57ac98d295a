----------------------------- MODULE ExecRelay -----------------------------
(***************************************************************************)
(* The exec relay of app/src/channels/webchat/exec-relay.ts: a daemon in   *)
(* an agent's container accepts the agent's connections on loopback and    *)
(* carries them over a docker exec pipe to central (class ContainerRelay), *)
(* which hands each one to a route.  Both ends number their frames, keep   *)
(* them until acknowledged and replay them when a new pipe is attached.    *)
(*                                                                         *)
(* A frame is one unit of the byte limits.  The numbers n and conn of a    *)
(* frame are history: they name the chunk it carries and the connection    *)
(* that chunk belongs to, and no guard reads them.                         *)
(***************************************************************************)
EXTENDS Naturals, Sequences, FiniteSets

CONSTANTS
    MaxConns,     \* bound: connections the agent makes
    MaxUp, MaxDn, \* bounds: chunks sent towards central, towards the agent
    MaxBreaks,    \* bound: times an attached pipe breaks
    MaxStarts,    \* bound: daemons started in the container
    HighWater,    \* limits.highWaterBytes, in frames
    LowWater,     \* limits.lowWaterBytes, in frames
    MaxBuffer,    \* limits.maxBufferBytes, in frames
    DaemonBuffer, \* the daemon's MAX_BUFFER_BYTES, in frames
    MayBlock      \* whether a pipe may report itself backed up

ASSUME BoundsAssumption ==
    /\ MaxConns \in Nat \ {0} /\ MaxUp \in Nat /\ MaxDn \in Nat
    /\ MaxBreaks \in Nat /\ MaxStarts \in Nat
    /\ MayBlock \in BOOLEAN

\* DEFAULT_RELAY_LIMITS: low water below high water below the hard cap, which
\* has room for a close frame per stream.
ASSUME LimitsAssumption ==
    /\ LowWater \in Nat /\ HighWater \in Nat /\ MaxBuffer \in Nat
    /\ DaemonBuffer \in Nat
    /\ LowWater < HighWater /\ HighWater <= MaxBuffer /\ MaxConns <= MaxBuffer

VARIABLES
    \* the daemon
    daemon,      \* "none", "booting" (ports listen, control socket not yet), "up"
    starts,      \* daemons started so far
    nextStream, sid,     \* next stream id, and the id each connection was given
    client,      \* whose socket is the client: "none", "cur" (this pipe), "old"
    grace,       \* the grace timer is armed
    dOut, outbuf, dIn,   \* outSeq, outbuf, inSeq
    \* central's ContainerRelay
    pipe,        \* "none", "open", "broken", "missing" (no daemon), "closed"
    ready, blocked, paused,
    cOut, pending, cIn,
    stream,      \* each connection's Duplex: see StreamStates
    \* the lines on their way
    toD, toC, zombie,    \* zombie: what the pipe before still brings the daemon
    \* the agent's connections and what moved through them
    conn, sentUp, gotUp, sentDn, queue, gotDn,
    breaks, resets       \* pipes broken, tunnels reset by the daemon

daemonVars  == <<daemon, starts, nextStream, sid, client, grace, dOut, outbuf, dIn>>
centralVars == <<pipe, ready, blocked, paused, cOut, pending, cIn, stream>>
wireVars    == <<toD, toC, zombie>>
agentVars   == <<conn, sentUp, gotUp, sentDn, queue, gotDn>>
vars        == <<daemonVars, centralVars, wireVars, agentVars, breaks, resets>>

Conns == 1..MaxConns
Kinds == {"hello", "ready", "ack", "reset", "open", "data", "close"}
\* hello: n is ack, seq is outSeq; ready: n is inSeq, seq is outSeq.
Line  == [t : Kinds, id : Nat, conn : Nat, n : Nat, seq : Nat]
\* "mapped": in #streams.  "left": no longer in #streams, its data listener
\* still sends.  "stuck": the same, but it was paused and nothing resumes it.
\* "ended": the route ended it.  "gone": destroyed, by the route or the relay.
StreamStates == {"none", "mapped", "left", "stuck", "ended", "gone"}

Control(t, seq, n) == [t |-> t, id |-> 0, conn |-> 0, n |-> n, seq |-> seq]
Frame(t, k, n, seq) == [t |-> t, id |-> sid[k], conn |-> k, n |-> n, seq |-> seq]

\* Faulty variant of After: takes one frame too many for acknowledged.
AfterOneMore(q, s) ==
    SubSeq(q, 2 + Cardinality({i \in DOMAIN q : q[i].seq <= s}), Len(q))

\* What is left of a queue, kept in the order of seq, once s is acknowledged.
After(q, s) == SubSeq(q, 1 + Cardinality({i \in DOMAIN q : q[i].seq <= s}), Len(q))

Init ==
    /\ daemon = "none" /\ starts = 0 /\ nextStream = 0 /\ sid = [k \in Conns |-> 0]
    /\ client = "none" /\ grace = FALSE /\ dOut = 0 /\ outbuf = <<>> /\ dIn = 0
    /\ pipe = "none" /\ ready = FALSE /\ blocked = FALSE /\ paused = FALSE
    /\ cOut = 0 /\ pending = <<>> /\ cIn = 0 /\ stream = [k \in Conns |-> "none"]
    /\ toD = <<>> /\ toC = <<>> /\ zombie = <<>>
    /\ conn = [k \in Conns |-> "idle"]
    /\ sentUp = [k \in Conns |-> 0] /\ gotUp = [k \in Conns |-> <<>>]
    /\ sentDn = [k \in Conns |-> 0] /\ gotDn = [k \in Conns |-> <<>>]
    /\ queue = [k \in Conns |-> <<>>]
    /\ breaks = 0 /\ resets = 0

-----------------------------------------------------------------------------
(* The daemon and the agent's connections.                                 *)

\* A write to a client whose pipe is gone, or that is not this pipe, is lost.
ToClient(lines) ==
    toC' = IF client = "cur" /\ pipe = "open" THEN toC \o lines ELSE toC

Shut(c) == [k \in Conns |-> IF c[k] = "open" THEN "closed" ELSE c[k]]

\* resetTunnels: every socket destroyed with what it had queued.
ResetTunnels ==
    /\ conn' = Shut(conn)
    /\ queue' = [k \in Conns |-> <<>>]
    /\ outbuf' = <<>>
    /\ resets' = resets + 1

\* emit, for a daemon whose connections are now c and their queues q.
Emit(f, c, q) ==
    /\ dOut' = f.seq
    /\ IF Len(outbuf) + 1 > DaemonBuffer
       THEN ResetTunnels /\ ToClient(<<Control("reset", 0, 0)>>)
       ELSE /\ outbuf' = Append(outbuf, f) /\ ToClient(<<f>>)
            /\ conn' = c /\ queue' = q
            /\ UNCHANGED resets

\* onConnection.  Connections are numbered in the order they are made.
AgentConnect(k) ==
    /\ daemon # "none"
    /\ conn[k] = "idle" /\ \A j \in 1..(k - 1) : conn[j] # "idle"
    /\ sid' = [sid EXCEPT ![k] = nextStream]
    /\ nextStream' = nextStream + 1
    /\ Emit([t |-> "open", id |-> nextStream, conn |-> k, n |-> 0, seq |-> dOut + 1],
            [conn EXCEPT ![k] = "open"], queue)
    /\ UNCHANGED <<daemon, starts, client, grace, dIn, centralVars, toD, zombie,
                   sentUp, gotUp, sentDn, gotDn, breaks>>

\* sock.on('data'): sockets are paused exactly while there is no client.
AgentSend(k) ==
    /\ conn[k] = "open" /\ client # "none" /\ sentUp[k] < MaxUp
    /\ sentUp' = [sentUp EXCEPT ![k] = @ + 1]
    /\ Emit(Frame("data", k, sentUp[k] + 1, dOut + 1), conn, queue)
    /\ UNCHANGED <<daemon, starts, nextStream, sid, client, grace, dIn, centralVars,
                   toD, zombie, gotUp, sentDn, gotDn, breaks>>

\* Faulty variant of AgentClose: tells central only while a pipe is attached.
AgentCloseUnheld(k) ==
    /\ conn[k] = "open"
    /\ IF client = "cur"
       THEN Emit(Frame("close", k, 0, dOut + 1),
                 [conn EXCEPT ![k] = "closed"], [queue EXCEPT ![k] = <<>>])
       ELSE /\ conn' = [conn EXCEPT ![k] = "closed"] /\ queue' = [queue EXCEPT ![k] = <<>>]
            /\ UNCHANGED <<dOut, outbuf, toC, resets>>
    /\ UNCHANGED <<daemon, starts, nextStream, sid, client, grace, dIn, centralVars,
                   toD, zombie, sentUp, gotUp, sentDn, gotDn, breaks>>

\* sock.on('close') after the agent's end closed.
AgentClose(k) ==
    /\ conn[k] = "open"
    /\ Emit(Frame("close", k, 0, dOut + 1),
            [conn EXCEPT ![k] = "closed"], [queue EXCEPT ![k] = <<>>])
    /\ UNCHANGED <<daemon, starts, nextStream, sid, client, grace, dIn, centralVars,
                   toD, zombie, sentUp, gotUp, sentDn, gotDn, breaks>>

\* The kernel takes what the daemon wrote to the socket, in order.
AgentRead(k) ==
    /\ queue[k] # <<>>
    /\ gotDn' = [gotDn EXCEPT ![k] = Append(@, Head(queue[k]))]
    /\ queue' = [queue EXCEPT ![k] = Tail(@)]
    /\ UNCHANGED <<daemonVars, centralVars, wireVars, conn, sentUp, gotUp, sentDn,
                   breaks, resets>>

\* handleClientFrame: an ack; a frame seen before; a frame for the socket of
\* its id, if that is still there.
OnClientAck(f) ==
    /\ f.t = "ack"
    /\ outbuf' = After(outbuf, f.seq)
    /\ UNCHANGED <<dIn, toC, conn, queue>>

\* A frame not seen before is acted on; each is acknowledged.
TakeFrame(f) ==
    /\ f.t \in {"data", "close"}
    /\ dIn' = IF f.seq > dIn THEN f.seq ELSE dIn
    /\ ToClient(<<Control("ack", f.seq, 0)>>)

\* Faulty variant of Socket: finds every open socket, whatever its id.
SocketAny(id) == {k \in Conns : conn[k] = "open"}

Socket(id) == {k \in Conns : conn[k] = "open" /\ sid[k] = id}

OnClientData(f) ==
    /\ f.t = "data" /\ TakeFrame(f)
    /\ queue' = [k \in Conns |-> IF f.seq > dIn /\ k \in Socket(f.id)
                                 THEN Append(queue[k], <<f.conn, f.n>>) ELSE queue[k]]
    /\ UNCHANGED <<outbuf, conn>>

OnClientClose(f) ==
    /\ f.t = "close" /\ TakeFrame(f)
    /\ conn' = [k \in Conns |-> IF f.seq > dIn /\ k \in Socket(f.id) THEN "closed" ELSE conn[k]]
    /\ queue' = [k \in Conns |-> IF f.seq > dIn /\ k \in Socket(f.id) THEN <<>> ELSE queue[k]]
    /\ UNCHANGED outbuf

DaemonFrame(f) == OnClientAck(f) \/ OnClientData(f) \/ OnClientClose(f)

\* Faulty variant of DaemonHello: answers, and replays nothing.
HelloNoReplay ==
    /\ daemon = "up" /\ toD # <<>> /\ Head(toD).t = "hello"
    /\ outbuf' = After(outbuf, Head(toD).n) /\ dIn' = dIn
    /\ toC' = IF pipe = "open" THEN Append(toC, Control("ready", dOut, dIn)) ELSE toC
    /\ toD' = Tail(toD) /\ zombie' = <<>>
    /\ client' = "cur" /\ grace' = FALSE
    /\ UNCHANGED <<daemon, starts, nextStream, sid, dOut, centralVars, agentVars,
                   breaks, resets>>

\* The first line of a pipe: its socket becomes the client.
DaemonHello ==
    /\ daemon = "up" /\ toD # <<>> /\ Head(toD).t = "hello"
    /\ LET h == Head(toD)
           left == After(outbuf, h.n)
           in == IF h.seq < dIn THEN h.seq ELSE dIn
       IN /\ outbuf' = left /\ dIn' = in
          /\ toC' = IF pipe = "open"
                    THEN toC \o <<Control("ready", dOut, in)>> \o left ELSE toC
    /\ toD' = Tail(toD) /\ zombie' = <<>>
    /\ client' = "cur" /\ grace' = FALSE
    /\ UNCHANGED <<daemon, starts, nextStream, sid, dOut, centralVars, agentVars,
                   breaks, resets>>

DaemonRecv ==
    /\ daemon = "up"
    /\ \/ /\ client = "cur" /\ toD # <<>>
          /\ DaemonFrame(Head(toD))
          /\ toD' = Tail(toD) /\ UNCHANGED zombie
       \/ /\ client = "old" /\ zombie # <<>>
          /\ DaemonFrame(Head(zombie))
          /\ zombie' = Tail(zombie) /\ UNCHANGED toD
    /\ UNCHANGED <<daemon, starts, nextStream, sid, client, grace, dOut, centralVars,
                   sentUp, gotUp, sentDn, gotDn, breaks, resets>>

\* gone: the client's socket closed.
DaemonGone ==
    /\ \/ client = "old" /\ zombie = <<>>
       \/ client = "cur" /\ pipe # "open" /\ toD = <<>>
    /\ client' = "none" /\ grace' = TRUE
    /\ UNCHANGED <<daemon, starts, nextStream, sid, dOut, outbuf, dIn, centralVars,
                   wireVars, agentVars, breaks, resets>>

\* GRACE_MS passed with no attach; with no client no reset line is written.
GraceExpire ==
    /\ grace /\ grace' = FALSE
    /\ ResetTunnels
    /\ UNCHANGED <<daemon, starts, nextStream, sid, client, dOut, dIn, centralVars,
                   wireVars, sentUp, gotUp, sentDn, gotDn, breaks>>

\* The daemon's control socket listens.
DaemonBoot ==
    /\ daemon = "booting" /\ daemon' = "up"
    /\ UNCHANGED <<starts, nextStream, sid, client, grace, dOut, outbuf, dIn, centralVars,
                   wireVars, agentVars, breaks, resets>>

\* What the death of a daemon takes with it: its state, its agent sockets.
DaemonDies ==
    /\ nextStream' = 0 /\ client' = "none" /\ grace' = FALSE
    /\ dOut' = 0 /\ outbuf' = <<>> /\ dIn' = 0 /\ zombie' = <<>>
    /\ conn' = Shut(conn) /\ queue' = [k \in Conns |-> <<>>]

\* Bound: the daemon dies only while another may still be started.
DaemonCrash ==
    /\ daemon # "none" /\ starts < MaxStarts /\ daemon' = "none"
    /\ DaemonDies
    /\ pipe' = IF pipe = "open" THEN "broken" ELSE pipe
    /\ \E j \in 0..Len(toC) : toC' = SubSeq(toC, 1, j)
    /\ toD' = <<>>
    /\ UNCHANGED <<starts, sid, ready, blocked, paused, cOut, pending, cIn, stream,
                   sentUp, gotUp, sentDn, gotDn, breaks, resets>>

-----------------------------------------------------------------------------
(* Central: ContainerRelay.                                                *)

Dropped(s) == [k \in Conns |-> IF s[k] = "mapped" THEN "gone" ELSE s[k]]
Unmapped == IF paused THEN "stuck" ELSE "left"

\* Faulty variant of Mapped: finds every stream, whatever its id.
MappedAny(id) == {k \in Conns : stream[k] = "mapped"}

Mapped(id) == {k \in Conns : stream[k] = "mapped" /\ sid[k] = id}

\* Faulty variant of Flow: once paused, streams never resume.
FlowStuck(p, pz, hold) == pz \/ hold \/ Len(p) > HighWater

\* #flow, short of the hard cap: the new #paused.
Flow(p, pz, hold) ==
    IF ~pz THEN hold \/ Len(p) > HighWater
    ELSE hold \/ Len(p) > LowWater

\* #write: on the pipe if it is there; a backed-up pipe answers false.
Write(lines) == toD' = IF pipe = "open" THEN toD \o lines ELSE toD
BlockedAfter == IF MayBlock /\ pipe \in {"open", "broken"} THEN {blocked, TRUE} ELSE {blocked}

\* One round of run(): attach and say hello.
Attach ==
    /\ pipe = "none" /\ daemon = "up"
    /\ pipe' = "open" /\ toC' = <<>>
    /\ toD' = <<Control("hello", cOut, cIn)>>
    /\ IF client = "cur" THEN client' = "old" /\ zombie' = toD
                         ELSE UNCHANGED <<client, zombie>>
    /\ blocked' \in (IF MayBlock THEN BOOLEAN ELSE {FALSE})
    /\ UNCHANGED <<daemon, starts, nextStream, sid, grace, dOut, outbuf, dIn,
                   ready, paused, cOut, pending, cIn, stream, agentVars, breaks, resets>>

\* The attach client finds no control socket and exits NO_DAEMON_EXIT.
AttachNoDaemon ==
    /\ pipe = "none" /\ daemon # "up"
    /\ pipe' = "missing" /\ blocked' = FALSE
    /\ paused' = Flow(pending, paused, TRUE)
    /\ UNCHANGED <<daemonVars, ready, cOut, pending, cIn, stream, wireVars, agentVars,
                   breaks, resets>>

\* startDaemon; the new daemon kills a predecessor, and run() attaches again.
StartDaemon ==
    /\ pipe = "missing" /\ starts < MaxStarts
    /\ starts' = starts + 1 /\ daemon' = "booting" /\ pipe' = "none"
    /\ DaemonDies
    /\ UNCHANGED <<sid, ready, blocked, paused, cOut, pending, cIn, stream, toD, toC,
                   sentUp, gotUp, sentDn, gotDn, breaks, resets>>

\* startDaemon failed: run() waits its backoff and attaches again.
StartFails ==
    /\ pipe = "missing" /\ pipe' = "none"
    /\ UNCHANGED <<daemonVars, ready, blocked, paused, cOut, pending, cIn, stream,
                   wireVars, agentVars, breaks, resets>>

\* The exec session ends: some of what was on its way still arrives.
Break ==
    /\ pipe = "open" /\ breaks < MaxBreaks
    /\ breaks' = breaks + 1 /\ pipe' = "broken"
    /\ \E i \in 0..Len(toD) : toD' = SubSeq(toD, 1, i)
    /\ \E j \in 0..Len(toC) : toC' = SubSeq(toC, 1, j)
    /\ UNCHANGED <<daemonVars, ready, blocked, paused, cOut, pending, cIn, stream,
                   zombie, agentVars, resets>>

\* pipe.done resolves, once the output of the client has been read.
PipeDone ==
    /\ pipe = "broken" /\ toC = <<>>
    /\ pipe' = "none" /\ ready' = FALSE /\ blocked' = FALSE
    /\ paused' = Flow(pending, paused, TRUE)
    /\ UNCHANGED <<daemonVars, cOut, pending, cIn, stream, wireVars, agentVars,
                   breaks, resets>>

Drain ==
    /\ blocked /\ pipe = "open" /\ blocked' = FALSE
    /\ paused' = Flow(pending, paused, ~ready)
    /\ UNCHANGED <<daemonVars, pipe, ready, cOut, pending, cIn, stream, wireVars,
                   agentVars, breaks, resets>>

\* #onLine.  case 'ready': a daemon whose counter is behind ours is a new one.
OnReady(f) ==
    LET new == f.seq < cIn
        keep == After(IF new THEN <<>> ELSE pending, f.n)
    IN /\ f.t = "ready"
       /\ ready' = TRUE /\ pending' = keep /\ Write(keep)
       /\ blocked' \in IF keep = <<>> THEN {blocked} ELSE BlockedAfter
       /\ cIn' = IF new THEN f.seq ELSE cIn
       /\ stream' = IF new THEN Dropped(stream) ELSE stream
       /\ paused' = Flow(keep, paused, blocked')
       /\ UNCHANGED <<cOut, gotUp>>

\* #acked.
Acked(q, s) ==
    IF \E i \in DOMAIN q : q[i].seq = s
    THEN LET i == CHOOSE i \in DOMAIN q : q[i].seq = s
         IN  SubSeq(q, 1, i - 1) \o SubSeq(q, i + 1, Len(q))
    ELSE q

OnAck(f) ==
    /\ f.t = "ack"
    /\ pending' = Acked(pending, f.seq)
    /\ paused' = Flow(pending', paused, ~ready \/ blocked)
    /\ UNCHANGED <<ready, blocked, cOut, cIn, stream, gotUp, toD>>

OnReset(f) ==
    /\ f.t = "reset"
    /\ pending' = <<>> /\ cIn' = 0 /\ stream' = Dropped(stream)
    /\ paused' = Flow(<<>>, paused, ~ready \/ blocked)
    /\ UNCHANGED <<ready, blocked, cOut, gotUp, toD>>

\* A frame with a number is acknowledged whether or not it was seen before;
\* only one not seen before does anything else.
Fresh(f) == f.seq > cIn

AckFrame(f) ==
    /\ cIn' = IF Fresh(f) THEN f.seq ELSE cIn
    /\ Write(<<Control("ack", f.seq, 0)>>)
    /\ blocked' \in BlockedAfter
    /\ UNCHANGED <<ready, paused, cOut, pending>>

OnOpen(f) ==
    /\ f.t = "open" /\ AckFrame(f)
    /\ stream' = [k \in Conns |-> IF ~Fresh(f) THEN stream[k]
                    ELSE IF k = f.conn THEN "mapped"
                    ELSE IF k \in Mapped(f.id) THEN Unmapped ELSE stream[k]]
    /\ UNCHANGED gotUp

OnData(f) ==
    /\ f.t = "data" /\ AckFrame(f)
    /\ gotUp' = [k \in Conns |-> IF Fresh(f) /\ k \in Mapped(f.id)
                                 THEN Append(gotUp[k], <<f.conn, f.n>>) ELSE gotUp[k]]
    /\ UNCHANGED stream

OnClose(f) ==
    /\ f.t = "close" /\ AckFrame(f)
    /\ stream' = [k \in Conns |-> IF Fresh(f) /\ k \in Mapped(f.id) THEN Unmapped ELSE stream[k]]
    /\ UNCHANGED gotUp

OnLine(f) == OnReady(f) \/ OnAck(f) \/ OnReset(f) \/ OnOpen(f) \/ OnData(f) \/ OnClose(f)

\* A line the pipe brought is handled even after close().
CentralRecv ==
    /\ toC # <<>>
    /\ OnLine(Head(toC))
    /\ toC' = Tail(toC)
    /\ UNCHANGED <<daemonVars, pipe, zombie, conn, sentUp, sentDn, queue, gotDn,
                   breaks, resets>>

\* #send, with the flow control and the overflow it ends in.  streams is the
\* stream map when it is called; on overflow a close is sent per stream.
Send(t, k, n, streams) ==
    LET f == Frame(t, k, n, cOut + 1)
        p == Append(pending, f)
        left == {j \in Conns : streams[j] = "mapped"}
    IN \E b \in IF ready THEN BlockedAfter ELSE {blocked} :
         /\ blocked' = b
         /\ IF Len(p) <= MaxBuffer
            THEN /\ cOut' = cOut + 1 /\ pending' = p /\ stream' = streams
                 /\ Write(IF ready THEN <<f>> ELSE <<>>)
                 /\ paused' = Flow(p, paused, ~ready \/ b)
            ELSE \E order \in [1..Cardinality(left) -> left] :
                 LET closes == [i \in 1..Cardinality(left) |->
                                   Frame("close", order[i], 0, cOut + 1 + i)]
                 IN /\ \A i, j \in DOMAIN order : i < j => order[i] < order[j]
                    /\ cOut' = cOut + 1 + Cardinality(left)
                    /\ pending' = closes /\ stream' = Dropped(streams)
                    /\ Write(IF ready THEN <<f>> \o closes ELSE <<>>)
                    /\ paused' = (closes # <<>> /\ Flow(closes, FALSE, ~ready \/ b))

routeUnchanged == <<daemonVars, pipe, ready, cIn, toC, zombie, conn, sentUp, gotUp,
                    queue, gotDn, breaks, resets>>

\* ours.on('data'): the route wrote a chunk and the stream is not paused.
RouteSend(k) ==
    /\ \/ stream[k] = "mapped" /\ ~paused
       \/ stream[k] = "left"
    /\ sentDn[k] < MaxDn
    /\ sentDn' = [sentDn EXCEPT ![k] = @ + 1]
    /\ Send("data", k, sentDn[k] + 1, stream)
    /\ UNCHANGED routeUnchanged

\* ours.on('end'), seen once the stream flows: the route ended its end.
RouteEnd(k) ==
    /\ stream[k] = "mapped" /\ ~paused
    /\ Send("close", k, 0, [stream EXCEPT ![k] = "ended"])
    /\ UNCHANGED <<sentDn, routeUnchanged>>

\* theirs.on('close'): the route destroyed its end.
RouteDestroy(k) ==
    /\ stream[k] = "mapped"
    /\ Send("close", k, 0, [stream EXCEPT ![k] = "gone"])
    /\ UNCHANGED <<sentDn, routeUnchanged>>

\* The route of a stream that is no longer in #streams ends: nothing is sent.
RouteFinish(k) ==
    /\ stream[k] \in {"left", "stuck"}
    /\ stream' = [stream EXCEPT ![k] = "gone"]
    /\ UNCHANGED <<daemonVars, pipe, ready, blocked, paused, cOut, pending, cIn,
                   wireVars, agentVars, breaks, resets>>

\* close(): the pipe is killed; what it had already brought is still read.
Close ==
    /\ pipe # "closed" /\ pipe' = "closed"
    /\ ready' = FALSE /\ stream' = Dropped(stream) /\ pending' = <<>>
    /\ \E i \in 0..Len(toD) : toD' = SubSeq(toD, 1, i)
    /\ \E j \in 0..Len(toC) : toC' = SubSeq(toC, 1, j)
    /\ UNCHANGED <<daemonVars, blocked, paused, cOut, cIn, zombie, agentVars,
                   breaks, resets>>

AgentNext   == \E k \in Conns : AgentConnect(k) \/ AgentSend(k) \/ AgentClose(k) \/ AgentRead(k)
DaemonNext  == DaemonHello \/ DaemonRecv \/ DaemonGone \/ GraceExpire \/ DaemonBoot
PipeNext    == Attach \/ AttachNoDaemon \/ StartDaemon \/ StartFails \/ PipeDone
RouteNext   == \E k \in Conns : RouteSend(k) \/ RouteEnd(k) \/ RouteDestroy(k) \/ RouteFinish(k)
FaultNext   == Break \/ DaemonCrash

Next == AgentNext \/ DaemonNext \/ PipeNext \/ CentralRecv \/ Drain \/ RouteNext
           \/ FaultNext \/ Close

Spec == Init /\ [][Next]_vars

\* Every line written is read in time, the relay keeps attaching, docker does
\* not fail to start a daemon forever, and a backed-up pipe drains.
Fairness ==
    /\ WF_vars(DaemonHello) /\ WF_vars(DaemonRecv) /\ WF_vars(DaemonGone)
    /\ WF_vars(DaemonBoot) /\ WF_vars(CentralRecv) /\ WF_vars(Drain)
    /\ WF_vars(Attach) /\ WF_vars(AttachNoDaemon) /\ WF_vars(PipeDone)
    /\ WF_vars(StartDaemon \/ StartFails) /\ SF_vars(StartDaemon)

FairSpec == Spec /\ Fairness

-----------------------------------------------------------------------------
(* Properties.                                                             *)

Chunk == Nat \X Nat

DaemonTypeOK ==
    /\ daemon \in {"none", "booting", "up"} /\ client \in {"none", "cur", "old"}
    /\ grace \in BOOLEAN /\ starts \in Nat
    /\ nextStream \in Nat /\ sid \in [Conns -> Nat]
    /\ dOut \in Nat /\ dIn \in Nat /\ outbuf \in Seq(Line)

CentralTypeOK ==
    /\ pipe \in {"none", "open", "broken", "missing", "closed"}
    /\ ready \in BOOLEAN /\ blocked \in BOOLEAN /\ paused \in BOOLEAN
    /\ cOut \in Nat /\ cIn \in Nat /\ pending \in Seq(Line)
    /\ stream \in [Conns -> StreamStates]

AgentTypeOK ==
    /\ conn \in [Conns -> {"idle", "open", "closed"}]
    /\ sentUp \in [Conns -> Nat] /\ gotUp \in [Conns -> Seq(Chunk)]
    /\ sentDn \in [Conns -> Nat] /\ gotDn \in [Conns -> Seq(Chunk)]
    /\ queue \in [Conns -> Seq(Chunk)]

\* Types of the state both ends of the relay keep, of the lines between them
\* and of what went through.
TypeOK ==
    /\ DaemonTypeOK /\ CentralTypeOK
    /\ toD \in Seq(Line) /\ toC \in Seq(Line) /\ zombie \in Seq(Line)
    /\ AgentTypeOK
    /\ breaks \in Nat /\ resets \in Nat

Holds(q, t, k, n) == \E i \in DOMAIN q : q[i].t = t /\ q[i].conn = k /\ q[i].n = n

\* The bytes a route and an agent read from one connection are that
\* connection's own, in order and without a gap or a repeat, whatever pipes
\* broke and were replayed (#onLine's and handleClientFrame's seq checks).
InOrder ==
    \A k \in Conns :
        /\ \A i \in DOMAIN gotUp[k] : gotUp[k][i] = <<k, i>>
        /\ \A i \in DOMAIN gotDn[k] : gotDn[k][i] = <<k, i>>

\* Why no frame is lost or taken twice on its way to central, as one inductive
\* statement: the replay buffer is numbered without a gap up to outSeq and
\* starts at or before the frame central needs next; no ack, sent or promised
\* in a hello, runs ahead of central; and the frames on the pipe continue from
\* central's inSeq without a gap, up to outSeq while the pipe is attached.
IsFrame(l) == l.t \in {"open", "data", "close"}

Numbered ==
    /\ Len(outbuf) <= dOut
    /\ \A i \in DOMAIN outbuf : IsFrame(outbuf[i]) /\ outbuf[i].seq = dOut - Len(outbuf) + i

AcksBehind(q) ==
    \A i \in DOMAIN q : /\ q[i].t = "ack" => q[i].seq <= cIn
                        /\ q[i].t = "hello" => q[i].n <= cIn

Gapless ==
    \A i \in DOMAIN toC :
        /\ toC[i].t # "reset"
        /\ toC[i].t = "ready" => i = 1 /\ toC[i].seq >= cIn
        /\ IsFrame(toC[i]) =>
               /\ toC[i].seq <= dOut
               /\ toC[i].seq <= cIn + 1 \/ \E j \in 1..(i - 1) : IsFrame(toC[j])
                                                      /\ toC[j].seq = toC[i].seq - 1

UpToDate ==
    client = "cur" /\ pipe = "open" =>
        \A s \in (cIn + 1)..dOut : \E i \in DOMAIN toC : IsFrame(toC[i]) /\ toC[i].seq = s

HelloFirst ==
    /\ \A i \in DOMAIN toD : toD[i].t = "hello" => i = 1 /\ client # "cur"
    /\ pipe = "open" /\ client # "cur" => toC = <<>>

NothingStarted ==
    starts = 0 => /\ daemon = "none" /\ client = "none" /\ dOut = 0 /\ outbuf = <<>> /\ cIn = 0
                  /\ toD = <<>> /\ toC = <<>> /\ zombie = <<>> /\ pipe # "open"
                  /\ \A k \in Conns : conn[k] = "idle"

UpCounters ==
    /\ HelloFirst /\ NothingStarted
    /\ \A i \in DOMAIN pending : IsFrame(pending[i])
    /\ resets = 0 => /\ Numbered /\ dOut - Len(outbuf) <= cIn /\ cIn <= dOut
                     /\ AcksBehind(toD) /\ AcksBehind(zombie)
                     /\ Gapless /\ UpToDate

\* Towards the agent: central's replay queue holds every chunk the
\* daemon has not written to the agent's socket.
DnHeld ==
    \A k \in Conns : stream[k] = "mapped" /\ conn[k] = "open" =>
        \A n \in (Len(gotDn[k]) + Len(queue[k]) + 1)..sentDn[k] : Holds(pending, "data", k, n)

\* Without a reset no end stays open alone: while one end of a connection is
\* closed and the other is open, the frame that will close it is on its way.
ClosesOnItsWay ==
    resets = 0 => \A k \in Conns :
        /\ stream[k] = "mapped" /\ conn[k] = "closed" => Holds(outbuf, "close", k, 0)
        /\ stream[k] \in {"ended", "gone"} /\ conn[k] = "open" /\ pipe # "closed" =>
               Holds(pending, "close", k, 0)

\* #flow: streams stay paused only for a reason that will pass (no pipe, a
\* blocked pipe, too much unacknowledged), and never run over the high water.
Backpressure ==
    /\ paused /\ ready /\ ~blocked => Len(pending) > LowWater
    /\ Len(pending) > HighWater => paused
    /\ Len(pending) <= MaxBuffer /\ Len(outbuf) <= DaemonBuffer

\* A frame central takes is the next one: no frame is skipped or taken twice,
\* unless a reset cleared the counter or another daemon counts anew.
NextFrameOnly ==
    [][cIn' \in {cIn, cIn + 1} \/ resets > 0 \/ starts > 1]_vars

\* Each chunk sent on a connection is in the end read by its route, unless the
\* tunnels were reset, the daemon died, the route ended or the relay was closed.
Carried ==
    \A k \in Conns : \A n \in 1..MaxUp :
        sentUp[k] >= n ~> (Len(gotUp[k]) >= n \/ resets > 0 \/ starts > 1 \/ pipe = "closed"
                            \/ stream[k] \in {"left", "stuck", "ended", "gone"})

\* What the agent and the routes see is a set of tunnels (Tunnel.tla).
Tunnels == INSTANCE Tunnel WITH
    Connections <- Conns, life <- conn,
    served <- [k \in Conns |-> CASE stream[k] = "none" -> "no"
                                 [] stream[k] = "mapped" -> "yes"
                                 [] OTHER -> "over"]

\* The relay over one daemon implements the tunnels: breaks, replays, acks and
\* resets are invisible except as ends of connections.
ImplementsTunnels == Tunnels!Spec
=============================================================================

# NanoClaw Webchat in TLA+

NanoClaw Webchat is an overlay (`src/app`, `src/ui`, `src/vscode-extension`) and a set of
patches (`src/patches`) on NanoClaw, a host process that runs AI agents in containers. The
upstream host ("trunk": router, session manager, container runner, outbound delivery) is not
in this repository; where the modelled code calls it, it is modelled from how the calls use
it and marked external.

The host is one Node process. Nothing in it is preempted, and everything in it is
interleaved: every `await` of a database call, a docker call or a timer lets any other
handler, sweep or callback run. That, together with containers that live and die on their
own, pipes that break and a host that restarts, is where this code can be wrong in ways its
unit tests do not reach. The models follow that rule: **code between two awaits is one
step; every await is a point where anything else may happen.**

## 1. Inventory

Source paths below are relative to `src/app/src/` unless they begin with `src/`.

### Components that are modelled

**Exec relay** (`channels/webchat/exec-relay.ts`, 1-515). An agent's container has no
network; what it connects to on loopback is carried over the stdin and stdout of
`docker exec` to central. In the container a *daemon* (a script held as text in the file)
accepts connections, numbers frames (`outSeq`), keeps them (`outbuf`) until acknowledged and
serves one *client* on a control socket, with a grace period after it leaves. In central a
`ContainerRelay` attaches a pipe, starts the daemon if there is none, numbers and keeps its
own frames (`#pending`), hands each connection to a route, replays after a break and holds
streams back when too much is unacknowledged. *Hard:* broken pipes with frames in them,
replay mixed with new frames, acks that cross, a daemon that died, buffers over their limit,
a grace period that ends unseen. *Correct when* each end reads what the other wrote, in
order and once, nothing on its way is forgotten, closes arrive, and streams are paused only
for a reason that passes.

**Relay registry** (`exec-relay.ts`, 516-619). A spawn registers a container's name before
the container exists; an interval probes every registered name, makes a relay for one that
runs and forgets one that is gone; after a restart running containers are adopted. *Hard:*
slow probes whose answer is about an earlier spawn, reused names. *Correct when* the only
open relay of a name is the one made for its current registration, and a container that
keeps running is attached.

**Limit retry** (`channels/webchat/limit-retry.ts`). A person asks for their last message to
be sent again when a usage limit resets. One row per thread; a sweep claims each due row by
deleting it, checks room, thread and access, stores and broadcasts the message and hands it
to the router; a failure before the store puts the row back. *Hard:* sweeps that overlap,
cancels, failures and restarts between any two of those steps, checks that are stale when
the message is stored. *Correct when* a retry is always in exactly one place, is sent at most
once and only when it was fit to send, and is resolved in the end.

**Agent delivery and reconcile** (`channels/webchat/agent-delivery.ts`, `index.ts` deliver,
`reconcile.ts`). A container writes rows to its outbox; trunk hands each to `deliver`, which
stores text and attachments as messages, and retries failed calls; a map remembers what a
part-done delivery has stored. A reconcile pass every few seconds looks for rows that were
marked delivered and have no message, and stores them again. *Hard:* retries of half-done
work, a probe and a store with an await in between, rows that look alike. *Correct when*
nothing is stored twice, nothing delivered is missing or partial.

**Restart when idle** (`container-restart-idle.ts`). A change of an agent's configuration
restarts its containers, but not in the middle of a turn: a poller waits, for at most half
an hour. Later changes join the wait. *Hard:* two looks at once, a wait that is decided while
a change joins it, a turn or a container that begins after the look. *Correct when* a change
whose restart is over runs in no container from before it, every wait ends, and no turn is
cut off.

**Session retention** (`session-retention.ts`, `modules/session-retention/index.ts`). A daily
run removes sessions nobody can resume: screen all, close those that may go, wait for writes
that had already found them, screen again, delete rows in a transaction, remove the folder;
what it keeps it reopens. An operator's command runs the same code. *Hard:* everything that
may arrive during the run, failures between close and reopen, two runs. *Correct when* no
write is lost, only idle sessions go, and what is not deleted is given back.

**Workloads** (`modules/workloads/control.ts`, `store.ts`, `docker.ts`, `reconcile.ts`). An agent
has Compose stacks deployed, with an owner's approval of each image, digest and size. A row per
stack; calls (up, redeploy, start, stop, down, delete) read it, spend minutes in docker, and
write it; a sweep corrects rows whose containers are gone and stops what has expired. *Hard:*
rows read before docker and written after, calls and sweeps that overlap on one name, a quota
checked before the row is written, commands that fail half done. *Correct when* docker runs only
what was approved for the row, a row no overlap has touched says what docker has, all stacks
stay within the quota, and the sweep corrects what is wrong.

**Approvals** (`src/patches/upstreamable/src__modules__approvals__response-handler.ts.patch`,
`..._primitive.ts.patch`, `modules/approvals/`, `channels/webchat/index.ts`). An action an agent may
not take alone becomes a pending row and a card, sent to every approver's inbox or chat and copied
into the agent's room; an intercept may approve it before anyone sees it. A click, an intercept or
the expiry sweep decides it: the row changes status, an in-process claim is taken, the handler runs
with the row still there, then the row goes and every copy of the card is cleared. Cards without a
session (pairing) take a shorter path. *Hard:* callers that have all read a pending row, a handler
of seconds, partial deliveries, a listener nobody waits for, a stop anywhere. *Correct when* a card
is decided once and applied once, the row lives while the handler runs, a card that waits can be
answered, and every card is settled.

**Cloudflare route** (`modules/workloads/cloudflare/index.ts`, `state.ts`, `publish.ts`). An exposed
app gets an Access application, a DNS record and a place in a tunnel's ingress, by calls of
Cloudflare's API; a state file records their ids and a queue of deletions to retry. Calls at expose
and unexpose and a pass every minute run one at a time on a chain. *Hard:* calls that are refused, or
act without an answer; a host that stops between a call and its record; objects deleted in the
dashboard; rows that change while a pass is at work. *Correct when* what was made is recorded or
queued for deletion, a hostname is never routed before Access guards it, and the route follows the
rows in the end.

**Skill drafts** (`channels/webchat/server.ts` 1995-2070 and 3430-3606, `modules/learning/request.ts`
and `apply.ts`, `db/skill-drafts.ts`, `channels/webchat/index.ts`). An agent proposes a skill; the
draft supersedes earlier ones of its name and shows a card. People keep it (at once, or after a
review of overlaps that takes a model's time), discard or restore it; auto-keep and an expiry sweep
act by themselves. *Hard:* each of these reads the draft, waits, and acts on what it read. *Correct
when* a discard stands, no draft is dropped unkept, and no card offers a draft that has gone.

### How they interact

- The relay registry makes and closes `ContainerRelay`s (one object, `relays` map); the two
  models meet at "open" and "closed". A relay's routes are HTTP services of central.
- Restart-when-idle, session retention and the relay registry all watch the same containers,
  through trunk; each model has its own, as small as its code's view of it.
- Limit retry and delivery both end in `storeWebchatMessage` and a broadcast to a room.
- Workloads share docker and the database with the agents' containers and no state of the other
  models; its approvals are decided by the Approvals component, here an input.
- `Cloudflare` begins where `publish.ts` writes or deletes a route's row; that the gateway serves
  the app is not its concern, and a deleted workload is to it a row that goes.
- Approval cards and draft cards both live in rooms; the messages of `Delivery` are others.
- The sweeps of `module-sweep.ts` are `setInterval`s with no guard against a run that is
  still going: a sweep that awaits may overlap itself. LimitRetry, Approvals and SessionRetention
  have that in the model (the tick of session retention keeps a flag; passes of the
  Cloudflare route queue on its chain); Delivery and Workloads are run with one pass at a time, see section 6.

### Components that are not modelled yet

| Component | State | Operations | What is hard | Correct when |
| --- | --- | --- | --- | --- |
| The tailnet's route (`modules/workloads/tailnet`) | a sidecar container, its state and a device per app | expose, unexpose, sync | a log-in half done, devices the API could not remove | an app that is exposed has its sidecar, one that is not has no device |
| Task health (`modules/task-health`) | incident per series | record a verdict, remind, recover | overlapping verdicts, failed sends | one open incident, every change told once |
| Agent status, turn traces (`modules/agent-status`, `channels/webchat/turn-traces.ts`) | high-water marks, open turns | forward, stop, reconcile a bubble | restarts of host or container | every bubble closes, none is replayed |
| Credentials, OAuth (`modules/user-credentials`, `channels/webchat/oauth-mint.ts`) | onboarding state, vault | mint, onboard, fan out | a chain of outside calls | no half-made credential is used |
| Sockets (`channels/webchat/ws.ts`, `state.ts`, `src/ui/src/core/ws.ts`) | sockets per room, unread marks | join, broadcast, reconnect | messages stored between history and join | a client in a room has every message |

Left out for good, with the reason: REST routes and the database layer (single statements; the
ones other code races with are in the modules above), sign-in and roles (checks of one
request), models and model hosts, MCP, egress rules (configuration and outside services),
files, speech, push, search, the skill store and installs (I/O), guards and secrets (classification and
encryption), transfer and audit (export and an append-only log), the UI's views and the
VS Code extension (rendering), installers and scripts. `PROJECT.json` lists each. What is modelled is the part of the host where
steps of several actors meet; it is a small part of the repository's lines, most of which are views,
forms, routes and database statements that one request runs from end to end.

## 2. Modules

| Module | Models | Composed with |
| --- | --- | --- |
| `ExecRelay` | daemon, pipe, `ContainerRelay` | refines `Tunnel` |
| `Tunnel` | what the relay promises a connection | abstract specification |
| `RelayRegistry` | registration, probes, adoption | |
| `LimitRetry` | requests, cancels, sweeps | |
| `Delivery` | deliver, its retries, reconcile | |
| `RestartWhenIdle` | calls, pollers, containers of one group | |
| `SessionRetention` | prunes, writes, holds of one conversation | |
| `Workloads` | calls, docker, the sweep | |
| `Approvals` | requests, deliveries, clicks, intercept, expiry, room copies | refines `OneDecision` |
| `OneDecision` | what a card promises | abstract specification |
| `Cloudflare` | calls, the chain, the state file, Cloudflare's objects and ingress | |
| `SkillDrafts` | proposals, keeps, reviews, discards, expiry, cards | |
| `MC*` | constants of the instances for TLC | extend the above |
| `*Proofs` | theorems | extend the above and TLAPS |

State is named after the source (`outbuf`, `pending`, `registered`, `seenRunning`, `rows`,
`seen`, `deferred`, `closedHere`). A call, a sweep or a run in progress is a record with its
place (`pc`, `stage`) and what it has read so far, which is how stale reads show up. Variables
marked *history* are read by no guard (`Named` in `Cloudflare` reads `cut` only to give new objects ids of
their own). `map` in `PROJECT.json` gives the lines of every
definition. Definitions called a *faulty variant* are plausible bugs, used to check that a
property can fail; they are in no specification.

### ExecRelay

`DaemonNext` is the control socket (`DaemonHello`, `DaemonRecv`, `DaemonGone`, grace),
`AgentNext` the loopback sockets, `PipeNext` attach, a missing daemon and its start,
`CentralRecv` is `#onLine` with all its cases, `RouteNext` a route's writes and closes, `Drain`
the pipe's drain event, `FaultNext` breaks and daemon crashes, `Close` is `close()`. The queues
`toD`, `toC` hold lines between the ends; `zombie` is what a broken pipe still brings the
daemon. A frame is one unit of the byte limits. Left out: an old pipe's unread *hello* that is
read after a newer attach (a docker exec that stalls for longer than a reattach takes).

`Tunnel` is two queues per connection and says what each end may see. `ImplementsTunnels`
maps `life <- conn`, `served <- ` the state of the stream.

### RelayRegistry

A registration has a number, as the object identity that `checkContainer` compares
(`registered.get(name) !== reg`). A probe is `Tick` (it goes out), `Look` (it reads the engine,
or fails to) and `Answer` (`checkContainer` continues). `Spawn` is `registerRelayedContainer`;
`AdoptList` and `Adopt` the scan after a `Restart`. `ContainerRelay`s are only open or closed.

### LimitRetry

`PostNext`, `CancelNext`, `SweepNext` are the three handlers, one action per await.
`DeleteThread` (three statements), `LoseAccess` and `GainAccess` are what other handlers do
meanwhile. `Crash` is a restart of the host: calls are gone, rows stay. A database call that
throws is taken to have had no effect. `inbound` is set while the host is up. Deleting a room
is not modelled.

### Delivery

Trunk is external: rows become due, one call at a time per session, `Mark` on return, `Throw`
on a failing step, `failed` after `MaxTries`. `Miss` is `if (!server) return undefined`
(`index.ts:248`). `LookUp`, `Begin`, `StoreText`, `StoreFile` are `deliver` and
`storeAgentDelivery`; `PassList` to `PassNext` one reconcile pass. What a row says (its text
and number of attachments) is chosen when it is written; two rows of one content have one `Key`,
as `deliveryKey` has it. `MaxUpsets` bounds restarts and rooms deleted together. `early` counts messages from more than half a minute
before a row, which the probe does not match. Retries are seconds apart, so a retried row's own
text is not early. `Copies(r, i)` counts the messages with a part of what a row and those like it say: the text, or an
attachment.

### RestartWhenIdle

One group. A call (`Calls`) goes through its look at each session and then joins, restarts or
defers; a poller carries the name of the call that made it, and so does the Set it put in
`deferred`. The loop of `load` is one step per session. `MaxPolls` stands for the 360 polls of
half an hour. Containers begin and end turns, exit and respawn at any step. A container
remembers which changes it was started after.

### SessionRetention

The sessions of one conversation are numbered by age; the router resumes the newest active
one. The screen's rules are kept to *when they are read*: `touched` (mail, file times, the row,
the container) at each session's own screen, `held` (questions, approvals, claims, wake
signals, pins) and the continuation once per context. A write resolves its session and lands in
two steps (`Resolve`, `Land`). `Landed` is what `DEFAULT_GRACE_MS` assumes: a write that had
resolved a session before it was closed lands within the grace period. Failures of a screen, a
transaction or a removal are in the model when `CanThrow`. `InHand(p)` is what a run has closed and
still has to decide on; `left` is history: what a failed or interrupted run left closed.

### Workloads

A call is a record with its place and what it has read. `Begin` is a call up to its first query;
`Check` and `Weigh` are `checkWorkload` and a redeploy's comparison with the approval it read;
`Write` is the row's write. `deploy` is `Claim` and `ClaimInsert` (its network), `Mark` (the row
says deploying), `Render` (the row is read back and `stack.yml` written), `Launch` (compose up)
and `Record`; `Refused` is a throw before its try. `Halt` is compose stop or down, `Erase` the end of a delete.
`SweepList`, `SweepTake`, `SweepStop`, `SweepRecord` are one pass of the loop, and `SweepSkips` its catch.
`Clash` is the unique index over live names. Docker is a set of containers per name, with the
stack file they were made from. `agreed` (what was approved for a row), `mixed` (names two of whose
operations overlapped) and `upsMet` are history. `Asked` says which calls are made on which name;
`MaxUpsets` bounds failing commands and queries, containers removed by hand and restarts.

Left out: builds and their hourly limit, addresses, disk, backups and restore, the node's ceiling
(a second sum like the quota's), preflight's reasons, overlapping sweeps, a second agent.

### Approvals

Every caller that may decide (a click, a sweep, the intercept of a request, named by its card) is a
record in `call` with what it has read. `Request` writes the row; `JudgeApproves` or `Escalate` is
the intercept; `Deliver`, `DeliverFails` and `Sent` are the fan-out and its cleanup; `StoreCard` and
`IndexCard` the listener that copies the card into the room. `Approve` is transition and claim (both
before the handler's first await), `Release` and `ReleaseFails` the `finally`, `Tell` and `Clear`
what clears the copies. `Reject` is trunk's `finalizeReject`, known from the patch and its callers.
`RejectSessionless` and `Unclaimed` are cards without a session. A chat's button stays live after
the answer (`Chats`). `decided` and `applied` are history, and what `OneDecision` is about.

Left out: who may click, how the pre-judge decides, cards that are too long, what a handler does.

### Cloudflare

`chain` is `serial()`, its head the operation in `op`: a pass (`List`, `Drop`, `Unroute`, `Delete`,
`Setup`, `Ensure`, `Make`, `Rewrite`, `Unlist`, `Route`, `Purge`, `Purged`), a teardown, an attach or
a detach, which share those steps as the code shares the functions. Each call of the API takes an
answer: ok, refused, or lost (it takes effect and throws). `known`, `rec`, `pending`, `put`, `tunnel` are
the state file and survive `Crash`; `out` and `ingress` are Cloudflare's. `Named` is the search by
hostname that adopts what is there. `cut` (lost answers and stops), `reused` (objects adopted while
queued for deletion) and `dash` (deleted by hand) are history, and the exceptions of the properties.

Left out: a changed account, zone, domain or tunnel, the catch-all application, what a policy says
and the install's own audience, objects others made, connector and token, a gateway that is off.

### SkillDrafts

A handler is in a slot, with its draft and what it has read. `Keep`, `Review`, `Ask`, `Propose` and
`Sweep` begin one; `Fetch`, `Judge`, `Write`, `Refuse` and `Delete` are the ways to keep a draft;
`Supersede`, `Stage` and `Insert` a proposal; `Expire` and `Spare` the sweep. Cards are flipped in
the background (`notes`, `posts`) or by the handler (`Flip`). `jobs` is `keepReviewJobs`. `kept`, `gone`,
`raced` (discarded while a keep was under way) and `crossed` (a card shown as pending after its draft
had gone) are history.

Left out: versions and revert, archive and curator, promotion, edits of a body, how overlaps are found.

## 3. Runs

Passing runs:

| Run | Question | Instance |
| --- | --- | --- |
| `relay_tunnels` | is a close always on its way, is it a set of tunnels, does the invariant of the proof (nothing on its way to central is lost) hold? | 2 connections, a chunk up each, a break and its replay; buffers never full |
| `relay_limits` | what survives overflow at either end and a new daemon; are streams paused only for a passing reason; is each chunk carried? | 1 connection, a chunk up and 2 down, buffers of 2, a break, a pipe that blocks, 2 daemons; fair |
| `registry` | is the open relay the current one; is a running container attached? | 1 name registered up to 4 times, 2 restarts; fair |
| `retry` | is a retry always in one place; was what is sent fit to send; is every retry resolved? | 1 request, a cancel, 2 overlapping sweeps, 2 users, 2 failing calls (the second may be the restore of the first), a restart, a deleted thread, access lost and regained; fair |
| `delivery_retry` | does a retry store anything twice; is what is delivered complete; is anything lost? | 2 rows, alike or not, attachments, 2 tries, a pass, a restart or a deleted room |
| `idle` | does every change reach the containers; does every wait end? | 2 calls, 1 session, a respawn; fair |
| `prune_safe` | is a write lost, a busy session removed; is what is kept given back? | 3 sessions, 2 runs, a write, failures, a restart |
| `workloads` | does docker run only what was approved; do rows tell the truth; does the quota hold; does the sweep correct? | 3 calls, 2 at a time, all six on one name and up on another; 3 stacks, an expiry, one upset; fair sweep |
| `approvals` | is a card decided and applied once (`OneDecision`); does its row live while its handler runs; can who has it answer it; is the room's copy true; is it settled and cleaned up? | 1 card of any kind, 2 inboxes and a chat, 2 clicks, 2 sweeps, the intercept, 3 failing calls, a restart; fair |
| `cloudflare` | is all that was made on record; is a hostname guarded before it is routed; does the route follow the rows? | 1 app exposed twice, 4 ids, one refused call, lost answer, deletion by hand, switch-off or restart; fair |
| `drafts` | does a discard stand; is every card true in the end? | 2 drafts of one name, 2 handlers at a time, a restart |

Why these bounds are enough to be interesting: each hazard needs at most two actors that
disagree and one more event (a break, a failure, a restart) between their steps, and each run
has those. Buffers of two frames are full after the first chunks, with low water, high water and
cap as close as the assumptions allow. Two registrations and two daemons are what "old" and
"new" take; four let a probe be several spawns behind. A second connection can only interfere
through ids, resets and the shared queues, which `relay_tunnels` has. Two rows are enough for one to
be taken for the other; three sessions for one that is resumed, one just superseded and one long
superseded. In `workloads` three calls are an up, one that overlaps it and one after it; the
quota of 2 against sizes 1 and 2 lets two stacks fit or not. In `approvals` cards share nothing but
the callers, so one card of each kind is enough; three failing calls let every delivery fail. In
`cloudflare` the second exposure of a name meets what is left of the first. Two drafts are a draft
and the one that supersedes it, two handlers any pair that overlaps. What the bounds leave out, the
proofs below cover for the properties they are about (section 4 says which are only checked).

`CHECK_DEADLOCK FALSE` is set everywhere: a bounded instance stops when its bounds are used
up, as the system stops when nothing arrives. Nothing here waits on a lock; a wait that never
ends is a liveness property (`Carried`, `Attached`, `Resolved`, `Ended`, `Honest`,
`Settles`, `Cleaned`, `Published`, `Withdrawn`).

Symmetry is used in `delivery_retry` only (invariants), over rows of one session, which are compared
only for equality.

### Fairness

- `ExecRelay`: lines written are read, an attach is tried again on its timer, a daemon that is
  booted comes up (weak fairness: event loop and timers); `SF(StartDaemon)`: starting a daemon
  does not fail for ever, though it may fail any number of times. Agent and route owe nothing.
- `RelayRegistry`: the interval fires, a probe has a timeout, so `Tick`, `Look`, `Answer` are
  weakly fair; a probe that keeps being made is in the end truthful (strong fairness of a true
  `Look`). Containers owe nothing.
- `LimitRetry`: time passes and sweeps run to their end. Requests owe nothing.
- `RestartWhenIdle`: each call and poller takes its next step (timers, awaits). Turns owe
  nothing: `Ended` holds with a turn that never does.
- `Workloads`: `WF(SweepNext)`, as the sweep is on an interval and goes on after every row that
  throws. Calls owe nothing, and docker may fail as often as its bound allows.
- `Approvals`: rows get old, the sweep is on an interval, awaits end and handlers return. Nobody has
  to click, and calls may fail as often as the bound allows.
- `Cloudflare`: the pass is on an interval, calls begun are made and end, and an hour is over
  (`RESYNC_MS`) at some pass of every app (strong fairness of an `Ensure` that rewrites). Owners owe
  nothing.
- `Tunnel`, `OneDecision`, `Delivery`, `SessionRetention` and `SkillDrafts` are checked for safety only and need none.

### A run that finds a disagreement

It checks a statement of a comment that the code does not keep; the finding of `PROJECT.json` quotes it.

| Run | Statement | What happens |
| --- | --- | --- |
| `prune_two` | no write is lost | the command deletes what the tick has just closed |

## 4. Proofs

All for every value of the constants, from the assumptions named in the modules, and with no
bound on anything the guards do not bound.

**ExecRelayProofs.** `TypeCorrect`: `Spec => []TypeOK`, and `PausedForAReason`: `Spec => []Backpressure`,
whatever dies. The other theorems say `[](OneDaemon => ...)`, `OneDaemon` being the life of the first
daemon: a second one counts from zero and numbers its streams from one, and with two connections
`InOrder` really fails then (section 6, `exec-relay.ts:425`). Breaks, replays, late acks, overflows and
resets are all within one life.

- `CountersAgree`: `UpCounters`, and `TakesNextFrame`: `NextFrameOnly`. That central takes every frame,
  once, in order, is not inductive: it depends on what the pipe holds, what the daemon kept, and
  which acks are on their way. `UpCounters` says all of it, until a first reset: the buffer is numbered
  without a gap up to `outSeq` and begins at or before the frame central needs; no ack, sent or promised
  in a hello, runs ahead of central; frames on the pipe continue from `inSeq`; a hello is first on its
  pipe. The lemmas `After*` and `Acked*` say what is left of a queue after an acknowledgement.
- `TransitKept`: `Transit`, the invariant behind the rest, over both ways and across resets: ids in use are
  distinct and below `nextStream`, and the two ends of a connection are in states that go together (`Ends`);
  what was read of it is a beginning of what was sent (`Prefixes`); on each pipe, live or broken, a hello or a
  ready comes first and tells each end's true position (`Pipes`); the frames in a queue or on a pipe
  towards an end are those of connections it has, numbered and in the order of what it still lacks
  (`UpInv`, `DnInv`); and the close of a connection the agent ended is kept until its route saw it (`ClosesDue`).
- `ReadInOrder`: `InOrder`, `KeptForAgent`: `DnHeld`, and `RelaysTunnels`: `Spec /\ []OneDaemon =>
  ImplementsTunnels`, by step simulation: a step that an agent or a route sees is one of `Tunnel`, the others
  stutter. They follow from `Transit`.
- `ClosesKept`: `ClosesOnItsWay`, if moreover central's queue has room (`Len(pending) < MaxBuffer`): past its cap
  `#overflow` empties it, closes and all (`exec-relay.ts:403`, section 6).

`RelayRegistry`, the other half of `exec-relay.ts`, has its theorems at the end of the same module: `RegistryTypeCorrect` and
`OneRelayPerName`: `RegistrySpec => []OnlyCurrentAttached`, which is inductive with the types.

**DeferredProofs**, of the two components that put something off.

- `LimitRetry`: `RetryTypeCorrect`. `AlwaysOnePlace`: `Spec => []OnePlace`, with the strengthening that a retry
  not yet made is nowhere and that a request has one row. `Hand(p)`, the sweeps that hold a retry, changes only
  by a claim or by letting go, which two lemmas say once. `SentWhenFit`: `Spec => FitWhenSent`, from `FitInv`: a
  sweep that is past a check has noted it since its claim.
- `RestartWhenIdle`: `IdleTypeCorrect` and `ChangeReachesContainers`: `RestartSpec => []Reached` from `ReachedInv`: a
  change that waits rides in a Set that a poller will still take up (`Rides`), a look that began after a
  change lists what was started before it or it has ended (`Unlisted`), and a change whose restart is done
  is in no container from before (`Restored`). `Reached` exempts a restart that failed and a change that
  joined too late (section 6).

**DeliveryProofs.** All that `delivery_retry` checks. Rows of one content share their entry of the map and
their messages, so that nothing can be said of one row alone: everything is counted by key. `Base` says
what holds of each row, entry, call and pass by itself; `DeliveryTypeCorrect` and `DeliverySeenStored` (`Spec =>
[]SeenStoredAlone`) follow from it. Two counts do the rest.

- `DeliveryNeverLost` and `DeliveryComplete`: `Spec => []NeverLost`, `Spec => []Complete`. `Enough` counts from below: of every
  part there is a message for each row deliver answered for, and one more while some call or entry says
  that the part is stored (`Held`); an answer uses up the one more. Nothing is assumed of passes, restarts
  or the bound of the map.
- `DeliveryRetrySafe`: `Spec /\ [](InBound /\ OnePass) => []RetrySafe`. `NotTwice` counts from above: a message for each row
  marked and each crash, and one more only while it is remembered for a row still tried (`Over`); so a
  retry must find what was stored (`InStep`: a call under way and its entry agree). A replay keeps this because
  a probe that finds nothing has overlooked only what is older than its row, and that is for other rows (`Before`);
  what it found wanting is wanting still when it stores (`Wanting`), as nobody else stores for a row that
  is marked. `InBound` (the map of part-done deliveries is not over `PENDING_BOUND`) and `OnePass` (reconcile
  passes do not overlap) are hypotheses because without them it is false: past the bound the oldest entry goes
  even if it is retried, and two passes may both find a message wanting (section 6).
  `DeliveryRetrySafeOfFew` shows that they hold of themselves with no more rows than the bound and one
  pass, which is the instance of `delivery_retry`: `Spec => []RetrySafe`.

**SessionRetentionProofs.** `RetentionTypeCorrect`, `AlwaysGivenBack`: `Spec => []GivenBack` and `OnlyIdleRemoved`: `Spec =>
RemovedIdle`, of any prunes that overlap, fail or are cut short. They rest on what holds of each prune by itself
(`PruneTrue`): it closed only what it screened, it has a session in hand only while it deletes it, one that its second
context lets go, and it removes files only of a row that has gone. `WritesLand`: `Spec /\ []OneAtATime =>
[]NothingLost`, from `WritesSafe`: a write on its way is into a session that is active, or closed by a prune that has
still to wait for it. `OneAtATime`, that prunes do not overlap, is a hypothesis, without which it is false (`prune_two`); `OnePrunerLosesNothing` is its case of a single pruner, which is what the tick's flag gives.

**WorkloadsProofs.** `WorkloadsTypeCorrect`, and three arguments.

- `OnlyApprovedRuns`: `Spec => []RunsApproved`. That docker runs only what was approved depends on the stack
  file, the row it was rendered from, and what a redeploy read before it compared. `IInv` says all of it: a
  row's approval is one that was given for it and its size is within one (`RowsAgreed`), so is its file
  (`FilesAgreed`), and a call past its comparison holds a stack within an approval it has read (`Known`).
  Each action keeps it, whatever overlaps.
- `StoppedDown`: `Spec => []StoppedIsDown` and `DeletedGone`: `Spec => []DeletedIsGone`, of names whose calls and
  sweep never overlapped, which is what the properties say. They rest on `Orderly`: a name has one live row,
  and on such a name there is one call or the sweep, which then may count on what it has read: the
  row it found is still there, a stop it is about to record has happened, and containers have a live row
  with a file.
- `WithinQuota`: `Spec => []QuotaKept`. `Roomed` says that while ups never met the sizes of the live rows are within the
  quota, and an up that has been weighed still has its room when it writes. The sum is a fold over a
  set; `SumIsCount` shows it is the number of units, pairs of a row and one of the units it takes, so that the laws
  of `Cardinality` do the rest. It is proved by a least counterexample, with no induction scheme.

**ApprovalsProofs.** `ApprovalsTypeCorrect`; `RowLivesOn`: `Spec => []RowLive`; `ImplementsOneDecision`: `Spec
=> Card!Spec`, the refinement of `OneDecision` by step simulation. `RowLive` is not inductive: nobody else
may decide or remove the row while a handler runs, and that rests on who can reach a card at all
(`Callable`: a click works on a card that was sent, a sweep on one whose request is over, an intercept on
its own), on an undecided row being undecided in history (`Undone`) and on one handler per card (`Alone`).
An approval, or a reject, then maps to the one step of `OneDecision` and everything else stutters.
`CardsAnswerable`: `Spec => []Actionable` and `RoomCopiesTrue`: `Spec => []RoomCardTrue` rest on a second
invariant, `Answered`, proved over the first: where a request is before it is over (`Stages`), that
who tells of a decision has removed the row (`Over`), what the index still holds of a card that waits
(`Listed`, `Owed`), and that the room's copy is in the index until who clears it has read that (`Copied`).

**CloudflareProofs.** `CloudflareTypeCorrect`; `NothingForgotten`: `Spec => []Tracked`; `GuardedBeforeRouted`: `Spec =>
GuardedFirst`. They are proved together: an object is deleted only when no record has it (`Spared`,
`Apart`, but for objects that were adopted while queued for deletion), records hold objects of their own
app and kind (`OfApp`), an operation holds objects only while it removes (`Holds`), and a recorded Access
application is there (`Guarded`); then the ingress, which names recorded applications, routes nothing
unguarded.

**SkillDraftsProofs.** `AllAccounted`: `Spec => []Accounted`; `CardsTrue`: `Spec => []CardTrue`; `DiscardsStand`: `Spec =>
DiscardStands`. The invariant says of every keep of a discarded draft that it was under way at the discard
(`Raced`), that what is about to be resolved as kept was written (`Written`), and that somebody will
tell the card of a draft that has gone (`WillTell`).

These theorems cover any number of connections, retries, names, sessions, stacks, cards, apps and drafts, and any number of
breaks, failures and restarts: the bounds of section 3 are constants of which nothing is assumed
but what the named `ASSUME` of each module says. Type correctness, `NextFrameOnly` and `Accounted` are proved
and no run checks them again; types of `Delivery` and `SessionRetention` are checked by their runs as well.

Every invariant, action property and refinement that a passing run checks is proved, under the hypotheses named
above (one daemon, room in the queue, prunes or passes that do not overlap). Only model-checked: liveness under fairness, which with ENABLED is
out of the prover's reach, and the relay with a second daemon (`InOrder` and `DnHeld` of one connection, in
`relay_limits`), which is not. Nothing here rests on induction over data: where a
recursive definition was in the way (a fold in `WorkloadsProofs`, the removal of an entry in `Delivery`) the argument
goes through `Cardinality` or the definition is by index.

## 5. Plan

In this order, most important first:

1. *Done*: `ExecRelay`, `Tunnel`, `LimitRetry`, `RelayRegistry`, `Delivery`, `RestartWhenIdle`,
   `SessionRetention`, `Workloads`, `OneDecision`, `Approvals`, `Cloudflare`, `SkillDrafts`, with the
   theorems above.
2. `TaskHealth` and `AgentStatus`: small state machines with one stale read each.
3. `Rooms`: sockets, history and unread marks of both ends.
4. The tailnet's route next to Cloudflare's, and publishing, which moves an app between the two.
5. Versions of a skill, revert and the curator, next to `SkillDrafts`.
6. Theorems: the relay with a second daemon, whose two tunnels of one number have to be told apart;
   `RetrySafe` with passes that overlap, as a count of messages for each pass.

### Not modelled

The components of the second table of section 1, for want of time, not of reason: each has a state and a
race or two. The rest of the repository is left out because a model of it would restate it: its
handlers read, check and write in one request, and what they race with is in the modules above. Model
answers, what text says, what iptables and docker do, and rendering are outside a state machine.

## 6. Known deviations, read off the code and not run

What the models above show or except and no run reports, so that a reader knows where the code
does less than a comment or a name suggests. Each names the line where it happens.

| Component | Line | What happens |
| --- | --- | --- |
| Exec relay | `exec-relay.ts:194` | a grace period that ends resets the tunnels with no client, so no line tells central, and a route stays open until the next hello |
| | `exec-relay.ts:508` | after `close()` a line already read still opens a stream |
| | `exec-relay.ts:158` | a close destroys the agent's socket with bytes queued on it |
| | `exec-relay.ts:403` | overflow clears a close that is queued, and sends none for that stream |
| | `exec-relay.ts:425` | a daemon is taken for a new one only if its counter is behind central's ("A daemon whose counter is behind ours is a new one", 423): one that has counted as far keeps the old streams, reuses their ids, and a route reads another connection's bytes (`InOrder` fails with two connections and two daemons) |
| | `exec-relay.ts:596` | a respawn inherits `seenRunning` of its name and may be forgotten before it exists |
| Limit retry | `limit-retry.ts:268` | a thread deleted between the check and the store still gets the message |
| | `limit-retry.ts:164` | a schedule's announcement may follow that of the cancel |
| | `limit-retry.ts:179` | a cancel answers ok when a sweep has already claimed the retry |
| Delivery | `reconcile.ts:239` | the probe matches room, text and time, not thread, sender or row: a lost reply that says what another says is taken for stored and never replayed (against `reconcile.ts:4-8`); `SeenStoredAlone` excepts equal texts |
| | `reconcile.ts:57` | two passes that overlap may store one row twice |
| | `reconcile.ts:147` | reconcile stores into a room that was deleted meanwhile |
| | `agent-delivery.ts:33` | over 500 part-done deliveries, the oldest entry goes even if it is retried |
| Restart when idle | `container-restart-idle.ts:118` | a call may join a wait that is already decided |
| | `container-restart-idle.ts:101` | two looks at once make two pollers for one group |
| | `container-restart-idle.ts:99` | a turn that begins after its session was looked at is cut off |
| | `container-restart-idle.ts:120` | a deferred restart that throws is not tried again |
| Session retention | `session-retention.ts:492` | a second screen that throws leaves its sessions closed |
| | `session-retention.ts:488` | the context of the second screen is built once for the loop |
| | `session-retention.ts:517` | a folder that could not be removed is not tried again, its row is gone |
| Workloads | `control.ts:254`, `reconcile.ts:157` | the last write of a deploy, stop or sweep is unconditional: it revives a row deleted meanwhile, and the later of two wins |
| | `control.ts:126` | two ups that overlap may exceed the quota together |
| | `control.ts:309` | a redeploy weighed before a concurrent, smaller up writes a size over the new approval |
| | `control.ts:215`, `:396` | a throw before deploy's try, or a restart, leaves the row deploying, which start passes over |
| | `control.ts:419` | a delete whose last write fails has removed the files: the row stays as it was and the sweep's listing throws on it |
| Approvals | `response-handler.ts.patch:67` | a stop, or a failing delete, after the transition leaves the row approved for ever (expiry looks at pending rows), and the agent is not told |
| | `response-handler.ts.patch:86` | an intercept whose release fails falls through to the delivery of the card |
| | `sessionless.ts:125` | a session-less reject makes no transition: during an approve the handler runs again, with reject |
| | `sessionless.ts:115` | no listener is called for session-less cards: other inboxes are not cleared |
| | `expiry.ts:38` | a session-less card of an action nobody handles never expires |
| | `primitive.ts.patch:154` | when no delivery succeeded the row goes, the room's copy stays open |
| | `index.ts:550` | a room copy indexed after the answer has been cleared stays open |
| | `primitive.ts.patch:127` | a stop between the row and the deliveries leaves a card nobody sees until it expires |
| Cloudflare | `cloudflare/index.ts:428` | an app exposed again may adopt, by its name, an object that is queued for deletion; it is not taken off the queue and the pass deletes it; a DNS record is never looked at again, and the app says ready |
| | `cloudflare/index.ts:282` | an ingress whose answer is lost is not recorded; when the next one wanted is what is recorded, it is not put |
| | `cloudflare/index.ts:536` | switched off, no pass retries or counts the deletions that were refused (`docs/webchat/workloads.md` says every minute) |
| | `cloudflare/index.ts:388` | the objects of an app are deleted even if its hostname could not be taken out of the ingress |
| | `cloudflare/index.ts:384`, `:434` | a stop between forgetting a record and its deletions, or a lost answer to a create followed by a removal, leaves objects no record names |
| Skill drafts | `server.ts:3550` | a discard during the review is overridden by its keep (`server.ts:3519` looks once, before it); so it is by auto-keep |
| | `request.ts:60` | a restored draft, or two proposals at once, make two pending drafts of one name ("One pending draft per (agent, name)", 57) |
| | `apply.ts:122` | a draft staged as new and kept over a skill made meanwhile overwrites it without a snapshot (`docs/webchat/learning-loop.md`: "history only grows") |
| | `apply.ts:79` | an edit saved between a keep's read and its removal of the draft is acknowledged and lost |
| | `index.ts:555` | a card stored late, or set back by a restore that a keep overtakes, offers a draft that has gone |
| | `apply.ts:133` | a stop in the middle of a write may leave the skill's folder missing, and revert refuses |

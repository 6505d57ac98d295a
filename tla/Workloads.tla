----------------------------- MODULE Workloads -----------------------------
(***************************************************************************)
(* The life of an agent's workloads (app/src/modules/workloads/control.ts, *)
(* store.ts, reconcile.ts): Compose stacks whose rows are read before      *)
(* minutes of docker and written after. One agent; rows have an id, and at *)
(* most one row of a name is not deleted (a unique index).                 *)
(*                                                                         *)
(* A call (up, redeploy, start, stop, down, delete) and the sweep are      *)
(* records with their place and what they have read so far. An await of a  *)
(* query, of the registry or of docker ends a step. A stack is an image    *)
(* reference and a size in one unit; an approval pins the digest as well.  *)
(* Docker keeps one set of containers per name (the Compose project), and  *)
(* runs what stack.yml of the row said when it was last brought up.        *)
(*                                                                         *)
(* Left out: builds and their hourly limit, addresses, disk, backups and   *)
(* restore, the node's ceiling (a second sum like the quota's), rows from  *)
(* before approvals were recorded. Checks that only read the host throw    *)
(* where Upset may happen.                                                  *)
(***************************************************************************)
EXTENDS Naturals, FiniteSets, FiniteSetsExt

CONSTANTS Names,      \* names of workloads
          Ids,        \* row ids
          Slots,      \* calls that may be in progress at once
          Shapes,     \* what an owner may approve: [ref, digest, size]
          Stacks,     \* what the agent's Compose file may hold: [ref, size]
          Dated,      \* rows with an expiry date
          Quota,      \* the agent's quota, in the unit of size
          None,       \* no row, no file, no containers
          Asked,      \* bound: which calls are made on each name
          MaxCalls,   \* bound: calls made
          MaxUpsets   \* bound: docker commands, queries and checks that throw,
                      \* containers removed by hand, restarts of the host

Ops == {"up", "redeploy", "start", "stop", "down", "delete"}
States == {"deploying", "running", "stopped", "failed", "deleted"}
Refs == {s.ref : s \in Shapes \cup Stacks}
Sizes == {s.size : s \in Shapes \cup Stacks}
Digests == {s.digest : s \in Shapes}
\* A row: state, stack (ref and size) and the approval on record.
Rows == [name : Names, state : States, ref : Refs, size : Sizes, approved : Shapes]

ASSUME WorkloadsAssumption ==
  /\ \A s \in Shapes \cup Stacks : s.size \in Nat
  /\ Asked \in [Names -> SUBSET Ops]
  /\ None \notin Ids \cup Names \cup Rows
  /\ IsFiniteSet(Ids)
  /\ {Quota, MaxCalls, MaxUpsets} \subseteq Nat

VARIABLES rows,     \* the table workloads
          expired,  \* rows whose expires_at has passed
          files,    \* stack.yml, by row: the image by its digest, the size
          docker,   \* containers of a project, and the row they were made for
          claimed,  \* the agent's row in workload_networks exists
          call,     \* the calls in progress
          sweep,    \* the reconcile loop in progress
          begun, upsets,  \* used up of the bounds
          agreed,   \* history: the shapes approved for a row
          mixed,    \* history: names two of whose operations overlapped
          upsMet    \* history: two ups were in progress at once

table == <<rows, expired>>
engine == <<files, docker>>
marks == <<agreed, mixed, upsMet>>
vars == <<table, engine, claimed, call, sweep, begun, upsets, marks>>

Places == {"idle", "checking", "weighing", "writing", "claiming", "inserting",
           "marking", "rendering", "launching", "halting", "erasing", "recording"}
\* A call: the row it found, the row its check replaces, the stack it brings, the
\* approval it compares with, the state it will record.
Calls == [op : Ops \cup {None}, pc : Places, name : Names \cup {None}, id : Ids \cup {None},
          beside : Ids \cup {None}, want : Shapes \cup Stacks \cup {None}, limit : Shapes \cup {None},
          outcome : States \cup {None}]
Idle == [op |-> None, pc |-> "idle", name |-> None, id |-> None, beside |-> None,
         want |-> None, limit |-> None, outcome |-> None]
\* The sweep: running rows not handled yet, those of them that had expired, and
\* the row in hand.
Sweeps == [pc : {"idle", "next", "stopping", "recording"}, todo : SUBSET Ids,
           late : SUBSET Ids, at : Ids \cup {None}, outcome : States \cup {None}]
Resting == [pc |-> "idle", todo |-> {}, late |-> {}, at |-> None, outcome |-> None]

TypeOK ==
  /\ rows \in [Ids -> Rows \cup {None}]
  /\ expired \in SUBSET Ids
  /\ files \in [Ids -> {None} \cup [ref : Refs, digest : Digests, size : Sizes]]
  /\ docker \in [Names -> {None} \cup [up : BOOLEAN, id : Ids, ref : Refs, digest : Digests, size : Sizes]]
  /\ claimed \in BOOLEAN
  /\ call \in [Slots -> Calls]
  /\ \A c \in Slots : call[c].pc \notin {"idle", "weighing", "writing"} => call[c].id \in Ids
  /\ sweep \in Sweeps
  /\ sweep.pc \in {"stopping", "recording"} => sweep.at \in Ids
  /\ begun \in 0..MaxCalls /\ upsets \in 0..MaxUpsets
  /\ agreed \in [Ids -> SUBSET Shapes]
  /\ mixed \in SUBSET Names
  /\ upsMet \in BOOLEAN

Init ==
  /\ rows = [i \in Ids |-> None]
  /\ expired = {}
  /\ files = [i \in Ids |-> None]
  /\ docker = [n \in Names |-> None]
  /\ claimed = FALSE
  /\ call = [c \in Slots |-> Idle]
  /\ sweep = Resting
  /\ begun = 0 /\ upsets = 0
  /\ agreed = [i \in Ids |-> {}]
  /\ mixed = {}
  /\ upsMet = FALSE

----------------------------------------------------------------------------
\* The table.
Live == {i \in Ids : rows[i] # None /\ rows[i].state # "deleted"}
\* findWorkload: the live row of a name.
Found(n) == LET S == {i \in Live : rows[i].name = n}
            IN  IF S = {} THEN None ELSE CHOOSE i \in S : TRUE
\* Faulty variant: only running stacks are counted.
UsedRunning(but) ==
  MapThenSumSet(LAMBDA i : rows[i].approved.size, {i \in Live \ {but} : rows[i].state = "running"})

\* What the agent's other stacks were approved for, whatever their state.
Used(but) == MapThenSumSet(LAMBDA i : rows[i].approved.size, Live \ {but})
\* A write of a live state to a deleted row whose name lives again: the unique
\* index refuses it.
Clash(i) == rows[i].state = "deleted" /\ Found(rows[i].name) # None
Sets(i, s) == rows' = [rows EXCEPT ![i].state = s]

At(c, place) == call' = [call EXCEPT ![c].pc = place]
Ends(c) == call' = [call EXCEPT ![c] = Idle]
\* One of the bounded upsets, and none.
Upset == upsets < MaxUpsets /\ upsets' = upsets + 1
Fine == UNCHANGED upsets

\* Whether anything is at work on a name: a call, or the sweep until it has
\* handled the name's row.
InHand(n) ==
  \/ \E c \in Slots : call[c].name = n
  \/ \E i \in sweep.todo \cup {sweep.at} : i # None /\ rows[i].name = n

----------------------------------------------------------------------------
\* What each call does with the first query, its workload's row i; those but up
\* end without one. A start of a row that is not stopped has nothing to do.
Opening(op, n, i) ==
  LET k == [Idle EXCEPT !.op = op, !.name = n, !.id = i] IN
  CASE op = "up" -> {[k EXCEPT !.pc = "weighing", !.beside = i, !.want = s] : s \in Shapes}
    [] op # "up" /\ i = None -> {Idle}
    [] op = "redeploy" /\ i # None ->
         {[k EXCEPT !.pc = "checking", !.want = s, !.limit = rows[i].approved] : s \in Stacks}
    [] op = "start" /\ i # None ->
         {IF rows[i].state \in {"stopped", "failed"} THEN [k EXCEPT !.pc = "claiming"] ELSE Idle}
    [] op \in {"stop", "down", "delete"} /\ i # None -> {[k EXCEPT !.pc = "halting"]}

\* A call is made, and its first query answered. Slots have no identity: it
\* takes a free one.
Free == {c \in Slots : call[c] = Idle}
Begin(op, n) ==
  LET c == CHOOSE d \in Free : TRUE IN
  /\ Free # {}
  /\ begun < MaxCalls
  /\ begun' = begun + 1
  /\ \E k \in Opening(op, n, Found(n)) : call' = [call EXCEPT ![c] = k]
  /\ mixed' = IF InHand(n) THEN mixed \cup {n} ELSE mixed
  /\ upsMet' = (upsMet \/ (op = "up" /\ \E d \in Slots : call[d].op = "up"))
  /\ UNCHANGED <<table, engine, claimed, sweep, upsets, agreed>>

\* checkWorkload looks the row up again for a redeploy.
Check(c) ==
  /\ call[c].pc = "checking"
  /\ call' = [call EXCEPT ![c].pc = "weighing", ![c].beside = Found(call[c].name)]
  /\ UNCHANGED <<table, engine, claimed, sweep, begun, upsets, marks>>

\* checkWorkload: what is left of the quota. Then the registry is asked, and a
\* redeploy is held to the approval it has read.
Weigh(c) ==
  LET k == call[c] IN
  /\ k.pc = "weighing"
  /\ IF /\ Used(k.beside) + k.want.size <= Quota
        /\ k.op = "redeploy" => k.want.ref = k.limit.ref /\ k.want.size <= k.limit.size
     THEN At(c, "writing") ELSE Ends(c)
  /\ UNCHANGED <<table, engine, claimed, sweep, begun, upsets, marks>>

\* The write of an up or a redeploy.
Write(c) ==
  LET k == call[c] IN
  /\ k.pc = "writing"
  /\ IF k.id # None
     THEN /\ rows' = [rows EXCEPT ![k.id].ref = k.want.ref, ![k.id].size = k.want.size,
                                  ![k.id].approved = IF k.op = "up" THEN k.want ELSE @]
          /\ agreed' = IF k.op = "up" THEN [agreed EXCEPT ![k.id] = @ \cup {k.want}] ELSE agreed
          /\ At(c, "claiming")
     ELSE IF Found(k.name) # None
     THEN Ends(c) /\ UNCHANGED <<rows, agreed>>
     ELSE LET i == CHOOSE j \in Ids : rows[j] = None IN
            /\ \E j \in Ids : rows[j] = None
            /\ rows' = [rows EXCEPT ![i] = [name |-> k.name, state |-> "deploying", ref |-> k.want.ref,
                                            size |-> k.want.size, approved |-> k.want]]
            /\ agreed' = [agreed EXCEPT ![i] = @ \cup {k.want}]
            /\ call' = [call EXCEPT ![c].pc = "claiming", ![c].id = i]
  /\ UNCHANGED <<expired, engine, claimed, sweep, begun, upsets, mixed, upsMet>>

----------------------------------------------------------------------------
\* deploy: the agent's network, read and then claimed.
Claim(c) ==
  /\ call[c].pc = "claiming"
  /\ At(c, IF claimed THEN "marking" ELSE "inserting")
  /\ UNCHANGED <<table, engine, claimed, sweep, begun, upsets, marks>>

ClaimInsert(c) ==
  /\ call[c].pc = "inserting"
  /\ IF claimed THEN Ends(c) ELSE At(c, "marking")
  /\ claimed' = TRUE
  /\ UNCHANGED <<table, engine, sweep, begun, upsets, marks>>

\* Workloads switched off, no network left, a query that throws: deploy has
\* not reached its try, and the row stays as it was.
Refused(c) ==
  /\ call[c].pc \in {"claiming", "inserting", "marking"}
  /\ Upset
  /\ Ends(c)
  /\ UNCHANGED <<table, engine, claimed, sweep, begun, marks>>

Mark(c) ==
  LET i == call[c].id IN
  /\ call[c].pc = "marking"
  /\ IF Clash(i) THEN Ends(c) /\ UNCHANGED rows
                 ELSE At(c, "rendering") /\ Sets(i, "deploying")
  /\ UNCHANGED <<expired, engine, claimed, sweep, begun, upsets, marks>>

Concludes(c, s) == call' = [call EXCEPT ![c].pc = "recording", ![c].outcome = s]

\* Faulty variant: the approved digest, whatever image it is of.
ImageUnmatched(r) == [ref |-> r.ref, digest |-> r.approved.digest, size |-> r.size]

\* serviceImages: an image by its approved digest, if the approval is of this
\* reference.
Image(r) == IF r.approved.ref = r.ref
            THEN [ref |-> r.ref, digest |-> r.approved.digest, size |-> r.size]
            ELSE None

\* The row is read back, and writeFiles writes what Compose will run from. No
\* image, or a failure, is caught.
Render(c) ==
  LET i == call[c].id image == Image(rows[i]) IN
  /\ call[c].pc = "rendering"
  /\ \/ /\ image # None
        /\ files' = [files EXCEPT ![i] = image]
        /\ At(c, "launching")
        /\ Fine
     \/ /\ IF image = None THEN Fine ELSE Upset
        /\ Concludes(c, "failed")
        /\ UNCHANGED files
  /\ UNCHANGED <<table, docker, claimed, sweep, begun, marks>>

\* compose up, from the file as it is now. It may fail before or after it has
\* made containers.
Launch(c) ==
  LET i == call[c].id n == call[c].name f == files[i] IN
  /\ call[c].pc = "launching"
  /\ \/ /\ f # None
        /\ docker' = [docker EXCEPT ![n] = [up |-> TRUE, id |-> i, ref |-> f.ref,
                                            digest |-> f.digest, size |-> f.size]]
        /\ \/ Concludes(c, "running") /\ Fine
           \/ Concludes(c, "failed") /\ Upset
     \/ /\ IF f = None THEN Fine ELSE Upset
        /\ Concludes(c, "failed")
        /\ UNCHANGED docker
  /\ UNCHANGED <<table, files, claimed, sweep, begun, marks>>

\* The last write of a deploy, a stop or a down.
Record(c) ==
  LET i == call[c].id IN
  /\ call[c].pc = "recording"
  /\ Ends(c)
  /\ IF Clash(i) THEN UNCHANGED rows ELSE Sets(i, call[c].outcome)
  /\ UNCHANGED <<expired, engine, claimed, sweep, begun, upsets, marks>>

\* compose stop leaves containers, compose down does not.
Halted(n, op) == IF op = "stop" /\ docker[n] # None
                 THEN [docker EXCEPT ![n].up = FALSE]
                 ELSE [docker EXCEPT ![n] = None]

\* Faulty variant: a command that fails is only logged.
HaltCarriesOn(c) ==
  LET k == call[c] IN
  /\ k.pc = "halting"
  /\ docker' \in {docker, Halted(k.name, k.op)}
  /\ IF docker' = Halted(k.name, k.op) THEN Fine ELSE Upset
  /\ IF k.op = "delete" THEN At(c, "erasing") ELSE Concludes(c, "stopped")
  /\ UNCHANGED <<table, files, claimed, sweep, begun, marks>>

\* Faulty variant: a delete asks docker only for a stack recorded as running.
HaltByState(c) ==
  LET k == call[c] gone == k.op = "delete" /\ rows[k.id].state # "running" IN
  /\ k.pc = "halting"
  /\ gone \/ files[k.id] # None
  /\ docker' = IF gone THEN docker ELSE Halted(k.name, k.op)
  /\ IF k.op = "delete" THEN At(c, "erasing") ELSE Concludes(c, "stopped")
  /\ UNCHANGED <<table, files, claimed, sweep, begun, upsets, marks>>

\* docker is asked to stop or to remove. A command that fails, at once or with
\* its work done, ends the call; without a file only a delete goes on.
Halt(c) ==
  LET k == call[c] IN
  /\ k.pc = "halting"
  /\ \/ /\ files[k.id] # None
        /\ docker' = Halted(k.name, k.op)
        /\ IF k.op = "delete" THEN At(c, "erasing") ELSE Concludes(c, "stopped")
        /\ Fine
     \/ /\ files[k.id] # None
        /\ docker' \in {docker, Halted(k.name, k.op)}
        /\ Upset
        /\ Ends(c)
     \/ /\ files[k.id] = None
        /\ IF k.op = "delete" THEN At(c, "erasing") ELSE Ends(c)
        /\ Fine
        /\ UNCHANGED docker
  /\ UNCHANGED <<table, files, claimed, sweep, begun, marks>>

\* deleteWorkload removes the folder, then writes; the write may fail.
Erase(c) ==
  LET i == call[c].id IN
  /\ call[c].pc = "erasing"
  /\ files' = [files EXCEPT ![i] = None]
  /\ Ends(c)
  /\ \/ Sets(i, "deleted") /\ Fine
     \/ Upset /\ UNCHANGED rows
  /\ UNCHANGED <<expired, docker, claimed, sweep, begun, marks>>

CallNext ==
  \/ \E n \in Names : \E op \in Asked[n] : Begin(op, n)
  \/ \E c \in Slots :
       \/ Check(c) \/ Weigh(c) \/ Write(c)
       \/ Claim(c) \/ ClaimInsert(c) \/ Refused(c) \/ Mark(c)
       \/ Render(c) \/ Launch(c) \/ Record(c) \/ Halt(c) \/ Erase(c)

----------------------------------------------------------------------------
\* reconcileWorkloads, the loop of every two minutes.
Running == {i \in Ids : rows[i] # None /\ rows[i].state = "running"}

SweepList ==
  /\ sweep = Resting
  /\ Running # {}
  /\ sweep' = [Resting EXCEPT !.pc = "next", !.todo = Running, !.late = Running \cap expired]
  /\ mixed' = mixed \cup {rows[i].name : i \in {j \in Running : InHand(rows[j].name)}}
  /\ UNCHANGED <<table, engine, claimed, call, begun, upsets, agreed, upsMet>>

\* The loop without row i, and with it done if that was the last.
Without(i) == IF sweep.todo \subseteq {i} THEN Resting
              ELSE [Resting EXCEPT !.pc = "next", !.todo = sweep.todo \ {i},
                                   !.late = sweep.late \ {i}]
Holding(i, j, place, s) ==
  [sweep EXCEPT !.pc = place, !.todo = @ \ {i}, !.late = @ \ {i}, !.at = j, !.outcome = s]

\* Faulty variant: an empty listing is taken for a failed one.
SweepTakeBlind(i) ==
  LET j == Found(rows[i].name) IN
  /\ sweep.pc = "next"
  /\ i \in sweep.todo
  /\ sweep' = IF i \in sweep.late /\ j # None
              THEN Holding(i, j, "stopping", "stopped") ELSE Without(i)
  /\ UNCHANGED <<table, engine, claimed, call, begun, upsets, marks>>

\* A row of the list: expired, it is looked up by name to be stopped; else its
\* containers are listed, which throws without its file.
SweepTake(i) ==
  LET j == Found(rows[i].name) IN
  /\ sweep.pc = "next"
  /\ i \in sweep.todo
  /\ sweep' = IF i \in sweep.late
              THEN IF j # None THEN Holding(i, j, "stopping", "stopped") ELSE Without(i)
              ELSE IF files[i] # None /\ docker[rows[i].name] = None
              THEN Holding(i, i, "recording", "failed") ELSE Without(i)
  /\ UNCHANGED <<table, engine, claimed, call, begun, upsets, marks>>

\* A query or the listing throws.
SweepSkips(i) ==
  /\ sweep.pc = "next"
  /\ i \in sweep.todo
  /\ Upset
  /\ sweep' = Without(i)
  /\ UNCHANGED <<table, engine, claimed, call, begun, marks>>

SweepStop ==
  LET j == sweep.at n == rows[j].name IN
  /\ sweep.pc = "stopping"
  /\ \/ /\ files[j] # None
        /\ docker' = Halted(n, "stop")
        /\ sweep' = [sweep EXCEPT !.pc = "recording"]
        /\ Fine
     \/ /\ IF files[j] = None THEN Fine ELSE Upset
        /\ sweep' = Without(None)
        /\ UNCHANGED docker
  /\ UNCHANGED <<table, files, claimed, call, begun, marks>>

SweepRecord ==
  LET j == sweep.at IN
  /\ sweep.pc = "recording"
  /\ IF Clash(j) THEN UNCHANGED rows ELSE Sets(j, sweep.outcome)
  /\ sweep' = Without(None)
  /\ UNCHANGED <<expired, engine, claimed, call, begun, upsets, marks>>

SweepNext == SweepList \/ (\E i \in Ids : SweepTake(i) \/ SweepSkips(i)) \/ SweepStop \/ SweepRecord

----------------------------------------------------------------------------
\* Containers are removed by hand; a row passes its date; the host restarts.
Vanish(n) ==
  /\ docker[n] # None
  /\ Upset
  /\ docker' = [docker EXCEPT ![n] = None]
  /\ UNCHANGED <<table, files, claimed, call, sweep, begun, marks>>

Expire(i) ==
  /\ i \in (Live \cap Dated) \ expired
  /\ expired' = expired \cup {i}
  /\ UNCHANGED <<rows, engine, claimed, call, sweep, begun, upsets, marks>>

Crash ==
  /\ Upset
  /\ call' = [c \in Slots |-> Idle]
  /\ sweep' = Resting
  /\ UNCHANGED <<table, engine, claimed, begun, marks>>

Next == CallNext \/ SweepNext \/ (\E n \in Names : Vanish(n)) \/ (\E i \in Ids : Expire(i)) \/ Crash

Spec == Init /\ [][Next]_vars
FairSpec == Spec /\ WF_vars(SweepNext)

----------------------------------------------------------------------------
\* The image is one of an approval of row i, the size within one.
Agreed(f, i) == \E a, b \in agreed[i] : f.ref = a.ref /\ f.digest = a.digest /\ f.size <= b.size

\* What docker runs was approved for that very row: its image and digest by one
\* approval, its size by one, whatever ups, redeploys and starts overlapped
\* (serviceImages, writeFiles; the header of control.ts).
RunsApproved == \A n \in Names : docker[n] # None => Agreed(docker[n], docker[n].id)

\* A stack recorded as stopped does not run, after any failures and restarts,
\* unless two operations on it overlapped (stopWorkload, downWorkload, deploy).
StoppedIsDown == \A i \in Live :
  rows[i].state = "stopped" /\ rows[i].name \notin mixed =>
    docker[rows[i].name] = None \/ ~docker[rows[i].name].up

\* A name without a live row has no containers: whatever a deploy got to before
\* it failed or the host stopped, deleteWorkload knows from stack.yml.
DeletedIsGone == \A n \in Names \ mixed : Found(n) = None => docker[n] = None

\* All stacks together stay within the quota, unless two ups or two operations
\* on one name overlapped (checkWorkload).
QuotaKept == ~upsMet /\ mixed = {} => Used(None) <= Quota

\* The sweep keeps rows honest: one recorded as running whose containers are
\* gone, or that has expired, does not stay so (reconcile.ts's header).
Dishonest(i) ==
  /\ i \in Running
  /\ files[i] # None
  /\ i \in expired \/ docker[rows[i].name] = None
Honest == \A i \in Ids : Dishonest(i) ~> ~Dishonest(i)
============================================================================

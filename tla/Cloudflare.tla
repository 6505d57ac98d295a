----------------------------- MODULE Cloudflare -----------------------------
(* The Cloudflare route of published apps: each exposed app's Access        *)
(* application, DNS record and place in the tunnel's ingress, kept in step  *)
(* by a sweep and by calls at expose and unexpose. Changes run one at a     *)
(* time; each call of Cloudflare's API is a step, and may be refused, or    *)
(* take effect without an answer. The state file outlives the host.         *)
EXTENDS Naturals, Sequences, FiniteSets

CONSTANTS MaxExposes,   \* exposures: each makes a row with an id of its own
          Apps, AppOf,  \* the app of each; its name is its hostname
          Ids,          \* of objects: with too few, nothing more is made
          None,
          MaxUpsets     \* calls that fail, restarts, switch-offs, together

Routes == 1..MaxExposes

ASSUME AppsOfRoutes == AppOf \in [Routes -> Apps]
ASSUME Bounds == MaxExposes \in Nat /\ MaxUpsets \in Nat
ASSUME NoneApart == None \notin {"access", "dns"} \X Apps \X Ids

VARIABLES
    rows,       \* workload_app_routes of this kind
    on, up,     \* the owner's setting; status.state = "connected"
    settled,    \* offSettled
    known, rec, \* state file: apps, and the ids recorded for each
    pending,    \* state file: pendingDeletes
    put,        \* state file: the ingress last set (ingressHash)
    tunnel,     \* state file: tunnelId is there
    out,        \* Cloudflare: the objects there are
    ingress,    \* Cloudflare: the tunnel's hostnames, by Access application
    calls,      \* attach and detach about to be made
    chain,      \* what waits in serial(), the head of it running
    op,         \* how far the head is
    exposes, upsets,
    cut,        \* history: objects no record could be made of, or no more
    reused,     \* history: apps that took over an object due for deletion
    dash        \* history: apps whose Access application someone deleted
vars == <<rows, on, up, settled, known, rec, pending, put, tunnel, out, ingress,
          calls, chain, op, exposes, upsets, cut, reused, dash>>

file == <<known, rec, pending, put, tunnel>>
cloud == <<out, ingress>>
owners == <<rows, on, calls, exposes>>
host == <<up, settled>>
history == <<cut, reused, dash>>

Kinds == {"access", "dns"}
Objs == Kinds \X Apps \X Ids
Entries == Apps \X (Objs \cup {None})
Call == ({"attach", "detach"} \X Routes) \cup {<<"tick", None>>, <<"off", None>>}
Resting == [pc |-> "rest", r |-> None, held |-> {}, stale |-> {}, want |-> {},
            del |-> {}, conn |-> FALSE]
Running == chain # <<>>
Doing == Head(chain)[1]
NoIds == [k \in Kinds |-> None]

TypeOK ==
    /\ rows \subseteq Routes /\ known \subseteq Routes
    /\ {on, up, settled, tunnel} \subseteq BOOLEAN
    /\ rec \in [Routes -> [Kinds -> Objs \cup {None}]]
    /\ pending \subseteq Objs /\ put \in (SUBSET Entries) \cup {None}
    /\ out \subseteq Objs /\ ingress \subseteq Entries
    /\ calls \subseteq Call /\ chain \in Seq(Call)
    /\ op \in [pc : {"rest", "drop", "unroute", "ensure", "access", "unlist", "dns",
                     "purge"},
               r : Routes \cup {None}, held : SUBSET Objs, stale : SUBSET Routes,
               want : SUBSET Routes, del : SUBSET Objs, conn : BOOLEAN]
    /\ exposes \in 0..MaxExposes /\ upsets \in 0..MaxUpsets
    /\ cut \subseteq Objs /\ reused \subseteq Apps /\ dash \subseteq Apps

Init ==
    /\ rows = {} /\ on = TRUE /\ up = FALSE /\ settled = FALSE
    /\ known = {} /\ rec = [r \in Routes |-> NoIds]
    /\ pending = {} /\ put = None /\ tunnel = FALSE
    /\ out = {} /\ ingress = {}
    /\ calls = {} /\ chain = <<>> /\ op = Resting
    /\ exposes = 0 /\ upsets = 0
    /\ cut = {} /\ reused = {} /\ dash = {}

-----------------------------------------------------------------------------
(* Owners, agents, and the dashboard *)

Upset == upsets < MaxUpsets /\ upsets' = upsets + 1

\* exposeApp: the row; attach is called once the gateway has been told.
Expose(r) ==
    /\ up /\ r = exposes + 1
    /\ \A q \in rows : AppOf[q] # AppOf[r]
    /\ exposes' = r
    /\ rows' = rows \cup {r}
    /\ calls' = calls \cup {<<"attach", r>>}
    /\ UNCHANGED <<on, host, file, cloud, chain, op, upsets, history>>

\* unexposeApp, pruneRoutes, a move to the other route.
Unexpose(r) ==
    /\ r \in rows
    /\ rows' = rows \ {r}
    /\ calls' = calls \cup {<<"detach", r>>}
    /\ UNCHANGED <<on, exposes, host, file, cloud, chain, op, upsets, history>>

\* Admin: the setting, and the status looked at again.
Switch ==
    /\ IF on THEN Upset ELSE upsets' = upsets
    /\ on' = ~on
    /\ up' \in {FALSE, ~on}
    /\ UNCHANGED <<rows, calls, exposes, settled, file, cloud, chain, op, history>>

\* Someone deletes an app's Access application in Cloudflare's dashboard.
Dashboard(o) ==
    /\ o \in out /\ o[1] = "access" /\ Upset
    /\ out' = out \ {o}
    /\ dash' = dash \cup {o[2]}
    /\ UNCHANGED <<owners, host, file, ingress, chain, op, cut, reused>>

-----------------------------------------------------------------------------
(* Into the chain. What attach checks, it checks before it waits. *)

Enter(c) ==
    /\ c \in calls
    /\ calls' = calls \ {c}
    /\ chain' = IF c[1] = "detach" \/ (on /\ up /\ tunnel) THEN Append(chain, c)
                                                           ELSE chain
    /\ UNCHANGED <<rows, on, exposes, host, file, cloud, op, upsets, history>>

\* tickCloudflare: nothing keeps one from being called while another waits; a
\* second of a kind would only repeat the one in the chain.
Waits(kind) == \E i \in DOMAIN chain : chain[i][1] = kind
Tick ==
    /\ ~Waits(IF on THEN "tick" ELSE "off")
    /\ IF on
       THEN /\ chain' = Append(chain, <<"tick", None>>)
            /\ settled' = FALSE /\ up' = up
       ELSE /\ ~settled \/ known # {}
            /\ chain' = Append(chain, <<"off", None>>)
            /\ up' = FALSE /\ settled' = settled
    /\ UNCHANGED <<owners, file, cloud, op, upsets, history>>

-----------------------------------------------------------------------------
(* What Cloudflare is asked. Faulty variants come first: plausible bugs, used *)
(* to check that a property can fail, and nowhere else.                     *)

\* Faulty variants: every app with a record is routed; a refused delete is
\* forgotten; an application once recorded is never looked at again; nothing
\* is removed for rows deleted meanwhile.
ReadyAtOnce == {<<AppOf[r], rec[r]["access"]>> : r \in known}
Forgotten(o, done) == pending \ {o}
NeverOverdue(r) == FALSE
NoneStale == IF Doing = "off" THEN known ELSE {}

\* ingressFor: the apps that have both their objects, each for the audience of
\* its Access application.
Ready == {<<AppOf[r], rec[r]["access"]>> :
            r \in {q \in known : \A k \in Kinds : rec[q][k] # None}}

\* deleteOrQueue: pendingDeletes when the delete has been answered, or not.
Queued(o, done) == IF done THEN pending \ {o} ELSE pending \cup {o}

\* The policy changed or an hour is over: the application is written again.
Overdue(r) == rec[r]["access"] # None

\* Records whose row is gone; switched off, every record.
Stale == IF Doing = "off" THEN known ELSE known \ rows

\* A call is answered, refused, or takes effect and its answer is lost.
Answers == {"ok", "refused", "lost"}
Spend(a) == IF a = "ok" THEN upsets' = upsets ELSE Upset

\* Found by its name; or a new one, with an id nothing refers to.
Named(k, a) ==
    LET there == {o \in out : o[1] = k /\ o[2] = a}
        fresh == {o \in {<<k, a, i>> : i \in Ids} :
                    /\ o \notin out \cup pending \cup op.held \cup op.del \cup cut
                    /\ <<a, o>> \notin ingress \cup (IF put = None THEN {} ELSE put)
                    /\ \A r \in Routes : rec[r][k] # o}
    IN IF there = {} THEN fresh ELSE there

\* The head of the chain has ended.
Done == chain' = Tail(chain) /\ op' = Resting
Go(pc) == chain' = chain /\ op' = [op EXCEPT !.pc = pc]

\* applyIngress: only when it changed; its record when it was answered.
ApplyIngress(a) ==
    IF put = Ready
    THEN a = "ok" /\ UNCHANGED <<put, ingress, upsets>>
    ELSE /\ Spend(a)
         /\ ingress' = IF a = "refused" THEN ingress ELSE Ready
         /\ put' = IF a = "ok" THEN Ready ELSE put

\* deleteOrQueue
DeleteOrQueue(o, a) ==
    /\ Spend(a)
    /\ out' = IF a = "refused" THEN out ELSE out \ {o}
    /\ pending' = Queued(o, a = "ok")
    /\ cut' = IF a = "refused" THEN cut ELSE cut \ {o}

-----------------------------------------------------------------------------
(* The head of the chain, step by step *)

Begins(kinds) == Running /\ op.pc = "rest" /\ Doing \in kinds

\* reconcile and teardown: the rows, the records without one, and whether
\* Cloudflare can be talked to.
List(a) ==
    /\ Begins({"tick", "off"}) /\ a # "lost" /\ Spend(a)
    /\ op' = [op EXCEPT !.pc = "drop", !.stale = Stale,
                        !.conn = (Doing = "tick" /\ a = "ok"),
                        !.want = IF Doing = "off" THEN {} ELSE rows]
    /\ UNCHANGED <<owners, host, file, cloud, chain, history>>

\* The edge network, or docker, fails before that.
ListFails ==
    /\ Begins({"tick", "off"}) /\ Spend("refused")
    /\ Done
    /\ UNCHANGED <<owners, host, file, cloud, history>>

\* detach, if there is a record
Detach ==
    /\ Begins({"detach"})
    /\ LET mine == {Head(chain)[2]} \cap known IN
       IF mine = {} THEN Done
       ELSE chain' = chain /\ op' = [op EXCEPT !.pc = "drop", !.stale = mine]
    /\ UNCHANGED <<owners, host, file, cloud, upsets, history>>

\* removeApp: the record is forgotten first.
Drop(r) ==
    /\ op.pc = "drop" /\ op.held = {} /\ r \in op.stale
    /\ known' = known \ {r}
    /\ rec' = [rec EXCEPT ![r] = NoIds]
    /\ op' = [op EXCEPT !.pc = "unroute", !.stale = @ \ {r},
                        !.held = {rec[r][k] : k \in Kinds} \ {None}]
    /\ UNCHANGED <<owners, host, pending, put, tunnel, cloud, chain, upsets,
                   history>>

\* Then out of the ingress, unless the route is off; a refusal is only logged.
Unroute(a) ==
    /\ op.pc = "unroute"
    /\ Go("drop")
    /\ IF on /\ tunnel /\ Doing # "off"
       THEN ApplyIngress(a)
       ELSE a = "ok" /\ UNCHANGED <<put, ingress, upsets>>
    /\ UNCHANGED <<owners, host, known, rec, pending, tunnel, out, history>>

\* Then the DNS record, and last the Access application.
Delete(o, a) ==
    /\ op.pc = "drop" /\ o \in op.held
    /\ o[1] = "dns" \/ \A p \in op.held : p[1] # "dns"
    /\ DeleteOrQueue(o, a)
    /\ op' = [op EXCEPT !.held = @ \ {o}]
    /\ UNCHANGED <<owners, host, known, rec, put, tunnel, ingress, chain,
                   reused, dash>>

Removed == op.pc = "drop" /\ op.held = {} /\ op.stale = {}

\* The removals are through, and that was all.
Dropped ==
    /\ Removed /\ ~op.conn
    /\ Done
    /\ up' = IF Doing = "tick" THEN FALSE ELSE up
    /\ settled' = IF Doing = "off" THEN TRUE ELSE settled
    /\ UNCHANGED <<owners, file, cloud, upsets, history>>

\* A pass goes on: ensureSetup, and the connector.
Setup(a) ==
    /\ Removed /\ op.conn /\ a # "lost" /\ Spend(a)
    /\ IF a = "ok" THEN tunnel' = TRUE /\ Go("ensure") /\ up' = up
                   ELSE tunnel' \in {tunnel, TRUE} /\ Done /\ up' \in {up, FALSE}
    /\ UNCHANGED <<owners, settled, known, rec, pending, put, cloud, history>>

Takes(r) == \/ op.pc = "ensure" /\ r \in op.want
            \/ Begins({"attach"}) /\ r = Head(chain)[2]

\* ensureApp of one route: a record to begin with; then its application is
\* made, or written again when it is due; then its DNS record is made.
Ensure(r) ==
    /\ Takes(r)
    /\ known' = known \cup {r}
    /\ \E pc \in (IF rec[r]["access"] = None \/ Overdue(r) THEN {"access"} ELSE {})
              \cup (IF rec[r]["access"] = None THEN {}
                    ELSE IF rec[r]["dns"] = None THEN {"dns"} ELSE {"ensure"}) :
         op' = [op EXCEPT !.pc = pc, !.want = @ \ {r}, !.r = r]
    /\ UNCHANGED <<owners, host, rec, pending, put, tunnel, cloud, chain, upsets, history>>

\* The app did not work out: a pass takes the next, attach ends.
GiveUp == IF Doing = "tick" THEN Go("ensure") ELSE Done
GoOn(k) == Go(IF k = "access" /\ rec'[op.r]["dns"] = None THEN "dns" ELSE "ensure")

\* Found by its name, or made, and recorded; or not recorded.
Make(k, a) ==
    LET r == op.r
        o == CHOOSE x \in Named(k, AppOf[r]) : TRUE IN
    /\ op.pc = k /\ rec[r][k] = None /\ Named(k, AppOf[r]) # {}
    /\ Spend(a)
    /\ out' = IF a = "refused" THEN out ELSE out \cup {o}
    /\ rec' = IF a = "ok" THEN [rec EXCEPT ![r][k] = o] ELSE rec
    /\ cut' = CASE a = "ok" -> cut \ {o}
                [] a = "refused" -> cut
                [] a = "lost" -> IF o \in out THEN cut ELSE cut \cup {o}
    /\ reused' = IF a = "ok" /\ (o \in pending \/ \E q \in Routes : rec[q][k] = o)
                 THEN reused \cup {o[2]} ELSE reused
    /\ IF a = "ok" THEN GoOn(k) ELSE GiveUp
    /\ UNCHANGED <<owners, host, known, pending, put, tunnel, ingress, dash>>

\* It is recorded, and due to be written again; a 404 forgets it.
Rewrite(a) ==
    LET o == rec[op.r]["access"] IN
    /\ op.pc = "access" /\ o # None
    /\ Spend(a)
    /\ CASE a # "ok" -> GiveUp /\ rec' = rec
         [] a = "ok" /\ o \in out -> rec' = rec /\ GoOn("access")
         [] a = "ok" /\ o \notin out ->
              Go("unlist") /\ rec' = [rec EXCEPT ![op.r]["access"] = None]
    /\ UNCHANGED <<owners, host, known, pending, put, tunnel, cloud, history>>

\* Gone in Cloudflare: out of the ingress until it is made again.
Unlist(a) ==
    /\ op.pc = "unlist"
    /\ ApplyIngress(a)
    /\ GiveUp
    /\ UNCHANGED <<owners, host, known, rec, pending, tunnel, out, history>>

\* A pass has been through its routes, attach through its own: the ingress,
\* and a pass goes on to what is still to be deleted.
Route(a) ==
    /\ op.pc = "ensure" /\ op.want = {}
    /\ ApplyIngress(a)
    /\ IF Doing = "tick"
       THEN chain' = chain /\ op' = [op EXCEPT !.pc = "purge", !.del = pending]
       ELSE Done
    /\ UNCHANGED <<owners, host, known, rec, pending, tunnel, out, history>>

Purge(o, a) ==
    /\ op.pc = "purge" /\ o \in op.del
    /\ DeleteOrQueue(o, a)
    /\ op' = [op EXCEPT !.del = @ \ {o}]
    /\ UNCHANGED <<owners, host, known, rec, put, tunnel, ingress, chain,
                   reused, dash>>

\* The end of a pass, and the status.
Purged ==
    /\ op.pc = "purge" /\ op.del = {}
    /\ Done
    /\ up' = TRUE
    /\ UNCHANGED <<owners, settled, file, cloud, upsets, history>>

Step(a) ==
    \/ \E r \in Routes : Ensure(r) \/ Drop(r)
    \/ Detach \/ Dropped \/ Purged
    \/ List(a) \/ Setup(a) \/ Unroute(a) \/ Unlist(a) \/ Route(a) \/ Rewrite(a)
    \/ \E k \in Kinds : Make(k, a)
    \/ \E o \in Objs : Delete(o, a) \/ Purge(o, a)

\* The host stops: the chain and the status are gone, the file is not. Of an
\* app being removed no record is left.
Crash ==
    /\ Upset
    /\ calls' = {} /\ chain' = <<>> /\ op' = Resting
    /\ up' = FALSE /\ settled' = FALSE
    /\ cut' = cut \cup (op.held \cap out)
    /\ UNCHANGED <<rows, on, exposes, file, cloud, reused, dash>>

Next ==
    \/ \E r \in Routes : Expose(r) \/ Unexpose(r)
    \/ Switch \/ Tick \/ ListFails \/ Crash
    \/ \E o \in Objs : Dashboard(o)
    \/ \E c \in calls : Enter(c)
    \/ \E a \in Answers : Step(a)

Spec == Init /\ [][Next]_vars

\* The sweep is on an interval, calls are made, and end; an hour is over at
\* some pass of every app.
Fairness == /\ WF_vars(Tick) /\ WF_vars(\E c \in calls : Enter(c))
            /\ WF_vars(\E a \in Answers : Step(a))
            /\ \A r \in Routes : SF_vars(Ensure(r) /\ op'.pc = "access")
FairSpec == Spec /\ Fairness

-----------------------------------------------------------------------------
(* Properties *)

\* What there is in Cloudflare is in a record, queued, or about to be deleted,
\* unless the answer to its making, or the host at its removal, was lost.
Tracked == \A o \in out :
    \/ \E r \in known : rec[r][o[1]] = o
    \/ o \in pending \cup op.held \cup cut

\* "A hostname is never routed before Access guards it": when an app comes
\* into the ingress, its Access application is there. Excepted are apps that
\* took over an object queued for deletion, which is deleted all the same, and
\* the dashboard.
GuardedFirst ==
    [][\A e \in ingress' \ ingress : e[2] \in out' \/ e[1] \in reused \cup dash]_vars

Live(r) == /\ r \in known
           /\ \A k \in Kinds : rec[r][k] # None /\ rec[r][k] \in out
           /\ <<AppOf[r], rec[r]["access"]>> \in ingress

\* An app that stays exposed is served in the end, whatever was refused and
\* whoever deleted its application meanwhile.
Published == \A r \in Routes :
    <>[](on /\ r \in rows) => <>[](Live(r) \/ AppOf[r] \in reused \/ ingress # put)

\* An app that stays unexposed is out of the ingress, and its objects are gone.
\* (A put whose answer is lost is not recorded; it stays when the next wanted
\* is what is recorded.)
Withdrawn == \A b \in Apps :
    <>[](on /\ \A r \in rows : AppOf[r] # b)
        => <>[]((ingress # put \/ \A e \in ingress : e[1] # b) /\ \A o \in out \ cut : o[2] # b)
=============================================================================

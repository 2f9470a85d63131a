------------------------------ MODULE SyncTree ------------------------------
(***************************************************************************)
(* LoST-Sync between the nodes of a tree (federation/sync.py, with the     *)
(* startup and reload callbacks of app/lifecycle.py): the startup tasks    *)
(* that pull from the children and push upstream until they succeed, the   *)
(* single pushes after a GIS reload or an inbound push, and the handlers   *)
(* of /sync.  A node is its leader worker; a write of its coverage store   *)
(* is one step, which CoverageStore justifies.  One mapping per node       *)
(* stands for its civic and geodetic ones, which travel separately.        *)
(*                                                                         *)
(* HTTP requests and answers may be lost, may outlive the 10 s the sender  *)
(* waits, and overtake each other; nodes crash and start again.            *)
(***************************************************************************)
EXTENDS Naturals

CONSTANTS
  Nodes,
  Role,       \* node -> "lvf", "ams" (root AMS) or "fg" (Forest Guide)
  Upstream,   \* node -> its parent, for an AMS its Forest Guide, or Nobody
  Kids,       \* node -> LVF_SYNC_CHILDREN
  Nobody,
  Starting,   \* nodes that are down in the initial state
  MaxEdits, MaxReloads, MaxCrashes, MaxLosses   \* bounds on the environment

Peers(n) == Kids[n] \cup ({Upstream[n]} \ {Nobody})

ASSUME TreeAssumption ==
  /\ Nobody \notin Nodes /\ Starting \subseteq Nodes
  /\ Role \in [Nodes -> {"lvf", "ams", "fg"}]
  /\ Upstream \in [Nodes -> Nodes \cup {Nobody}]
  /\ Kids \in [Nodes -> SUBSET Nodes]
  /\ \A n \in Nodes :
       /\ n \notin Peers(n) /\ Upstream[n] \notin Kids[n]
       /\ Role[n] = "fg" => Upstream[n] = Nobody
  /\ {MaxEdits, MaxReloads, MaxCrashes, MaxLosses} \subseteq Nat

VARIABLES
  file,     \* node -> version of its GeoPackage, or of its AMS provisioning
  up,       \* node -> is it running?
  own,      \* node -> the coverage it declares, as its GIS state has it
  fresh,    \* node -> what a running GIS load has read, None when nothing yet
  reloading,  \* node -> is a GIS reload running?
  store,    \* node -> its coverage store: for every source, its entry
  job,      \* node -> peer -> its startup task
  pending,  \* node -> single pushes scheduled on its event loop
  net,      \* requests and answers on their way
  clock,    \* the last second in which GIS data were loaded
  loads,    \* history: what every GIS load read, with its stamp
  booted,   \* history: node -> the stamp of its coverage when it started
  edits, reloads, crashes, losses   \* counters for the bounds

gis == <<own, fresh, reloading>>
history == <<loads, booted>>
counters == <<edits, reloads, crashes, losses>>
vars == <<file, up, gis, store, job, pending, net, clock, history, counters>>

\* lastUpdated and what the coverage was derived from; 0 when there is none.
Coverage == [stamp : Nat, data : Nat]
None == [stamp |-> 0, data |-> 0]

Message ==
  [kind : {"push", "get", "mappings"}, from : Nodes, to : Nodes,
   body : [Nodes -> Coverage], awaited : BOOLEAN]

\* The node whose startup task sent the request, and the peer it asked.
Asker(m) == IF m.kind = "mappings" THEN m.to ELSE m.from
Asked(m) == IF m.kind = "mappings" THEN m.from ELSE m.to

TypeOK ==
  /\ file \in [Nodes -> Nat \ {0}]
  /\ up \in [Nodes -> BOOLEAN]
  /\ own \in [Nodes -> Coverage] /\ fresh \in [Nodes -> Coverage]
  /\ reloading \in [Nodes -> BOOLEAN]
  /\ store \in [Nodes -> [Nodes -> Coverage]]
  /\ job \in [Nodes -> [Nodes -> {"none", "ready", "sent"}]]
  /\ pending \in [Nodes -> Nat]
  /\ net \subseteq Message
  /\ clock \in Nat
  /\ loads \subseteq [node : Nodes, stamp : Nat, data : Nat]
  /\ booted \in [Nodes -> Nat]

\* What node n declares after loading version v in second t.
Declared(n, v, t) ==
  CASE Role[n] = "lvf" -> [stamp |-> t, data |-> v]
    [] Role[n] = "ams" -> [stamp |-> v, data |-> v]
    [] Role[n] = "fg" -> None

\* An AMS keeps its provisioning in its store, above anything else.
Provisioned(n, c) == IF Role[n] = "ams" THEN [store EXCEPT ![n][n] = c] ELSE store

Tasks(n) == [p \in Nodes |-> IF p \in Peers(n) THEN "ready" ELSE "none"]

Init ==
  /\ file = [n \in Nodes |-> 1]
  /\ up = [n \in Nodes |-> n \notin Starting]
  /\ own = [n \in Nodes |-> IF n \in Starting THEN None ELSE Declared(n, 1, 1)]
  /\ fresh = [n \in Nodes |-> None]
  /\ reloading = [n \in Nodes |-> FALSE]
  /\ store = [n \in Nodes |-> [s \in Nodes |->
                IF s = n /\ Role[n] = "ams" THEN own[n] ELSE None]]
  /\ job = [n \in Nodes |-> IF n \in Starting THEN [p \in Nodes |-> "none"] ELSE Tasks(n)]
  /\ pending = [n \in Nodes |-> 0]
  /\ net = {}
  /\ clock = 1
  /\ loads = {[node |-> n, stamp |-> 1, data |-> 1] : n \in Nodes \ Starting}
  /\ booted = [n \in Nodes |-> own[n].stamp]
  /\ edits = 0 /\ reloads = 0 /\ crashes = 0 /\ losses = 0

-----------------------------------------------------------------------------
(***************************************************************************)
(* GIS data and processes.                                                 *)
(***************************************************************************)
\* An operator replaces a GeoPackage, or the provisioning files of an AMS.
Edit(n) ==
  /\ Role[n] # "fg" /\ edits < MaxEdits
  /\ edits' = edits + 1
  /\ file' = [file EXCEPT ![n] = @ + 1]
  /\ UNCHANGED <<up, gis, store, job, pending, net, clock, history, reloads, crashes,
                 losses>>

\* lifespan_startup: load the data and the store, then _startup_sync.
Boot(n) ==
  /\ ~up[n]
  /\ LET c == Declared(n, file[n], clock + 1)
     IN /\ own' = [own EXCEPT ![n] = c]
        /\ store' = Provisioned(n, c)
        /\ booted' = [booted EXCEPT ![n] = c.stamp]
  /\ clock' = clock + 1
  /\ loads' = loads \cup {[node |-> n, stamp |-> clock + 1, data |-> file[n]]}
  /\ up' = [up EXCEPT ![n] = TRUE]
  /\ job' = [job EXCEPT ![n] = Tasks(n)]
  /\ UNCHANGED <<file, fresh, reloading, pending, net, counters>>

\* Nobody waits any more for what n asked.
Abandon(n) == {IF Asker(m) = n THEN [m EXCEPT !.awaited = FALSE] ELSE m : m \in net}

\* A crash, or lifespan_shutdown, which cancels the startup tasks.  The store
\* is on disk.
Crash(n) ==
  /\ up[n] /\ crashes < MaxCrashes
  /\ crashes' = crashes + 1
  /\ up' = [up EXCEPT ![n] = FALSE]
  /\ own' = [own EXCEPT ![n] = None]
  /\ fresh' = [fresh EXCEPT ![n] = None]
  /\ reloading' = [reloading EXCEPT ![n] = FALSE]
  /\ job' = [job EXCEPT ![n] = [p \in Nodes |-> "none"]]
  /\ pending' = [pending EXCEPT ![n] = 0]
  /\ net' = Abandon(n)
  /\ UNCHANGED <<file, store, clock, history, edits, reloads, losses>>

\* DatasetCache.watch has seen a new file.
StartReload(n) ==
  /\ up[n] /\ Role[n] # "fg" /\ ~reloading[n] /\ file[n] # own[n].data
  /\ reloads < MaxReloads
  /\ reloads' = reloads + 1
  /\ reloading' = [reloading EXCEPT ![n] = TRUE]
  /\ UNCHANGED <<file, up, own, fresh, store, job, pending, net, clock, history,
                 edits, crashes, losses>>

\* Fault: the stamp is published before the coverage it belongs to.
HalfLoaded_StampFirst(n, c) == [own[n] EXCEPT !.stamp = c.stamp]

\* populate_from_source publishes the coverage before its stamp.
HalfLoaded(n, c) == [own[n] EXCEPT !.data = c.data]

LoadData(n) ==
  /\ reloading[n] /\ fresh[n] = None
  /\ LET c == [stamp |-> clock + 1, data |-> file[n]]
     IN /\ fresh' = [fresh EXCEPT ![n] = c]
        /\ own' = IF Role[n] = "lvf" THEN [own EXCEPT ![n] = HalfLoaded(n, c)] ELSE own
        /\ loads' = loads \cup {[node |-> n, stamp |-> c.stamp, data |-> c.data]}
  /\ clock' = clock + 1
  /\ UNCHANGED <<file, up, reloading, store, job, pending, net, booted, counters>>

\* The stamp is set; _on_gpkg_reload_success reloads the provisioning of an AMS
\* and schedules one push.
FinishReload(n) ==
  /\ fresh[n] # None
  /\ LET c == IF Role[n] = "lvf" THEN fresh[n] ELSE Declared(n, file[n], 0)
     IN own' = [own EXCEPT ![n] = c] /\ store' = Provisioned(n, c)
  /\ fresh' = [fresh EXCEPT ![n] = None]
  /\ reloading' = [reloading EXCEPT ![n] = FALSE]
  /\ pending' = [pending EXCEPT ![n] = IF Upstream[n] = Nobody THEN @ ELSE @ + 1]
  /\ UNCHANGED <<file, up, job, net, clock, history, counters>>

\* The load raised, before or after it published the coverage.
FailReload(n) ==
  /\ reloading[n]
  /\ fresh' = [fresh EXCEPT ![n] = None]
  /\ reloading' = [reloading EXCEPT ![n] = FALSE]
  /\ UNCHANGED <<file, up, own, store, job, pending, net, clock, history, counters>>

-----------------------------------------------------------------------------
(***************************************************************************)
(* Outbound: one attempt of a startup task, or a single push.              *)
(***************************************************************************)
Nothing == [s \in Nodes |-> None]

\* Fault: an AMS pushes all it has been told.
Pushed_All(n) == IF Role[n] = "ams" THEN store[n] ELSE [Nothing EXCEPT ![n] = own[n]]

\* What a push carries: what the node itself declares, and nothing else.
Pushed(n) == [Nothing EXCEPT ![n] = IF Role[n] = "ams" THEN store[n][n] ELSE own[n]]

Send(kind, n, p, body, awaited) ==
  net' = net \cup {[kind |-> kind, from |-> n, to |-> p, body |-> body, awaited |-> awaited]}

\* An attempt during a reload, or with nothing to push, fails and is retried.
CanPush(n) == ~reloading[n] /\ Pushed(n) # Nothing

TryPull(n, p) ==
  /\ job[n][p] = "ready" /\ p \in Kids[n] /\ ~reloading[n]
  /\ job' = [job EXCEPT ![n][p] = "sent"]
  /\ Send("get", n, p, Nothing, TRUE)
  /\ UNCHANGED <<file, up, gis, store, pending, clock, history, counters>>

\* Fault: the task of an AMS waits for all startup tasks, itself included.
TryPush_AwaitsAll(n) ==
  LET p == Upstream[n] IN
  /\ p # Nobody /\ job[n][p] = "ready" /\ CanPush(n)
  /\ Role[n] = "ams" => \A c \in Peers(n) : job[n][c] = "none"
  /\ job' = [job EXCEPT ![n][p] = "sent"]
  /\ Send("push", n, p, Pushed(n), TRUE)
  /\ UNCHANGED <<file, up, gis, store, pending, clock, history, counters>>

\* On an AMS the task first waits for all pulls.
TryPush(n) ==
  LET p == Upstream[n] IN
  /\ p # Nobody /\ job[n][p] = "ready" /\ CanPush(n)
  /\ Role[n] = "ams" => \A c \in Kids[n] : job[n][c] = "none"
  /\ job' = [job EXCEPT ![n][p] = "sent"]
  /\ Send("push", n, p, Pushed(n), TRUE)
  /\ UNCHANGED <<file, up, gis, store, pending, clock, history, counters>>

\* A scheduled push runs once; during a reload it is skipped.
SinglePush(n) ==
  /\ pending[n] > 0
  /\ pending' = [pending EXCEPT ![n] = @ - 1]
  /\ IF CanPush(n) THEN Send("push", n, Upstream[n], Pushed(n), FALSE) ELSE UNCHANGED net
  /\ UNCHANGED <<file, up, gis, store, job, clock, history, counters>>

-----------------------------------------------------------------------------
(***************************************************************************)
(* Inbound.                                                                *)
(***************************************************************************)
\* Fault: an entry of the same second replaces the stored one.
Newer_OrEqual(c, stored) == c.data # 0 /\ (stored = None \/ c.stamp >= stored.stamp)

\* _upsert_child_coverage
Newer(c, stored) == c.data # 0 /\ (stored = None \/ c.stamp > stored.stamp)

Merged(n, body) ==
  [s \in Nodes |-> IF Newer(body[s], store[n][s]) /\ ~(Role[n] = "ams" /\ s = n)
                   THEN body[s] ELSE store[n][s]]

\* What _handle_get_mappings gives away; an AMS only its provisioning.
Offered(n) ==
  IF Role[n] = "ams" THEN [Nothing EXCEPT ![n] = store[n][n]]
  ELSE [s \in Nodes |-> IF s = n THEN own[n] ELSE store[n][s]]

Become(m, state) ==
  job' = IF m.awaited THEN [job EXCEPT ![Asker(m)][Asked(m)] = state] ELSE job

\* _handle_push_mappings: a changed store schedules one push upstream.
ReceivePush(m) ==
  /\ m \in net /\ m.kind = "push" /\ up[m.to]
  /\ store' = [store EXCEPT ![m.to] = Merged(m.to, m.body)]
  /\ pending' = [pending EXCEPT ![m.to] =
       IF store' # store /\ Upstream[m.to] # Nobody THEN @ + 1 ELSE @]
  /\ net' = net \ {m}
  /\ Become(m, "none")
  /\ UNCHANGED <<file, up, gis, clock, history, counters>>

ReceiveGet(m) ==
  /\ m \in net /\ m.kind = "get" /\ up[m.to]
  /\ net' = (net \ {m}) \cup
       {[kind |-> "mappings", from |-> m.to, to |-> m.from, body |-> Offered(m.to),
         awaited |-> m.awaited]}
  /\ UNCHANGED <<file, up, gis, store, job, pending, clock, history, counters>>

\* The end of _pull_from_child, unless it has given up on the answer.
ReceiveMappings(m) ==
  /\ m \in net /\ m.kind = "mappings"
  /\ net' = net \ {m}
  /\ store' = IF m.awaited THEN [store EXCEPT ![m.to] = Merged(m.to, m.body)] ELSE store
  /\ Become(m, "none")
  /\ UNCHANGED <<file, up, gis, pending, clock, history, counters>>

\* A peer that is down refuses the connection.
Refused(m) ==
  /\ m \in net /\ m.kind # "mappings" /\ ~up[m.to]
  /\ net' = net \ {m}
  /\ Become(m, "ready")
  /\ UNCHANGED <<file, up, gis, store, pending, clock, history, counters>>

\* A request or an answer is lost.
Lose(m) ==
  /\ m \in net /\ losses < MaxLosses
  /\ losses' = losses + 1
  /\ net' = net \ {m}
  /\ Become(m, "ready")
  /\ UNCHANGED <<file, up, gis, store, pending, clock, history, edits, reloads,
                 crashes>>

\* Fault: a push that timed out counts as done.
Timeout_Done(m) ==
  /\ m \in net /\ m.awaited /\ losses < MaxLosses
  /\ losses' = losses + 1
  /\ net' = (net \ {m}) \cup {[m EXCEPT !.awaited = FALSE]}
  /\ Become(m, "none")
  /\ UNCHANGED <<file, up, gis, store, pending, clock, history, edits, reloads,
                 crashes>>

\* The sender gives up after 10 s; the exchange may still go on without it.
Timeout(m) ==
  /\ m \in net /\ m.awaited /\ losses < MaxLosses
  /\ losses' = losses + 1
  /\ net' = (net \ {m}) \cup {[m EXCEPT !.awaited = FALSE]}
  /\ Become(m, "ready")
  /\ UNCHANGED <<file, up, gis, store, pending, clock, history, edits, reloads,
                 crashes>>

-----------------------------------------------------------------------------
Deliver(m) == ReceivePush(m) \/ ReceiveGet(m) \/ ReceiveMappings(m) \/ Refused(m)

NodeStep(n) ==
  \/ Boot(n) \/ LoadData(n) \/ FinishReload(n)
  \/ TryPush(n) \/ SinglePush(n) \/ \E p \in Nodes : TryPull(n, p)

Next ==
  \/ \E n \in Nodes :
       NodeStep(n) \/ Edit(n) \/ Crash(n) \/ StartReload(n) \/ FailReload(n)
  \/ \E m \in net : Deliver(m) \/ Lose(m) \/ Timeout(m)

Spec == Init /\ [][Next]_vars

\* Nodes are restarted, their event loops and threads run, and what is neither
\* lost nor timed out arrives.  Nothing forces an edit, a crash or a loss.
FairSpec ==
  /\ Spec
  /\ \A n \in Nodes :
       /\ WF_vars(Boot(n)) /\ WF_vars(LoadData(n) \/ FinishReload(n))
       /\ WF_vars(TryPush(n)) /\ WF_vars(SinglePush(n))
       /\ \A p \in Nodes : WF_vars(TryPull(n, p))
  /\ WF_vars(\E m \in net : Deliver(m))

-----------------------------------------------------------------------------
\* What a node has been told of another never goes back to an older stamp or
\* older data: not by pushes that overtake each other, by a pull that answers
\* late, by a mapping read in the middle of a GIS reload, or by a restart.
CoverageNeverGoesBack ==
  [][\A n, s \in Nodes :
       /\ store'[n][s].stamp >= store[n][s].stamp
       /\ store'[n][s].data >= store[n][s].data]_vars

\* An entry is at least as recent as its lastUpdated says: the GIS watcher
\* thread replaces coverage and stamp while the event loop reads them, and an
\* entry that were older than its stamp could not be corrected any more.
AsRecentAsStamped ==
  \A n, s \in Nodes :
    Role[s] = "lvf" /\ store[n][s] # None =>
      \E l \in loads :
        l.node = s /\ l.stamp = store[n][s].stamp /\ l.data <= store[n][s].data

\* When the startup push is over, the node upstream has the coverage this node
\* started with, or newer: an attempt that fails, times out or comes in the
\* middle of a reload is no success (_retry_sync_op).
PushedWhenDone ==
  \A n \in Nodes :
    LET p == Upstream[n] IN
    up[n] /\ p # Nobody /\ job[n][p] = "none" => store[p][n].stamp >= booted[n]

\* A Forest Guide whose neighbours are root AMSs learns what their operators
\* declared and nothing of their children (README.md:317).
OnlyDeclaredCoverage ==
  \A n, s \in Nodes :
    /\ Role[n] = "fg"
    /\ \A p \in Nodes : p \in Kids[n] \/ Upstream[p] = n => Role[p] = "ams"
    /\ store[n][s] # None
    => Role[s] = "ams"

\* Every startup task gets its turn and succeeds, unless its node crashes: the
\* pulls wait for nobody, the push of an AMS only for pulls.
StartupSyncCompletes ==
  \A x \in {y \in Nodes \X Nodes : y[2] \in Peers(y[1])} :
    job[x[1]][x[2]] = "ready" ~> job[x[1]][x[2]] = "none"
=============================================================================

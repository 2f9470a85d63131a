----------------------------- MODULE Lifecycle -----------------------------
(***************************************************************************)
(* The workers of one machine: how each starts and stops (server.py        *)
(* _lifespan, app/lifecycle.py), which of them leads (_acquire_leadership  *)
(* in federation/coverage.py) and runs the singletons - the SIP notifier   *)
(* (notify/sip_notifier.py) and the startup sync (federation/sync.py) -,   *)
(* and what a stop, a kill or a failed boot leaves behind.                 *)
(*                                                                         *)
(* One action is what a worker's event loop does between two awaits.       *)
(* Gunicorn's master has one slot for each of LVF_WORKERS and fills it     *)
(* again when its worker has ended; but when a worker's startup raises it  *)
(* halts, and the container is started again (docker-compose.yml:27).      *)
(***************************************************************************)
EXTENDS Naturals, FiniteSets

CONSTANTS
  Workers,      \* the slots, LVF_WORKERS of them
  SyncOps,      \* what the startup sync does: pulls from children, a push upstream
  None,
  Configs,      \* the environments looked at
  MaxFaults     \* bound: kills, stops and loads that raise

\* sip: LVF_ENABLE_SIP and a port; shedding: a rate limit or a concurrency cap.
Config == [role: {"standalone", "root_ams", "forest_guide"}, gpkg: BOOLEAN,
           sip: BOOLEAN, shedding: BOOLEAN, lockOpens: BOOLEAN]

ASSUME LifecycleAssumption ==
  /\ None \notin Workers
  /\ Configs \subseteq Config
  /\ MaxFaults \in Nat

VARIABLES
  config,   \* the environment: role, GeoPackage, SIP and load shedding, lock file
  halting,  \* the master ends, and all workers with it
  phase,    \* where each worker is in its life
  leads,    \* _is_leader
  lock,     \* who has locked .lvf_leader.lock
  start,    \* the task of SipWireAdapter.start
  bound,    \* the listeners each worker has
  core,     \* the SIP core runs
  sleeping, \* the task of _startup_sync has not been through its first second
  tasks,    \* _background_sync_tasks that are not done
  pushing,  \* single pushes upstream are under way, after a push or a reload
  watcher,  \* the load-shed recovery watcher
  early,    \* the stop came before the tasks of the startup were through
  faults    \* faults so far

vars == <<config, halting, pushing, phase, leads, lock, start, bound, core, sleeping,
          tasks, watcher, early, faults>>

Init ==
  /\ config \in Configs
  /\ halting = FALSE
  /\ phase = [w \in Workers |-> "off"]
  /\ leads = [w \in Workers |-> FALSE]
  /\ lock = None
  /\ start = [w \in Workers |-> "none"]
  /\ bound = [w \in Workers |-> {}]
  /\ core = [w \in Workers |-> FALSE]
  /\ sleeping = [w \in Workers |-> FALSE]
  /\ tasks = [w \in Workers |-> {}]
  /\ pushing = [w \in Workers |-> FALSE]
  /\ watcher = [w \in Workers |-> FALSE]
  /\ early = [w \in Workers |-> FALSE]
  /\ faults = 0

Go(w, from, to) == phase[w] = from /\ phase' = [phase EXCEPT ![w] = to]

Fault == faults < MaxFaults /\ faults' = faults + 1

\* A worker is ended by a fault, or by the master that halts.
Ordered == IF halting THEN UNCHANGED faults ELSE Fault

-----------------------------------------------------------------------------
(* Startup.                                                                *)

\* The master forks a worker, which starts its NTP client and awaits it.
Fork(w) ==
  /\ ~halting
  /\ Go(w, "off", "booting")
  /\ UNCHANGED <<config, halting, pushing, leads, lock, start, bound, core, sleeping, tasks, watcher,
                 early, faults>>

\* A lock file that cannot be opened makes every worker the leader.
Leads(w) == ~config.lockOpens \/ lock = None

\* Fault: the descriptor is closed once the lock has been had.
LockAfter_Closed(w) == lock

\* The descriptor is kept open for the life of the process.
LockAfter(w) == IF config.lockOpens /\ lock = None THEN w ELSE lock

\* The rest of the startup has no await: lifespan_startup, which may raise while
\* it loads the GIS data, _maybe_start_sip and start_recovery_watcher_if_needed.
Startup(w) ==
  /\ Go(w, "booting", "serving")
  /\ leads' = [leads EXCEPT ![w] = Leads(w)]
  /\ lock' = LockAfter(w)
  /\ sleeping' = [sleeping EXCEPT ![w] = Leads(w)]
  /\ start' = [start EXCEPT ![w] = IF Leads(w) /\ config.sip THEN "udp" ELSE "none"]
  /\ watcher' = [watcher EXCEPT ![w] = config.shedding]
  /\ UNCHANGED <<config, halting, pushing, bound, core, tasks, early, faults>>

\* Leadership comes before the load: a worker whose load raises had the lock.
\* Its server never starts, and the process ends with an exit code of its own.
LoadRaises(w) ==
  /\ config.role # "forest_guide" /\ config.gpkg
  /\ Go(w, "booting", "failed")
  /\ leads' = [leads EXCEPT ![w] = Leads(w)]
  /\ lock' = LockAfter(w)
  /\ Fault
  /\ UNCHANGED <<config, halting, pushing, start, bound, core, sleeping, tasks, watcher, early>>

Alive(w) == phase[w] \notin {"off", "booting", "failed"}

Taken(port) == \E v \in Workers : port \in bound[v]

\* SipWireAdapter.start up to its second await ...
BindUdp(w) ==
  /\ Alive(w) /\ start[w] = "udp"
  /\ IF Taken("udp")
       THEN start' = [start EXCEPT ![w] = "failed"] /\ UNCHANGED bound
       ELSE /\ start' = [start EXCEPT ![w] = "tcp"]
            /\ bound' = [bound EXCEPT ![w] = @ \cup {"udp"}]
  /\ UNCHANGED <<config, halting, pushing, phase, leads, lock, core, sleeping, tasks, watcher, early, faults>>

\* ... and from there: the TCP listener and the core, or neither.
BindTcp(w) ==
  /\ Alive(w) /\ start[w] = "tcp"
  /\ IF Taken("tcp")
       THEN /\ start' = [start EXCEPT ![w] = "failed"]
            /\ bound' = [bound EXCEPT ![w] = {}]
            /\ UNCHANGED core
       ELSE /\ start' = [start EXCEPT ![w] = "over"]
            /\ bound' = [bound EXCEPT ![w] = @ \cup {"tcp"}]
            /\ core' = [core EXCEPT ![w] = TRUE]
  /\ UNCHANGED <<config, halting, pushing, phase, leads, lock, sleeping, tasks, watcher, early, faults>>

\* _startup_sync after its first second: pulls and a push, each a task.
LaunchSync(w) ==
  /\ Alive(w) /\ sleeping[w]
  /\ sleeping' = [sleeping EXCEPT ![w] = FALSE]
  /\ tasks' = [tasks EXCEPT ![w] = SyncOps]
  /\ UNCHANGED <<config, halting, pushing, phase, leads, lock, start, bound, core, watcher, early, faults>>

\* A pull or push has succeeded (_retry_sync_op).
SyncDone(w) ==
  /\ Alive(w)
  /\ \E op \in tasks[w] : tasks' = [tasks EXCEPT ![w] = @ \ {op}]
  /\ UNCHANGED <<config, halting, pushing, phase, leads, lock, start, bound, core, sleeping, watcher,
                 early, faults>>

\* _handle_push_mappings and _maybe_schedule_repush, of any worker: an inbound
\* push while it serves, or a reload by its watcher thread while the loop runs.
Push(w) ==
  /\ config.role # "forest_guide"
  /\ phase[w] = "serving" \/ (Alive(w) /\ config.gpkg)
  /\ pushing' = [pushing EXCEPT ![w] = TRUE]
  /\ UNCHANGED <<config, halting, phase, leads, lock, start, bound, core, sleeping, tasks,
                 watcher, early, faults>>

PushDone(w) ==
  /\ pushing[w]
  /\ pushing' = [pushing EXCEPT ![w] = FALSE]
  /\ UNCHANGED <<config, halting, phase, leads, lock, start, bound, core, sleeping, tasks,
                 watcher, early, faults>>

-----------------------------------------------------------------------------
(* Shutdown: each step ends where the code awaits.                         *)

\* Fault: the lock is given up when the worker begins to stop.
Stop_Unlocks(w) ==
  /\ Go(w, "serving", "stop_core")
  /\ early' = [early EXCEPT ![w] = start[w] \in {"udp", "tcp"} \/ sleeping[w]]
  /\ lock' = IF lock = w THEN None ELSE lock
  /\ Ordered
  /\ UNCHANGED <<config, halting, pushing, leads, start, bound, core, sleeping, tasks, watcher>>

\* SIGTERM; the first await is that of SipNotifier.stop in the core.
Stop(w) ==
  /\ Go(w, "serving", "stop_core")
  /\ early' = [early EXCEPT ![w] = start[w] \in {"udp", "tcp"} \/ sleeping[w]]
  /\ Ordered
  /\ UNCHANGED <<config, halting, pushing, leads, lock, start, bound, core, sleeping, tasks, watcher>>

StopCore(w) ==
  /\ Go(w, "stop_core", "stop_tcp")
  /\ core' = [core EXCEPT ![w] = FALSE]
  /\ UNCHANGED <<config, halting, pushing, leads, lock, start, bound, sleeping, tasks, watcher, early, faults>>

\* Without a TCP server there is nothing to await before the UDP listener goes.
StopTcp(w) ==
  /\ IF "tcp" \in bound[w]
       THEN Go(w, "stop_tcp", "stop_udp") /\ bound' = [bound EXCEPT ![w] = @ \ {"tcp"}]
       ELSE Go(w, "stop_tcp", "stop_watcher") /\ bound' = [bound EXCEPT ![w] = {}]
  /\ UNCHANGED <<config, halting, pushing, leads, lock, start, core, sleeping, tasks, watcher, early, faults>>

StopUdp(w) ==
  /\ Go(w, "stop_udp", "stop_watcher")
  /\ bound' = [bound EXCEPT ![w] = @ \ {"udp"}]
  /\ UNCHANGED <<config, halting, pushing, leads, lock, start, core, sleeping, tasks, watcher, early, faults>>

StopWatcher(w) ==
  /\ Go(w, "stop_watcher", "stop_sync")
  /\ watcher' = [watcher EXCEPT ![w] = FALSE]
  /\ UNCHANGED <<config, halting, pushing, leads, lock, start, bound, core, sleeping, tasks, early, faults>>

\* Fault: the list is cleared before the tasks in it are looked up.
StopSync_ClearedFirst(w) ==
  /\ Go(w, "stop_sync", "stop_ntp")
  /\ UNCHANGED <<config, halting, pushing, leads, lock, start, bound, core, sleeping, tasks, watcher,
                 early, faults>>

\* lifespan_shutdown cancels what is in _background_sync_tasks by then: no single
\* push, and not the task of _startup_sync that is to fill the list.
StopSync(w) ==
  /\ Go(w, "stop_sync", "stop_ntp")
  /\ tasks' = [tasks EXCEPT ![w] = {}]
  /\ UNCHANGED <<config, halting, pushing, leads, lock, start, bound, core, sleeping, watcher, early, faults>>

StopNtp(w) ==
  /\ Go(w, "stop_ntp", "ended")
  /\ UNCHANGED <<config, halting, pushing, leads, lock, start, bound, core, sleeping, tasks, watcher,
                 early, faults>>

-----------------------------------------------------------------------------
(* The end of the process releases whatever it has.                        *)

\* Fault: the lock outlives the process that had it.
Release_KeepsLock(w) ==
  /\ phase' = [phase EXCEPT ![w] = "off"]
  /\ leads' = [leads EXCEPT ![w] = FALSE]
  /\ start' = [start EXCEPT ![w] = "none"]
  /\ bound' = [bound EXCEPT ![w] = {}]
  /\ core' = [core EXCEPT ![w] = FALSE]
  /\ sleeping' = [sleeping EXCEPT ![w] = FALSE]
  /\ tasks' = [tasks EXCEPT ![w] = {}]
  /\ pushing' = [pushing EXCEPT ![w] = FALSE]
  /\ watcher' = [watcher EXCEPT ![w] = FALSE]
  /\ early' = [early EXCEPT ![w] = FALSE]
  /\ UNCHANGED <<config, halting, pushing, lock>>

Release(w) ==
  /\ phase' = [phase EXCEPT ![w] = "off"]
  /\ leads' = [leads EXCEPT ![w] = FALSE]
  /\ lock' = IF lock = w THEN None ELSE lock
  /\ start' = [start EXCEPT ![w] = "none"]
  /\ bound' = [bound EXCEPT ![w] = {}]
  /\ core' = [core EXCEPT ![w] = FALSE]
  /\ sleeping' = [sleeping EXCEPT ![w] = FALSE]
  /\ tasks' = [tasks EXCEPT ![w] = {}]
  /\ pushing' = [pushing EXCEPT ![w] = FALSE]
  /\ watcher' = [watcher EXCEPT ![w] = FALSE]
  /\ early' = [early EXCEPT ![w] = FALSE]
  /\ UNCHANGED config

\* A worker that could not start makes the master halt (WORKER_BOOT_ERROR).
Exit(w) ==
  /\ phase[w] \in {"ended", "failed"}
  /\ halting' = (halting \/ phase[w] = "failed")
  /\ Release(w)
  /\ UNCHANGED faults

Kill(w) == phase[w] # "off" /\ Release(w) /\ Ordered /\ UNCHANGED halting

\* The container is started again, as its restart policy says.
Restart ==
  /\ halting /\ \A w \in Workers : phase[w] = "off"
  /\ halting' = FALSE
  /\ UNCHANGED <<config, pushing, phase, leads, lock, start, bound, core, sleeping, tasks,
                 watcher, early, faults>>

Run(w) ==
  \/ Fork(w) \/ Startup(w)
  \/ BindUdp(w) \/ BindTcp(w) \/ LaunchSync(w)
  \/ StopCore(w) \/ StopTcp(w) \/ StopUdp(w) \/ StopWatcher(w) \/ StopSync(w) \/ StopNtp(w)
  \/ halting /\ Stop(w)
  \/ Exit(w)

Next ==
  \/ \E w \in Workers :
       Run(w) \/ SyncDone(w) \/ Push(w) \/ PushDone(w) \/ LoadRaises(w) \/ Stop(w) \/ Kill(w)
  \/ Restart

Spec == Init /\ [][Next]_vars

\* Each worker's event loop goes on, the master fills an empty slot, stops its
\* workers when it halts, and docker starts the container again.
FairSpec == Spec /\ (\A w \in Workers : WF_vars(Run(w))) /\ WF_vars(Restart)

-----------------------------------------------------------------------------
(* Properties.                                                             *)

TypeOK ==
  /\ config \in Configs
  /\ phase \in [Workers -> {"off", "booting", "serving", "stop_core", "stop_tcp",
                           "stop_udp", "stop_watcher", "stop_sync", "stop_ntp", "ended", "failed"}]
  /\ halting \in BOOLEAN
  /\ pushing \in [Workers -> BOOLEAN]
  /\ leads \in [Workers -> BOOLEAN]
  /\ lock \in Workers \cup {None}
  /\ start \in [Workers -> {"none", "udp", "tcp", "over", "failed"}]
  /\ bound \in [Workers -> SUBSET {"udp", "tcp"}]
  /\ core \in [Workers -> BOOLEAN]
  /\ sleeping \in [Workers -> BOOLEAN]
  /\ tasks \in [Workers -> SUBSET SyncOps]
  /\ watcher \in [Workers -> BOOLEAN]
  /\ early \in [Workers -> BOOLEAN]
  /\ faults \in 0 .. MaxFaults

\* Something of the singletons is in this worker.
Engaged(w) ==
  leads[w] \/ start[w] # "none" \/ bound[w] # {} \/ core[w] \/ sleeping[w] \/ tasks[w] # {}

\* "Exactly one leader worker runs the singleton tasks - the SIP notifier and the
\* boot-time startup sync" (README.md:207): never two at a time, whichever stop,
\* are killed or come back.  It takes a lock file that can be opened: without
\* one every worker leads, and all but one find the SIP port taken.
OneLeader ==
  config.lockOpens => \A v, w \in Workers : Engaged(v) /\ Engaged(w) => v = w

\* A leader never finds its SIP port held by the leader before it, which has it
\* until its shutdown is well under way.
PortsFree == config.lockOpens => \A w \in Workers : start[w] # "failed"

\* Once the shutdown of a worker is over nothing that its startup began keeps the
\* event loop busy: no listener, no core, no watcher, no pull or push of the startup
\* sync.  It takes a stop that comes after SIP has started and the first second of
\* the startup sync is over; and single pushes, which nothing cancels, may go on.
QuietAfterStop ==
  \A w \in Workers :
    phase[w] = "ended" /\ ~early[w] =>
      bound[w] = {} /\ ~core[w] /\ ~watcher[w] /\ tasks[w] = {} /\ ~sleeping[w]

\* "Shutdown - cancel every long-running background asyncio task this lifespan
\* started, so the process exits promptly under gunicorn" (server.py:97): at the end
\* of it no task of the startup retries a pull or push and no SIP listener is there,
\* whenever the stop came.  Does not hold: see the run lifecycle_shutdown.
ShutdownEndsStartup ==
  \A w \in Workers : phase[w] = "ended" => tasks[w] = {} /\ bound[w] = {} /\ ~core[w]

\* When the faults have ended some worker leads for good, with the SIP notifier up
\* and the startup sync begun, though a leader's death tells the others nothing:
\* the worker that takes its slot finds the lock free.  After a load that raised this
\* rests on docker, which starts the machine's workers anew.
SingletonsRun ==
  config.lockOpens =>
    <>[](\E w \in Workers :
           /\ phase[w] = "serving" /\ leads[w] /\ ~sleeping[w]
           /\ config.sip => bound[w] = {"udp", "tcp"} /\ core[w])
=============================================================================

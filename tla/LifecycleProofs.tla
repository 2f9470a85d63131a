--------------------------- MODULE LifecycleProofs ---------------------------
(***************************************************************************)
(* Lifecycle's safety properties, for any number of workers, kills, stops  *)
(* and loads that raise.                                                   *)
(***************************************************************************)
EXTENDS Lifecycle, TLAPS

\* A worker that has not come through its startup has nothing, and one whose startup
\* raised may have the lead and nothing else.
BootInv ==
  \A w \in Workers :
    /\ phase[w] \in {"off", "booting"} => ~Engaged(w) /\ ~watcher[w]
    /\ phase[w] = "failed" => /\ start[w] = "none" /\ bound[w] = {} /\ ~core[w]
                             /\ ~sleeping[w] /\ tasks[w] = {} /\ ~watcher[w]

\* Only a leader has anything of the singletons, and a leader has the lock, which its
\* process keeps to its very end.
LeaderInv ==
  \A w \in Workers :
    /\ Engaged(w) => leads[w]
    /\ config.lockOpens /\ leads[w] => lock = w

\* A notifier that has still to bind a port does not have it already.
BindInv ==
  \A w \in Workers :
    /\ start[w] = "udp" => bound[w] = {}
    /\ start[w] = "tcp" => "tcp" \notin bound[w]

\* What each step of the shutdown has ended stays ended, as nothing is left that
\* could begin it again.
StopInv ==
  \A w \in Workers : ~early[w] =>
    /\ Alive(w) /\ phase[w] # "serving" => start[w] \notin {"udp", "tcp"} /\ ~sleeping[w]
    /\ phase[w] \in {"stop_tcp", "stop_udp", "stop_watcher", "stop_sync", "stop_ntp", "ended"} => ~core[w]
    /\ phase[w] \in {"stop_udp", "stop_watcher", "stop_sync", "stop_ntp", "ended"} => "tcp" \notin bound[w]
    /\ phase[w] \in {"stop_watcher", "stop_sync", "stop_ntp", "ended"} => bound[w] = {}
    /\ phase[w] \in {"stop_sync", "stop_ntp", "ended"} => ~watcher[w]
    /\ phase[w] \in {"stop_ntp", "ended"} => tasks[w] = {}

LifeInv == TypeOK /\ BootInv /\ LeaderInv /\ BindInv /\ StopInv /\ PortsFree

\* Two workers with something of the singletons would both have the one lock.
LEMMA EngagedIsOne ==
  ASSUME LifeInv, config.lockOpens, NEW v \in Workers, NEW w \in Workers,
         Engaged(v), Engaged(w)
  PROVE  v = w
BY DEF LifeInv, LeaderInv

LEMMA InitLife == Init => LifeInv
<1>. SUFFICES ASSUME Init PROVE LifeInv
  OBVIOUS
<1>1. TypeOK
  <2>1. 0 \in 0 .. MaxFaults
    BY LifecycleAssumption
  <2>2. /\ config \in Configs /\ halting \in BOOLEAN /\ lock \in Workers \cup {None}
        /\ phase \in [Workers -> {"off"}] /\ start \in [Workers -> {"none"}]
        /\ faults \in 0 .. MaxFaults
    BY <2>1 DEF Init
  <2>3. /\ leads \in [Workers -> BOOLEAN] /\ core \in [Workers -> BOOLEAN]
        /\ sleeping \in [Workers -> BOOLEAN] /\ pushing \in [Workers -> BOOLEAN]
        /\ watcher \in [Workers -> BOOLEAN] /\ early \in [Workers -> BOOLEAN]
        /\ bound \in [Workers -> SUBSET {"udp", "tcp"}]
        /\ tasks \in [Workers -> SUBSET SyncOps]
    BY DEF Init
  <2>. QED BY <2>2, <2>3 DEF TypeOK
<1>2. BootInv /\ LeaderInv /\ BindInv /\ StopInv /\ PortsFree
  BY DEF Init, BootInv, LeaderInv, BindInv, StopInv, PortsFree, Engaged, Alive
<1>. QED BY <1>1, <1>2 DEF LifeInv

\* From the fork to serving.
LEMMA StartPreserves ==
  ASSUME LifeInv, NEW w \in Workers, Fork(w) \/ Startup(w) \/ LoadRaises(w)
  PROVE  LifeInv'
<1>. USE DEF LifeInv
<1>1. CASE Fork(w)
  <2>1. phase[w] = "off" /\ phase' = [phase EXCEPT ![w] = "booting"] /\ ~Alive(w)
        /\ UNCHANGED <<config, halting, pushing, leads, lock, start, bound, core, sleeping, tasks, watcher, early, faults>>
    BY <1>1 DEF Fork, Go, Alive
  <2>2. TypeOK'
    BY <2>1 DEF TypeOK
  <2>3. BootInv' /\ LeaderInv' /\ BindInv' /\ PortsFree'
    BY <2>1 DEF TypeOK, BootInv, LeaderInv, BindInv, PortsFree, Engaged, Alive
  <2>4. StopInv'
    BY <2>1 DEF TypeOK, StopInv, Alive
  <2>5. QED
    BY <2>2, <2>3, <2>4
<1>2. CASE Startup(w)
  <2>1. /\ phase[w] = "booting" /\ phase' = [phase EXCEPT ![w] = "serving"] /\ ~Alive(w)
        /\ leads' = [leads EXCEPT ![w] = Leads(w)] /\ lock' = LockAfter(w)
        /\ sleeping' = [sleeping EXCEPT ![w] = Leads(w)]
        /\ start' = [start EXCEPT ![w] = IF Leads(w) /\ config.sip THEN "udp" ELSE "none"]
        /\ watcher' = [watcher EXCEPT ![w] = config.shedding]
        /\ UNCHANGED <<config, halting, pushing, bound, core, tasks, early, faults>>
    BY <1>2 DEF Startup, Go, Alive
  <2>2. ~leads[w] /\ start[w] = "none" /\ bound[w] = {} /\ ~core[w] /\ ~sleeping[w] /\ tasks[w] = {}
    BY <2>1 DEF BootInv, Engaged
  <2>3. config.shedding \in BOOLEAN /\ Leads(w) \in BOOLEAN /\ LockAfter(w) \in Workers \cup {None}
    BY LifecycleAssumption DEF TypeOK, Config, Leads, LockAfter
  <2>4. config.lockOpens /\ Leads(w) => lock' = w
    BY <2>1 DEF Leads, LockAfter
  <2>5. \A v \in Workers : v # w /\ config.lockOpens /\ leads[v] => lock' = v
    BY <2>1, LifecycleAssumption DEF LeaderInv, LockAfter
  <2>6. TypeOK'
    BY <2>1, <2>3 DEF TypeOK
  <2>7. BootInv'
    BY <2>1 DEF TypeOK, BootInv, Engaged, Alive
  <2>8. LeaderInv'
    BY <2>1, <2>2, <2>4, <2>5 DEF TypeOK, LeaderInv, Engaged
  <2>9. BindInv' /\ PortsFree'
    BY <2>1, <2>2 DEF TypeOK, BindInv, PortsFree
  <2>10. StopInv'
    BY <2>1 DEF TypeOK, StopInv, Alive
  <2>11. QED
    BY <2>6, <2>7, <2>8, <2>9, <2>10
<1>3. CASE LoadRaises(w)
  <2>1. /\ phase[w] = "booting" /\ phase' = [phase EXCEPT ![w] = "failed"] /\ ~Alive(w)
        /\ leads' = [leads EXCEPT ![w] = Leads(w)] /\ lock' = LockAfter(w)
        /\ faults < MaxFaults /\ faults' = faults + 1
        /\ UNCHANGED <<config, halting, pushing, start, bound, core, sleeping, tasks, watcher, early>>
    BY <1>3 DEF LoadRaises, Go, Alive, Fault
  <2>2. /\ ~leads[w] /\ start[w] = "none" /\ bound[w] = {} /\ ~core[w] /\ ~sleeping[w] /\ tasks[w] = {}
        /\ ~watcher[w]
    BY <2>1 DEF BootInv, Engaged
  <2>3. Leads(w) \in BOOLEAN /\ LockAfter(w) \in Workers \cup {None}
    BY LifecycleAssumption DEF TypeOK, Config, Leads, LockAfter
  <2>4. config.lockOpens /\ Leads(w) => lock' = w
    BY <2>1 DEF Leads, LockAfter
  <2>5. \A v \in Workers : v # w /\ config.lockOpens /\ leads[v] => lock' = v
    BY <2>1, LifecycleAssumption DEF LeaderInv, LockAfter
  <2>6. TypeOK'
    BY <2>1, <2>3, LifecycleAssumption DEF TypeOK
  <2>7. BootInv'
    BY <2>1 DEF TypeOK, BootInv, Engaged, Alive
  <2>8. LeaderInv'
    BY <2>1, <2>2, <2>4, <2>5 DEF TypeOK, LeaderInv, Engaged
  <2>9. BindInv' /\ PortsFree'
    BY <2>1 DEF BindInv, PortsFree
  <2>10. StopInv'
    BY <2>1, <2>2 DEF TypeOK, StopInv, Alive
  <2>11. QED
    BY <2>6, <2>7, <2>8, <2>9, <2>10
<1>4. QED
  BY <1>1, <1>2, <1>3

\* The tasks of a worker that is up: the notifier's start and the startup sync.
LEMMA TaskPreserves ==
  ASSUME LifeInv, NEW w \in Workers, BindUdp(w) \/ BindTcp(w) \/ LaunchSync(w) \/ SyncDone(w)
  PROVE  LifeInv'
<1>. USE DEF LifeInv
<1>1. CASE BindUdp(w) \/ BindTcp(w)
  <2>1. /\ Alive(w) /\ start[w] \in {"udp", "tcp"}
        /\ UNCHANGED <<config, halting, pushing, phase, leads, lock, sleeping, tasks, watcher, early, faults>>
    BY <1>1 DEF BindUdp, BindTcp
  <2>2. Engaged(w) /\ leads[w]
    BY <2>1 DEF Engaged, LeaderInv
  <2>3. config.lockOpens => ~Taken(start[w])
    <3>1. SUFFICES ASSUME config.lockOpens, NEW v \in Workers, start[w] \in bound[v] PROVE FALSE
      BY DEF Taken
    <3>2. v = w
      BY <2>2, <3>1, EngagedIsOne DEF Engaged
    <3>3. QED
      BY <2>1, <3>1, <3>2 DEF BindInv
  <2>4. /\ start' = [start EXCEPT ![w] = start'[w]] /\ start'[w] \in {"failed", "tcp", "over"}
        /\ bound' = [bound EXCEPT ![w] = bound'[w]] /\ bound'[w] \in SUBSET {"udp", "tcp"}
        /\ core' = [core EXCEPT ![w] = core'[w]] /\ core'[w] \in BOOLEAN
        /\ start'[w] = "tcp" => "tcp" \notin bound'[w]
        /\ start'[w] = "failed" => Taken(start[w])
    <3>1. CASE BindUdp(w)
      BY <3>1 DEF BindUdp, TypeOK, BindInv
    <3>2. CASE BindTcp(w)
      <4>1. CASE Taken("tcp")
        BY <3>2, <4>1 DEF BindTcp, TypeOK
      <4>2. CASE ~Taken("tcp")
        BY <3>2, <4>2 DEF BindTcp, TypeOK
      <4>3. QED
        BY <4>1, <4>2
    <3>3. QED
      BY <1>1, <3>1, <3>2
  <2>5. TypeOK'
    BY <2>1, <2>4 DEF TypeOK
  <2>6. BootInv'
    BY <2>1, <2>4 DEF TypeOK, BootInv, Engaged, Alive
  <2>7. LeaderInv'
    BY <2>1, <2>2, <2>4 DEF TypeOK, LeaderInv, Engaged
  <2>8. BindInv' /\ PortsFree'
    BY <2>1, <2>3, <2>4 DEF TypeOK, BindInv, PortsFree
  <2>9. StopInv'
    BY <2>1, <2>4 DEF TypeOK, StopInv, Alive
  <2>10. QED
    BY <2>5, <2>6, <2>7, <2>8, <2>9
<1>2. CASE LaunchSync(w) \/ SyncDone(w)
  <2>1. /\ Alive(w) /\ (sleeping[w] \/ tasks[w] # {})
        /\ UNCHANGED <<config, halting, pushing, phase, leads, lock, start, bound, core, watcher, early, faults>>
    BY <1>2 DEF LaunchSync, SyncDone
  <2>2. Engaged(w) /\ leads[w]
    BY <2>1 DEF Engaged, LeaderInv
  <2>3. /\ tasks' = [tasks EXCEPT ![w] = tasks'[w]] /\ tasks'[w] \in SUBSET SyncOps
        /\ sleeping' = [sleeping EXCEPT ![w] = sleeping'[w]] /\ sleeping'[w] \in BOOLEAN
        /\ sleeping'[w] => sleeping[w]
        /\ ~sleeping[w] => tasks'[w] \subseteq tasks[w]
    <3>1. CASE LaunchSync(w)
      BY <3>1 DEF LaunchSync, TypeOK
    <3>2. CASE SyncDone(w)
      BY <3>2 DEF SyncDone, TypeOK
    <3>3. QED
      BY <1>2, <3>1, <3>2
  <2>4. TypeOK'
    BY <2>1, <2>3 DEF TypeOK
  <2>5. BootInv'
    BY <2>1, <2>3 DEF TypeOK, BootInv, Engaged, Alive
  <2>6. LeaderInv'
    BY <2>1, <2>2, <2>3 DEF TypeOK, LeaderInv, Engaged
  <2>7. BindInv' /\ PortsFree'
    BY <2>1 DEF BindInv, PortsFree
  <2>8. StopInv'
    BY <2>1, <2>3 DEF TypeOK, StopInv, Alive
  <2>9. QED
    BY <2>4, <2>5, <2>6, <2>7, <2>8
<1>3. QED
  BY <1>1, <1>2

\* The shutdown, step by step.
LEMMA StopPreserves ==
  ASSUME LifeInv, NEW w \in Workers,
         \/ Stop(w) \/ StopCore(w) \/ StopTcp(w) \/ StopUdp(w)
         \/ StopWatcher(w) \/ StopSync(w) \/ StopNtp(w)
  PROVE  LifeInv'
<1>. USE DEF LifeInv
<1>1. /\ Alive(w) /\ phase' = [phase EXCEPT ![w] = phase'[w]]
      /\ phase'[w] \in {"stop_core", "stop_tcp", "stop_udp", "stop_watcher", "stop_sync",
                       "stop_ntp", "ended"}
      /\ UNCHANGED <<config, halting, pushing, leads, lock, start, sleeping>>
      /\ bound' = [bound EXCEPT ![w] = bound'[w]] /\ bound'[w] \subseteq bound[w]
      /\ core' = [core EXCEPT ![w] = core'[w]] /\ core'[w] \in BOOLEAN /\ (core'[w] => core[w])
      /\ tasks' = [tasks EXCEPT ![w] = tasks'[w]] /\ tasks'[w] \subseteq tasks[w]
      /\ watcher' = [watcher EXCEPT ![w] = watcher'[w]] /\ watcher'[w] \in BOOLEAN
      /\ early' = [early EXCEPT ![w] = early'[w]] /\ early'[w] \in BOOLEAN
      /\ faults' \in 0 .. MaxFaults
  <2>1. CASE Stop(w)
    BY <2>1, LifecycleAssumption DEF Stop, Go, Ordered, Fault, Alive, TypeOK
  <2>2. CASE StopCore(w) \/ StopTcp(w) \/ StopUdp(w)
    <3>1. CASE StopCore(w)
      BY <3>1 DEF StopCore, Go, Alive, TypeOK
    <3>2. CASE StopTcp(w)
      <4>1. CASE "tcp" \in bound[w]
        BY <3>2, <4>1 DEF StopTcp, Go, Alive, TypeOK
      <4>2. CASE "tcp" \notin bound[w]
        BY <3>2, <4>2 DEF StopTcp, Go, Alive, TypeOK
      <4>3. QED
        BY <4>1, <4>2
    <3>3. CASE StopUdp(w)
      BY <3>3 DEF StopUdp, Go, Alive, TypeOK
    <3>4. QED
      BY <2>2, <3>1, <3>2, <3>3
  <2>3. CASE StopWatcher(w) \/ StopSync(w) \/ StopNtp(w)
    BY <2>3 DEF StopWatcher, StopSync, StopNtp, Go, Alive, TypeOK
  <2>4. QED
    BY <2>1, <2>2, <2>3
<1>2. TypeOK'
  BY <1>1 DEF TypeOK
<1>3. BootInv'
  BY <1>1 DEF TypeOK, BootInv, Engaged, Alive
<1>4. LeaderInv'
  BY <1>1 DEF TypeOK, LeaderInv, Engaged
<1>5. BindInv' /\ PortsFree'
  BY <1>1 DEF TypeOK, BindInv, PortsFree
<1>6. StopInv'
  <2>1. CASE Stop(w)
    BY <2>1 DEF Stop, Go, StopInv, Alive, TypeOK
  <2>2. CASE StopCore(w)
    BY <2>2 DEF StopCore, Go, StopInv, Alive, TypeOK
  <2>3. CASE StopTcp(w)
    BY <2>3 DEF StopTcp, Go, StopInv, Alive, TypeOK
  <2>4. CASE StopUdp(w)
    BY <2>4 DEF StopUdp, Go, StopInv, Alive, TypeOK
  <2>5. CASE StopWatcher(w) \/ StopSync(w) \/ StopNtp(w)
    BY <2>5 DEF StopWatcher, StopSync, StopNtp, Go, StopInv, Alive, TypeOK
  <2>6. QED
    BY <2>1, <2>2, <2>3, <2>4, <2>5
<1>7. QED
  BY <1>2, <1>3, <1>4, <1>5, <1>6

\* The end of a process, of its own or by a kill.
LEMMA ReleasePreserves ==
  ASSUME LifeInv, NEW w \in Workers, Exit(w) \/ Kill(w)
  PROVE  LifeInv'
<1>. USE DEF LifeInv
<1>1. Release(w) /\ faults' \in 0 .. MaxFaults /\ halting' \in BOOLEAN
  <2>1. CASE Exit(w)
    BY <2>1 DEF Exit, TypeOK
  <2>2. CASE Kill(w)
    BY <2>2, LifecycleAssumption DEF Kill, Ordered, Fault, TypeOK
  <2>. QED BY <2>1, <2>2
<1>2. TypeOK'
  BY <1>1 DEF Release, TypeOK
<1>3. BootInv'
  BY <1>1 DEF Release, TypeOK, BootInv, Engaged, Alive
<1>4. LeaderInv'
  BY <1>1 DEF Release, TypeOK, LeaderInv, Engaged
<1>5. BindInv' /\ PortsFree'
  BY <1>1 DEF Release, TypeOK, BindInv, PortsFree
<1>6. StopInv'
  BY <1>1 DEF Release, TypeOK, StopInv, Alive
<1>7. QED
  BY <1>2, <1>3, <1>4, <1>5, <1>6

\* What is no worker's startup or shutdown: single pushes, and the container.
LEMMA RestPreserves ==
  ASSUME LifeInv, (\E w \in Workers : Push(w) \/ PushDone(w)) \/ Restart
  PROVE  LifeInv'
<1>1. /\ UNCHANGED <<config, phase, leads, lock, start, bound, core, sleeping, tasks, watcher,
                     early, faults>>
      /\ halting' \in BOOLEAN /\ pushing' \in [Workers -> BOOLEAN]
  BY DEF LifeInv, TypeOK, Push, PushDone, Restart
<1>2. TypeOK'
  BY <1>1 DEF LifeInv, TypeOK
<1>3. BootInv' /\ LeaderInv' /\ BindInv' /\ StopInv' /\ PortsFree'
  BY <1>1 DEF LifeInv, BootInv, LeaderInv, BindInv, StopInv, PortsFree, Engaged, Alive
<1>. QED BY <1>2, <1>3 DEF LifeInv

LEMMA StepLife == LifeInv /\ [Next]_vars => LifeInv'
<1>. SUFFICES ASSUME LifeInv, [Next]_vars PROVE LifeInv'
  OBVIOUS
<1>1. CASE UNCHANGED vars
  BY <1>1 DEF vars, LifeInv, TypeOK, BootInv, LeaderInv, BindInv, StopInv, PortsFree, Engaged, Alive
<1>2. ASSUME NEW w \in Workers,
             Run(w) \/ SyncDone(w) \/ LoadRaises(w) \/ Stop(w) \/ Kill(w)
      PROVE  LifeInv'
  BY <1>2, StartPreserves, TaskPreserves, StopPreserves, ReleasePreserves DEF Run
<1>3. QED
  BY <1>1, <1>2, RestPreserves DEF Next

\* For any number of workers and whatever ends them, each part of the invariant
\* holds: singletons belong to a leader, and what a shutdown ended stays ended
\* (app/lifecycle.py, server.py).
THEOREM LifeInvariant == Spec => []LifeInv
BY InitLife, StepLife, PTL DEF Spec

\* Never two workers with something of the singletons, over any stops, kills and
\* failed loads (coverage.py:244-262).
THEOREM LeadersExclude == Spec => []OneLeader
<1>1. LifeInv => OneLeader
  BY EngagedIsOne DEF OneLeader
<1>2. QED
  BY <1>1, LifeInvariant, PTL

\* A new leader's SIP notifier finds its ports free (sip_notifier.py:97-130).
THEOREM LeadersBind == Spec => []PortsFree
<1>1. LifeInv => PortsFree
  BY DEF LifeInv
<1>2. QED
  BY <1>1, LifeInvariant, PTL

\* A shutdown that did not overtake the startup leaves nothing of it behind
\* (server.py:95-124, lifecycle.py:291): single pushes aside, which are no part of
\* the startup and which no shutdown cancels.
THEOREM ShutdownIsClean == Spec => []QuietAfterStop
<1>1. LifeInv => QuietAfterStop
  BY DEF LifeInv, StopInv, Alive, QuietAfterStop
<1>2. QED
  BY <1>1, LifeInvariant, PTL
=============================================================================

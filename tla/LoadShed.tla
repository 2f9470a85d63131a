------------------------------ MODULE LoadShed ------------------------------
(***************************************************************************)
(* Load shedding of POST /lost in one worker (lost/load_shed.py) and the   *)
(* ServiceState it drives.  Every monotonic time the code keeps is held as *)
(* its age, capped just above the largest value it is compared with, so    *)
(* that time can pass for ever in a finite model.                          *)
(*                                                                         *)
(* A request is decided, counted and given its slot before the first await *)
(* of lost_endpoint, which reads the body; what it is refused for after    *)
(* that, its handler's answer or exception, or a cancellation at any await *)
(* ends it through the finally block.  The recovery watcher acts between   *)
(* two sleeps.  The only other thread is the GIS watcher: it just sets the *)
(* state to Normal, which is one action.                                   *)
(***************************************************************************)
EXTENDS Naturals, SequencesExt

CONSTANTS
  Sources,      \* client addresses
  None,         \* a time not set yet
  Unknown,      \* a request whose client address is not known
  RateLimit,    \* LVF_RATE_LIMIT_PER_SOURCE (0: no limit)
  Window,       \* LVF_RATE_LIMIT_WINDOW_SECONDS
  MaxRequests,  \* LVF_MAX_CONCURRENT_REQUESTS (0: no cap)
  PruneEvery, PruneSize,   \* _PRUNE_EVERY, _PRUNE_SIZE_THRESHOLD
  Trip, Clear, Grace,      \* the _SERVICE_STATE_ and _STREAK_ windows
  GisWatcher    \* does the GIS watcher thread reload while we serve?

ASSUME LoadShedAssumption ==
  /\ Unknown \notin Sources
  /\ None \notin Nat
  /\ {RateLimit, Window, MaxRequests, Grace, Clear} \subseteq Nat
  /\ {PruneEvery, PruneSize, Trip} \subseteq Nat \ {0}
  /\ GisWatcher \in BOOLEAN

VARIABLES
  requests,   \* per source: ages in its deque, oldest first (<<>>: not tracked)
  checks,     \* _check_count, modulo PruneEvery
  slots,      \* the semaphore's value
  reading,    \* requests with a slot that wait for their body
  handling,   \* requests with a slot whose handler runs
  streak,     \* age of _streak_start, None when there is no streak
  lastShed,   \* age of _last_shed_time
  service,    \* ServiceState
  admitted,   \* history: per source, ages of the requests let in by the limit
  shedAges    \* history: ages of the sheds

vars == <<requests, checks, slots, reading, handling, streak, lastShed,
          service, admitted, shedAges>>
rate == <<requests, checks, admitted>>
slot == <<slots, reading, handling>>
debounce == <<streak, lastShed, service, shedAges>>

Horizon == IF Clear > Trip THEN Clear ELSE Trip
Ages(top) == 0 .. top

TypeOK ==
  /\ requests \in [Sources -> Seq(Ages(Window + 1))]
  /\ admitted \in [Sources -> Seq(Ages(Window))]
  /\ checks \in 0 .. PruneEvery - 1
  /\ slots \in 0 .. MaxRequests
  /\ reading \in Nat /\ handling \in Nat
  /\ streak \in Ages(Horizon) \cup {None}
  /\ lastShed \in Ages(Horizon) \cup {None}
  /\ service \in {"Normal", "Partial"}
  /\ shedAges \subseteq Ages(Trip)

Init ==
  /\ requests = [s \in Sources |-> <<>>]
  /\ admitted = [s \in Sources |-> <<>>]
  /\ checks = 0
  /\ slots = MaxRequests /\ reading = 0 /\ handling = 0
  /\ streak = None /\ lastShed = None /\ service = "Normal" /\ shedAges = {}

-----------------------------------------------------------------------------
\* The ages from the first that is at most top on, oldest first.
Since(ages, top) ==
  LET i == SelectInSeq(ages, LAMBDA a : a <= top)
  IN IF i = 0 THEN <<>> ELSE SubSeq(ages, i, Len(ages))

\* What is left of a deque once its stale head has been popped.
Recent(ages) == Since(ages, Window)

\* Fault: one request too many.
WithinLimit_OffByOne(s) ==
  RateLimit = 0 \/ Len(Recent(requests[s])) <= RateLimit

\* _check_and_record lets a request in.
WithinLimit(s) == RateLimit = 0 \/ Len(Recent(requests[s])) < RateLimit

\* Fault: the size of the table is not looked at.
MustPrune_Never(table) == (checks + 1) % PruneEvery = 0

\* The whole table is trimmed every PruneEvery admissions, or when it is large.
MustPrune(table) ==
  \/ (checks + 1) % PruneEvery = 0
  \/ Cardinality({s \in Sources : table[s] # <<>>}) > PruneSize

\* Fault: a source is dropped when its oldest request is stale.
Prune_Drops(table) ==
  [s \in Sources |-> IF Recent(table[s]) = table[s] THEN table[s] ELSE <<>>]

Prune(table) == [s \in Sources |-> Recent(table[s])]

\* _check_and_record, for a request that is let in.
Record(s) ==
  IF s = Unknown \/ RateLimit = 0 THEN UNCHANGED rate
  ELSE LET table == [requests EXCEPT ![s] = Append(Recent(@), 0)]
       IN /\ requests' = IF MustPrune(table) THEN Prune(table) ELSE table
          /\ checks' = (checks + 1) % PruneEvery
          /\ admitted' = [admitted EXCEPT ![s] = Append(@, 0)]

\* Fault: a lull never breaks the streak.
StreakAfterShed_NoGrace == IF streak = None THEN 0 ELSE streak

\* _record_shed_for_service_state: a gap longer than the grace starts again.
StreakAfterShed ==
  IF streak = None \/ lastShed = None THEN 0
  ELSE IF lastShed > Grace THEN 0 ELSE streak

\* Fault: the trip is taken only at the moment the streak comes due.
Due_Once == StreakAfterShed = Trip

Due == StreakAfterShed >= Trip

\* Fault: declaring Partial forgets the time of the last shed.
Shed_Forgets ==
  /\ streak' = StreakAfterShed
  /\ lastShed' = IF Due THEN None ELSE 0
  /\ shedAges' = shedAges \cup {0}
  /\ service' = IF Due THEN "Partial" ELSE service

\* log_shed, for either reason.
Shed ==
  /\ streak' = StreakAfterShed
  /\ lastShed' = 0
  /\ shedAges' = shedAges \cup {0}
  /\ service' = IF Due THEN "Partial" ELSE service

-----------------------------------------------------------------------------
ShedByRate(s) ==
  /\ s # Unknown
  /\ ~WithinLimit(s)
  /\ requests' = [requests EXCEPT ![s] = Recent(@)]
  /\ Shed
  /\ UNCHANGED <<checks, admitted, slot>>

\* The rate limit has already counted the request when the cap sheds it.
ShedByCap(s) ==
  /\ s # Unknown => WithinLimit(s)
  /\ MaxRequests > 0 /\ slots = 0
  /\ Record(s)
  /\ Shed
  /\ UNCHANGED slot

Accept(s) ==
  /\ s # Unknown => WithinLimit(s)
  /\ MaxRequests > 0 => slots > 0
  /\ Record(s)
  /\ slots' = IF MaxRequests > 0 THEN slots - 1 ELSE slots
  /\ reading' = IF MaxRequests > 0 THEN reading + 1 ELSE reading
  /\ UNCHANGED <<handling, debounce>>

\* The body is in, is XML and keeps to the schema: its handler starts.
Dispatch ==
  /\ reading > 0
  /\ reading' = reading - 1
  /\ handling' = handling + 1
  /\ UNCHANGED <<slots, rate, debounce>>

\* The client goes away before its body is in, the request is cancelled, or the
\* body is refused: an early return, or an exception, through the finally block.
EndReading ==
  /\ reading > 0
  /\ reading' = reading - 1
  /\ slots' = slots + 1
  /\ UNCHANGED <<handling, rate, debounce>>

\* The handler answers, raises or is cancelled: the finally block.
EndHandling ==
  /\ handling > 0
  /\ handling' = handling - 1
  /\ slots' = slots + 1
  /\ UNCHANGED <<reading, rate, debounce>>

\* No shed of either kind for n seconds, after at least one.
Quiet(n) == lastShed # None /\ lastShed >= n

\* One round of _watch_service_state_recovery that finds shedding over.
Recover ==
  /\ Quiet(Clear)
  /\ service = "Partial"
  /\ streak' = None
  /\ service' = "Normal"
  /\ UNCHANGED <<rate, slot, lastShed, shedAges>>

\* _on_gpkg_reload_success, on the GIS watcher thread.
GisReloaded ==
  /\ GisWatcher
  /\ service # "Normal"
  /\ service' = "Normal"
  /\ UNCHANGED <<rate, slot, streak, lastShed, shedAges>>

Older(age, top) == IF age = None \/ age = top THEN age ELSE age + 1

Tick ==
  /\ requests' = [s \in Sources |->
                   [i \in DOMAIN requests[s] |-> Older(requests[s][i], Window + 1)]]
  /\ admitted' = [s \in Sources |->
                   Since([i \in DOMAIN admitted[s] |-> admitted[s][i] + 1], Window)]
  /\ streak' = Older(streak, Horizon)
  /\ lastShed' = Older(lastShed, Horizon)
  /\ shedAges' = {a + 1 : a \in shedAges} \cap Ages(Trip)
  /\ UNCHANGED <<checks, slot, service>>

Request(s) == ShedByRate(s) \/ ShedByCap(s) \/ Accept(s)

Next ==
  \/ \E s \in Sources \cup {Unknown} : Request(s)
  \/ Dispatch \/ EndReading \/ EndHandling
  \/ Recover \/ GisReloaded \/ Tick

Spec == Init /\ [][Next]_vars

\* Time passes and the watcher task wakes: nothing is assumed of the clients,
\* who may never send their body, of the handlers or of the GIS watcher.
FairSpec == Spec /\ WF_vars(Tick) /\ WF_vars(Recover)

-----------------------------------------------------------------------------
\* The sliding window: whatever was pruned when, a source never has more than
\* RateLimit requests let in within any period of Window seconds.
SlidingWindow == RateLimit > 0 => \A s \in Sources : Len(admitted[s]) <= RateLimit

\* The limiter remembers exactly the admissions of the last Window seconds: it
\* forgets none (a burst would slip through) and counts no rejected request
\* (a client that keeps retrying would never be let in again).
WindowExact ==
  RateLimit > 0 => \A s \in Sources : Recent(requests[s]) = admitted[s]

\* Ages are kept oldest first, so what has left the window is always a prefix.
OldestFirst(ages) == \A i, j \in DOMAIN ages : i < j => ages[i] >= ages[j]

\* The inductive invariant of the limiter: its types, that it remembers the
\* window, that time and new admissions keep the window a suffix, and that the
\* slots free and the slots of requests still read or handled make the cap.
LimiterInv ==
  /\ TypeOK
  /\ WindowExact
  /\ \A s \in Sources : OldestFirst(admitted[s])
  /\ slots + reading + handling = MaxRequests

\* The table of sources cannot grow without bound: an admission that finds it
\* over the threshold leaves only sources heard of within the window.
StaleSourcesDropped ==
  [][requests' # requests /\ checks' # checks =>
       LET tracked == {s \in Sources : requests'[s] # <<>>}
       IN Cardinality(tracked) > PruneSize
            => \A s \in tracked : Last(requests'[s]) <= Window]_vars

\* Partial is declared only after sustained shedding: over the last Trip
\* seconds no two consecutive sheds were more than the grace apart.
TripJustified ==
  [][service = "Normal" /\ service' = "Partial" =>
       \A a \in 0 .. Trip : \E b \in shedAges' : a <= b + Grace /\ b <= a]_vars

\* Sustained shedding shows: when the streak has come due, the state is Partial
\* soon, also after a GIS reload put it back to Normal, or shedding pauses.
SheddingShows ==
  (streak # None /\ streak >= Trip) ~> (service = "Partial" \/ Quiet(Grace + 1))

\* A worker does not stay Partial: once it has shed nothing for a while, it is
\* Normal in the end, unless it sheds again.
QuietIsNormal ==
  (service = "Partial" /\ shedAges = {}) ~> (service = "Normal" \/ shedAges # {})
=============================================================================

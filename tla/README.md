# A verification project for lvf-service

`src/` holds a LoST validation function (LVF) for NG9-1-1: a Python service that
answers whether a civic address is valid against GIS data, and that federates
with other LVFs, with a root AMS (a parent of a whole authority) and with a
Forest Guide. This directory holds TLA+ modules that model its parts, TLC
configurations that check them on small instances, and proofs that hold for
every instance. Source references below are relative to the repository root,
which is `src/` here (so `src/federation/coverage.py` is
`src/src/federation/coverage.py` in PROJECT.json).

How to run, from this directory: `tlc -workers 2 -config coverage_root.cfg MCCoverage`
for a run (PROJECT.json pairs modules and configurations),
`tlapm CoverageStoreProofs.tla` for a proof.

## 1. Inventory

One process is a gunicorn worker: an asyncio event loop that runs the request
handlers, plus threads (the GIS watcher, the coverage-file watcher). Several
workers on one machine share a port, the GeoPackage and one coverage file. The
first worker to lock a file is the leader and alone runs the singletons: LoST-Sync
tasks, the SIP notifier. Nodes on different machines talk LoST over HTTP.

| Component | State | Operations | What is hard | What makes it correct |
|---|---|---|---|---|
| Coverage store, `federation/coverage.py` | a JSON file shared by all workers; per worker a list in memory, a provisioning cache, the mtime last seen by a watcher | upsert, delete, provisioning, load, save, watch | processes and threads interleave; kills; failing reads and saves; coarse mtimes; stamps that cannot be ordered | writes are serial transactions; entries never go back in time; the operator's entries win; all workers converge to the file |
| LoST-Sync, `federation/sync.py`, callbacks in `app/lifecycle.py` | what the node declares, what it was told, its startup tasks, pushes in flight | push, pull, the `/sync` handlers, retries, pushes after reloads | requests lost, late and overtaking each other; restarts; GIS reloads in the middle | nobody's coverage goes back; a push that counts as done was stored; startup sync finishes; a Forest Guide learns only what it should |
| Load shedding, `lost/load_shed.py` and its use in `server.py` | per-source request times, slots, a streak of shed times, the service state | accept, shed by rate, shed by cap, read, handle, end, recover | pruning, boundary ages, a debounce driven from two sides, GIS callbacks on another thread | the limit is exact; the slots free and the slots in use make the cap; `Partial` is declared and ended exactly on sustained shedding and on quiet |
| Address validation, `validation/gate2.py`, `response_assembly.py`, `models.py`, attribute index in `gis/provisioning.py`, civic part of `lost/find_service.py` | one request's candidates, layer, position, element lists | filter by element, fall through from address points to centre lines, assemble | two layers, two sides, ranges, absent fields, an index that changes what is seen | the answer is the one the records give; each submitted element is reported once |
| findService and listServicesByLocation routing, `lost/find_service.py`, `lost/list_services_by_location.py`, `federation/recursion.py` | the path of `via` elements in a request; a slot per request that waits | answer, recurse or redirect to children, parent, Forest Guide | loops over several nodes, time-outs that leave work behind, failing and full peers | no query goes round; every query ends; an answer comes from the node that has the location and tells the way it went |
| GIS load and hot reload, `gis/provisioning.py`, `runtime_state.py` | layers, index, coverage, a JSON cache, stamp, a reloading flag | load from the source or the cache, watch, publish piece by piece, save | a thread replaces them while requests read them; layers that cannot be read; loads that raise; a file replaced while it is read | what is derived belongs to the records it lies beside, in memory and in the cache; a request reads one load; the newest file comes into force |
| SIP notifier adapter, `notify/sip_notifier.py` | wire contexts per Call-ID, TCP connections | SUBSCRIBE, NOTIFY, expiry, start, stop | two handlers for a Call-ID over an `await`; the adapter and the core disagree | a live subscription can be notified |
| Lifecycle, role, leader, `app/`, `server.py` | a lock file, listeners, background tasks of every worker | start, acquire leadership, bind, stop, exit | a stop that overtakes the startup; a leader that ends at any point | one leader; its successor finds the lock and the ports free; a shutdown ends what the startup began |
| listServices, the answer of listServicesByLocation, getServiceBoundary (a stub) | none | answer | none of their own | answers match the boundaries |
| Gates 0 and 1 (schema, required fields), wire formats, discrepancy reports, logging, metrics | none, or counters | functions of text | none of interleaving | outside TLA+'s use |
| `i3_fe_core` (external package, not in the repository) | SIP subscriptions, dataset cache, state notifiers | used through callbacks | | taken only as far as the code in `src/` uses it |

Interactions. A GIS reload (thread) replaces the layers, then tells the loop,
which reloads provisioning (a write to the coverage list), sets the service
state (load shedding reads and writes it too) and schedules a push (LoST-Sync).
An inbound push writes the coverage store and schedules a push upstream. A
findService request passes load shedding, then validates, and asks the coverage
lists for where else to send the query. The hazards that follow are listed, line
by line, in PROJECT.json.

## 2. Modules

A module per component, an abstract specification where a component promises
something that can be said without its mechanism, an `MC` module with the small
instance, and proofs in modules of their own.

| Module | Is | Uses |
|---|---|---|
| `CoverageList` | entries, their keys and stamps, and what one edit does to a list | |
| `CoverageLedger` | abstract: a list that changes by whole transactions, one at a time | `CoverageList` |
| `CoverageStore` | the store of one machine: workers, threads, file, lock | `CoverageList`; implements `CoverageLedger` |
| `CoverageStoreProofs` | proofs about the store, its lists and the ledger | |
| `LoadShed` | load shedding and the service state of one worker | |
| `LoadShedProofs` | proofs | |
| `AddressMatching` | records, comparisons, ranges, buckets, coverage regions: the functions both specifications below are built from | |
| `AddressVerdict` | abstract: the answer to a request, in one step, stated over sets of records | `AddressMatching` |
| `AddressValidation` | the filter as the code runs it | `AddressMatching`; implements `AddressVerdict` |
| `AddressProofs` | proofs | |
| `SyncTree` | a tree of nodes that exchange coverage | |
| `SyncTreeProofs` | proofs | |
| `SipAdapter` | the SIP adapter of the leader beside the core's subscriptions | |
| `SipAdapterProofs` | proofs | |
| `FederationRouting` | one query on its way through servers of every kind | |
| `FederationRoutingProofs` | proofs | |
| `GisReload` | the GIS data of a worker, replaced piece by piece beside a request | |
| `GisReloadProofs` | proofs | |
| `Lifecycle` | the workers of one machine: leadership, startup, shutdown | |
| `LifecycleProofs` | proofs | |
| `MCCoverage`, `MCLoadShed`, `MCAddress`, `MCSyncTree`, `MCSipAdapter`, `MCRouting`, `MCGisReload`, `MCLifecycle` | small instances | the above |

The definitions whose names hold an underscore after a model's name
(`Upsert_AnyStamp`, `Prune_Drops`, `Timeout_Done`, ...) are **seeded faults**:
what the definition that follows would be with a plausible bug in the code.
No specification uses them. PROJECT.json names, for every property of a passing
run, the fault that breaks it, so that no property passes by default.

### Coverage store

An entry is a record of `source`, `source_id` and a stamp; the payload is left
out because no decision reads it. Stamp 0 is a missing or unreadable
`lastUpdated`; `Zoneless` stamps have no UTC offset, and comparing one with a
zoned stamp raises `TypeError` (`_compare_timestamps` catches nothing), which
`Raises` says and `Abort` acts on.

State: `disk`, `mtime`, `tmp` and `lock` are the shared file, its time, its
temporary and the `flock`; `mem`, `prov` and `baseline` are per worker; `pc`,
`list`, `todo` are per thread (event loop, coverage watcher, GIS watcher).

| Action | Code (`federation/coverage.py` unless said) |
|---|---|
| `Boot`, `FinishBoot` | `lifespan_startup`: load the file, provisioning, the watcher's start |
| `Request`, `LockFile`, `ReadFile`, `Edit`, `Abort`, `Reassert`, `WriteTmp`, `Replace`, `SaveFails`, `Publish`, `Unlock` | the steps of `_with_coverage_write` and of what it calls, at the grain where another process or thread may come between |
| `WatchBegin`, `WatchPoll`, `WatchRead`, `PublishMerged` | `_watch_child_coverage`: baseline, poll, read and merge, publish |
| `GisReload`, `PublishMerged` | `_load_ams_provisioning`, called from the GIS watcher's callback |
| `Crash` | a killed worker; the kernel drops its lock, the file stays |

`CoverageLedger` is what the writers may rely on: begin with the content the
last transaction left, edit a private copy, commit or abandon. Its one
concession is `Lossy`: the code reads an unreadable file as the empty list even
under the lock, and the transaction that follows replaces the store by its own
edits. That is what the code does, so the ledger says so.

### LoST-Sync

`SyncTree` has one step per HTTP message and per piece of a GIS reload. A node
stands for its leader, and its store is written in one step, which
`CoverageStore` justifies. The mapping of a node carries a stamp and the version
of the data it was derived from: `Declared` for an LVF (derived from GIS, the
stamp is the second of the load) and an AMS (written by the operator).
`clock` advances with each load: two loads in one second are excluded (the code
ignores an entry whose stamp equals the stored one, so a second reload within a
second is not seen by the parent).

`populate_from_source` publishes the coverage first and the stamp last, in a
thread: `LoadData` and `FinishReload` are those two, with everything else in
between. `TryPull`, `TryPush` are one attempt of a startup task; `Refused`,
`Lose`, `Timeout` are how an exchange fails, and put the task back to "ready"
(`_retry_sync_op`), while a request that outlived its timeout is still on its way.
`SinglePush` is a push after a reload or an inbound push: tried once.
`Merged` is `_upsert_child_coverage` for each entry, `Offered` the answer to
getMappings, which for a root AMS is only its provisioning.

### Load shedding

Time is a tick; ages count ticks and stop at the horizon where nothing depends
on them any more. `requests` is the table of the rate limiter, `checks` the
counter that triggers its pruning, `slots` the semaphore, `reading` and `handling`
the requests that hold a slot while their body is read and checked, and while
their handler runs; `streak` and `lastShed` are the debounce, `service` the state
it sets. `ShedByRate`, `ShedByCap`, `Accept` are one request's path through
`check` and into `lost_endpoint`, in the code's order (a request the cap sheds has used its
rate budget). `Dispatch` starts the handler; `EndReading` is every way out before
that (a client that is gone, a body that is refused, an exception, a cancellation) and
`EndHandling` every way out of the handler, each through the `finally` that gives the
slot back. `Recover` is one poll of the watcher task,
`GisReloaded` the callback that sets Normal. `admitted` and `shedAges` are
histories, read by properties only.

### Address validation

A request is an address (elements present or not, a service), the time it is
asked for, the time the GIS data were loaded, and the records it is checked
against. `AddressValidation` runs as the code does: `Gate0`, `Gate1`, then
`BeginFilter` for the address points, element by element in hierarchy order
(`Keep`, `Stop`, `Exhausted`), falling through to the centre lines with their two
sides (`FallThrough`), and then `AssembleMatch`, `AssembleInvalid` or `NotFound`.
`AddressVerdict` states the same answer without a filter: an element is valid
when a record fits all elements up to it, invalid when no record does, and
unchecked after that. `FollowsVerdict` is the refinement.

The coverage is derived as `_derive_civic_coverage` does: each side of an active
centre line with its country, A1 and A2 gives an entry of its admin fields and of the first active
boundary around it, and entries with the same admin fields, boundary name and URN are
one (`EntryKey`, `provisioning.py:267-268`), whichever boundary they came from.
Among the most specific entries that cover an address a second one whose boundary is not
known to be the first's is a conflict, and a lookup that finds a conflict finds nothing.
`AddressValidation` makes the table (`Coverage`) and looks it up as the code does
(`LookupCoverage`, without the sub-fields up to the invalid one in `OutOfCoverage`);
`AddressVerdict` states outright, over the sides of centre lines, which boundary an
administrative area has (`RegionalBoundary`).

That one request reads one consistent snapshot of the data is assumed here; `GisReload`
says when it does (`OneLoad`).

Values are abstracted to what comparisons tell apart: equal or not, absent,
present and null, inside or outside a range, even or odd. Text normalisation is
left out.

### SIP adapter

The event loop runs a handler to its next `await`, so `Accept`, `Refuse` and
`Unsubscribe` are one step each: the wire context is installed, the core decides,
the answer is sent. A node has two event packages and the model one: `_wire` is keyed by
Call-ID alone (`sip_notifier.py:281`), so a Call-ID subscribed to both packages would
share a context between them, which is left out. The one handler that is interrupted is an unsubscribe over
TCP: it awaits its terminating NOTIFY (`closing`), and `FinishUnsubscribe` then
deletes the context of the Call-ID, whosever it has become. `BindUdp`, `BindTcp`
and `Stop` are the steps of `start` and `stop`, which the lifespan starts
independently. `outbox` is the queue of scheduled `_transmit` tasks: those over
UDP run in order, those over TCP wait for their connections and may be overtaken
or fail. `subs`, `reported` and `state` are the core's; `ChangeState`, `Report` and
`Expire` are what the adapter and its tests rely on, and are marked external.
`SubscribersReachable` states exactly when README.md:373-374 is not kept: a
SUBSCRIBE that is handled while an unsubscribe of its Call-ID awaits TCP (kept in
`overlapped`) ends up without a context, and its NOTIFYs are dropped with a
warning. Where a context sends to is left out; a refused SUBSCRIBE with another
Contact changes it for the live subscription.

### findService and listServicesByLocation through a federation

`FederationRouting` follows one query. `hops` is the list of the requests made
for it, one per server asked, each with the `via`s it carries, its state and the
reply it gave; the network (`net`) fixes the kind of each server, its parent,
which child its coverage store names for the location and which nodes hold GIS
data for it. `Decision` is the choice of a handler, in the code's order:
`GuideFinds`, `RoutingFinds`, `GisFinds` for findService, `RoutingLists`, `GisLists` for
listServicesByLocation. `Respond` answers, `Forward` hands the query on
(`NextVia` appends the server's own URI), `RefuseLoop` is `_has_loop`, `ShedLoop` and
`ShedBusy` are HTTP 429 because the query itself or somebody else holds the
slots, `Reloading` the answer during a GIS reload (of a node with GIS
data only, as only that has a GIS watcher, and to a query that has been parsed and
found valid: `lost_endpoint` answers the others before the handler that tests
`is_reloading`), `GiveUp` the 10 s time-out or
a broken connection - the server that was asked works on -, `Return` a reply
passed back, `Follow` the client behind a redirect.

`ReachesCoverer` is about networks that are `Sound`: the deployment the README
of the repository describes, in the form in which the code serves it. Two of its
conjuncts are there because the code differs from the documents: a node above
the one that has the location holds no GIS data (a parent that has them never
looks at its children), and listServicesByLocation needs the parent as a URL.
Both differences are in the list of divergences below. A Forest Guide that gets a
listServicesByLocation forwards it and uses its parent, where
README.md:281 speaks of redirects; that is in the model and the
network's `Sound` keeps the parent out.

### GIS load and reload

`GisReload` represents each piece of `provisioning.py`'s module state by the
version of the GeoPackage it was read from, and what is derived by what it was
derived from. A load is a list of assignments (`SourceSteps`, `CacheSteps`) that the
watcher thread, or the boot, works off one at a time: `ReadRecords`, `ClearBoundaries`,
`ReadBoundaries`, `Derive`, `Restore`, and the core's `Save` and `Over`. A layer that
cannot be read (`Miss`) is skipped with a warning, and what was there before
stays: for boundaries that is nothing, as they have been emptied. A layer may
also be read and hold no boundary for a service, or none at all: `Serves` says for
which services a layer of a version has active boundaries, and `Active` which of the held
layers count for a request (`gate0.py:33-36`, and the filter before
`MatchBoundaries`). `Replace` puts
a new file there at any time, also while the old one is read; `Raise` is a load
that ends in an exception. A findService is `Ask`, `Gate0`, `MatchBoundaries`,
`Candidates`, `Answer`: it looks at `is_reloading` once, and then reads the pieces
one after another, so a reload that begins in between can give it an
emptied boundary list or layers of two loads. `OneLoad` says what holds for a
request that no reload overtakes and no failed load preceded: it reads the layers of one
load, and hears `serviceNotImplemented` only if each layer of that load was
unreadable or has no active boundary for its service. Of a request that a reload
overtakes nothing is promised, by the code or here. After a failed
reload the new layers stand beside the old index, and whether requests are
refused then is the core's (`reloading'` is left open in `Raise`): the comment at
`app/lifecycle.py:166` ("service remains unavailable") depends on it. A hole a
layer left is saved to the cache under the new time, so it outlives restarts until
the file is replaced.

### Lifecycle

A step of `Lifecycle` is what an event loop does between two awaits. `Startup` is
all of `lifespan_startup`, `_maybe_start_sip` and the recovery watcher's start, which
have no await between them; leadership comes before the load, so `LoadRaises`
had the lock. `BindUdp`, `BindTcp` and `LaunchSync` are the tasks the startup
leaves running; `Stop`, `StopCore`, `StopTcp`, `StopUdp`, `StopWatcher`, `StopSync`,
`StopNtp` the shutdown, cut where it awaits; `Exit` and `Kill` the end of the process,
with which the kernel takes back the lock and the ports. A worker whose startup
raises ends with gunicorn's boot-error code: the master then halts (`halting`), ends
its other workers and fills no slot again, until `Restart`, the restart policy of
`docker-compose.yml:27`. `Push` and `PushDone` are the single pushes upstream after an
inbound push or a reload (`sync.py:319`, 325, 807, 818). They are in no list of
tasks and no shutdown cancels them, so they may go on after it; `QuietAfterStop`
speaks only of what the startup began. Two things the
properties name as exceptions are what the code does: a stop while SIP is
starting, or in the first second of the startup sync, leaves what these begin
afterwards running (`early`; `lifecycle_shutdown` is the run that shows it against the
comment at `server.py:97-99`), and a
lock file that cannot be opened makes every worker a leader (README.md:207 does
not say so).

## 3. Runs

Every run is exhaustive for its bounds, and takes seconds to two minutes with two
workers.

| Run | Expected | Shows |
|---|---|---|
| `coverage_plain` | pass | with two workers, three pushes of versions and a deletion, a stamp that cannot be ordered and kills: keys stay unique, an entry is never replaced by an older one, a worker whose memory is behind notices at its next poll, memories converge to the file, every write ends |
| `coverage_root` | pass | a root AMS boots two workers, with kills, failing reads and saves, coarse mtimes and a GIS reload: the writers' invariant, the ledger, and the operator's entries in memory while serving |
| `coverage_startup_gap` | violation | a write between a worker's load and its watcher's baseline is never noticed, against README.md:205-208 |
| `shed` | pass | two sources and one of unknown address, two per window, two slots, reloads at any time: the table is exactly the admissions of the window and bounded, slots free and slots in use make the cap; Partial only after sustained shedding, visible while it lasts, and Normal again in the end |
| `address_validation` | pass | 5688 requests over a county with boundaries that share a coverage entry and boundaries that conflict: the filter gives the verdict and reports each element once |
| `address_redirect` | violation | an address inside an entry for its town, with a wrong A4, is redirected to the parent, against .env.example:124-127 |
| `sync_forest` | pass | LVF, root AMS, Forest Guide: coverage never goes back, is as recent as stamped, is stored when a startup push is done; startup tasks finish; the Forest Guide learns only what the operator declared |
| `sip_subscribers` | pass | a UDP subscriber and one that mixes UDP and TCP: contexts and tags stay with live subscriptions except in the overlap named above; a UDP subscriber's last NOTIFY tells the latest state |
| `routing` | pass | all parents and coverage entries of three servers of several kinds, both operations, recursive or not, with a time-out, a lost reply or a busy server: no URI hands on a query twice, an answer's path is its way, a sound federation answers from the node that has the location, every query ends |
| `gis_reload` | pass | two versions, two boundary layers for two services, one of them empty in the second version, two unreadable layers, a load that raises, a crash: index and coverage belong to the layers held, the cache is whole, an undisturbed request reads one load and is refused for its service only if that load has no boundary for it, and the newest file comes into force |
| `lifecycle` | pass | two workers and four kills, stops or failed loads: one leader, whose ports are free, nothing of the startup left over by a shutdown that did not overtake it, and in the end a leader with SIP up and the startup sync begun |
| `lifecycle_shutdown` | violation | a stop that overtakes the startup leaves what the SIP and sync tasks begin afterwards, against the comment at server.py:97-99 |

A violating run checks one statement that the documentation makes and the code
does not keep; the finding in PROJECT.json quotes it. Others were met in
modelling and have no run of their own, as the model behaves as the code does and a
passing property leaves room for it:

- an entry of another source that shares a provisioned `source_id` survives
  beside the provisioned one (`coverage.py:180`, README.md:209-210);
- a GIS reload sets Normal in the middle of shedding (`lifecycle.py:155`), where
  README.md:384-386 and .env.example:73-75 say that `Partial` ends after quiet:
  `GisReloaded` does so, and `SheddingShows` says that `Partial` comes back while
  shedding goes on;
- a parent with a GeoPackage does not look at its children's coverage
  (`find_service.py:845`, .env.example:133-134 and README.md:316);
- a parent given by a DNS name is used unresolved by listServicesByLocation
  (`list_services_by_location.py:213`, README.md:273 and its own docstring at 25-26);
- a matched address that no boundary contains answers
  `locationValidationUnavailable` (`response_assembly.py:241-247`), where the
  docstring at 181-183 says not found;
- what a child pushes is not part of what its parent pushes on (`sync.py:453`,
  README.md:315-316);
- listServicesByLocation has no loop test: with no cap on requests a cycle of
  parents and coverage entries forwards it until somebody gives up.

### Bounds, and why they are enough

- *Coverage.* Two workers are enough for every race over one lock and one file,
  as each write is against "the others". Two or three writes allow an old,
  a new and an interfering version; two boots a restart in between. The deletion
  and the zoneless stamp are requests of their own. `MaxReloads` is 1: a
  reload reads only the worker's own memory and the provisioning files. The proofs need none of these bounds.
- *Load shedding.* Two sources against a limit of two per window of two ticks
  have one that is full and one with room, or one that has gone stale; a request of
  unknown address is only capped. `PruneEvery` 3 and `PruneSize` 1 prune by
  either trigger. The debounce's constants 4, 5 and 2 keep the order of the
  code's 15 s, 30 s and 2 s (grace < trip < clear), with room for gaps inside and
  outside the grace. The recovery watcher's 5 s poll is a step that is due once the
  quiet time is over and may be late. The proofs need none of these values.
- *Addresses.* The county of `MCAddress` has ranges that overlap, a side flagged
  invalid, both parities, absent fields in either layer, and records that begin
  and end; the requests ask for every combination of submitted elements that can
  be told apart. A hierarchy of ten elements has one for each rule of
  `gate2.py` (always unchecked, unchecked for a null, centre lines only).
- *Sync.* A chain of three has every kind of edge (child to AMS, AMS to Forest
  Guide), and a message overtaken on an edge needs one edge. One edit, one
  reload, one crash and one lost or late exchange happen in any order and all
  together. The Forest Guide is not asked to pull in `sync_forest`; the pull is
  exercised between the AMS and the LVF.

- *SIP.* Losing a context takes three SUBSCRIBEs of one Call-ID; the fourth is for
  the other subscriber, a refusal or a refresh. One state change and the
  notification at acceptance are two NOTIFYs that can be swapped.

- *Routing.* Three servers make every cycle a loop test can miss (back to the
  sender, over a third, over two servers that share a URI); the proofs are for
  any number. One slot lets a query fill a server by itself, one fault gives one
  server up while the rest of the way goes on, two redirects reach any of three
  nodes. `MCRouting` leaves out only a node that names itself and renamings of the kinds.
- *GIS reload.* Two boundary layers can be of two versions, two misses make a hole
  in both or a hole in two loads, one crash finds a cache saved before it; a third
  version would replace the second as the second does the first. Two services tell a
  layer that is empty or missing for one of them from a worker with no boundaries.
  There is one worker: a sibling's newer cache, which a reload would restore
  instead of reading the source, does not occur.
- *Lifecycle.* A worker that ends and one that must not lead before it has, in
  either slot, and their successors; four faults end two leaders in the middle of each
  other's shutdown, or halt the master while one stops. The safety
  properties are proved for any number of both.

Deadlock is checked in the load-shedding run. It is not where the system may
come to rest: a request has its answer, all pushes were made, a worker has been
killed and no boot is left within the bound.

### Fairness

- *Coverage*: every step of a running event loop and of a watcher thread is
  weakly fair, and the lock is given to a waiting writer in the end (strong
  fairness, as `flock` wakes its waiters); kills, requests and reloads are not
  fair.
- *Load shedding*: time passes and the watcher task polls. Nothing is assumed of
  arrivals, of clients that may never send their body, or of handlers.
- *Sync*: a node that is down is restarted (gunicorn and the supervisor do),
  its loop and threads run, messages that are neither lost nor timed out
  arrive. Nothing makes an edit, crash, loss or reload happen, and losses are
  bounded: under unbounded losses no retry need ever succeed.
- *Routing*: a server's event loop handles what it is sent and passes on what it is
  told; redirects need not be followed and faults need not happen.
- *GIS reload*: a process boots again, the watcher thread polls and its loads go
  on; replacing the file, misses, exceptions and crashes are not fair, and bounded.
- *Lifecycle*: each worker's loop goes on, gunicorn fills an empty slot, a halting
  master ends its workers and docker starts the container again; single pushes are not fair; kills,
  stops and failed loads are bounded, as nothing leads for good under
  unbounded ones. A startup that is replaced by a new one while the old one still
  runs (HUP) is left out: there the old leader keeps the lock, and no new worker
  tries again.
- *SIP*: the loop runs its tasks, and the core reports a state it has not
  reported. Binds, SUBSCRIBEs and expiry are not fair.

## 4. Proofs

Checked by TLAPS for every value of the constants under the named assumptions
(`StampsAssumption`, `CoverageAssumption`: stamps are naturals, provisioning
files are lists of entries, requests are lists of operations, a root AMS starts
with no worker up; `LoadShedAssumption`, `HierarchyAssumption`, `QueriesAssumption`, `GisReloadAssumption`,
`TreeAssumption`, `SipAssumption`, `FederationRoutingAssumption`,
`LifecycleAssumption` type the other modules' constants).
Nothing bounds the number of workers, nodes, sources, records, requests, restarts,
faults or the length of the lists. Every invariant and every action property that a
passing run checks is a theorem, and so are both refinements; where a
theorem has hypotheses of its own, they are given with it.

**Coverage store** (`CoverageStoreProofs`).

- `WriterInvariant`: `Spec => []WriterInv`. `WriterInv` is type correctness and
  three named parts, together inductive: `LockInv`, the event loops between
  taking and giving back the lock are exactly the lock's owner; `TmpInv`, the
  `.tmp` file about to be renamed is the list of the worker that renames it, and
  no edit of that list is left; `ProgramInv`, a write that has not begun to edit
  holds a whole request, and what a running worker has for provisioning came from
  a provisioning file. None is inductive alone: `TmpInv` needs that no other
  worker writes the shared `.tmp` between the owner's writing and renaming it,
  which is `LockInv`, and the types of `disk` after a rename need `TmpInv`.
- `TypeCorrect`: `Spec => []TypeOK`. Rests on lemmas about `CoverageList`: an edit
  of a list of entries gives a list of entries.
- `WritesAreSerial`: `Spec => SerialWrites`, that is, `CoverageStore` implements
  `CoverageLedger`. The mapping reads the ledger's transaction off the writer
  between "apply" and "replace". One step per action shows that it is a
  transaction's step or a stutter; the step that needs the invariant most is
  `Replace`: what becomes the file is the `.tmp`, and it is the transaction's
  copy only because `TmpInv` and `LockInv` hold. A kill in the middle is
  `Abandon`.
- `KeysStayApart`: `~RootAMS` implies `Spec => []KeysUnique`. Every list (file,
  memories, private copies) is unique in its keys (`KeysInv`), as upsert and
  delete keep that. On a root AMS it is not so: the operator's entries are put back
  by `source_id` alone (`coverage.py:182`), and after one push that deletes such an
  entry, adds one of another source with its `source_id` and adds it again, the list
  has its key twice. TLC shows it for that push; `coverage_root` has no such push, and
  does not check the keys.
- `StampsOnlyGrow`: `~RootAMS`, `~ReadErrors` and requests that do not add a key
  again after deleting it imply `Spec => StampsNeverRegress`. The
  argument is made on the ledger's transaction (`TxnInv`): for every key of the
  file its copy has an entry no older, or none, and then no upsert of that key left
  to do. A read error lets the next write replace the store, which is `Lossy` in the
  ledger; a request that deletes and adds again may bring an older entry,
  as two requests could.
- `ProvisioningStays`: for a root AMS whose one provisioning file names each
  `source_id` once, `Spec => []ProvisioningInMemory`, reading and saving errors,
  kills and restarts included. `ProvisionInv` says that a list that is being
  reasserted or merged holds an operator's entry already, or has its assertion still
  to do, and a later assertion never removes an earlier one.
- `StaleIsNoticed`: for workers that run from before the first write and a file
  without errors and with a fresh mtime at each save, `Spec =>
  []StaleMemoryIsNoticed`. `MemoryInv`: the writer publishes what it has just
  saved, and the watcher what the file held at the mtime it last saw. TLC
  gives a counterexample as soon as reads or saves may fail or two saves may share
  an mtime, and `coverage_startup_gap` is the one for a worker that starts later.

**Load shedding** (`LoadShedProofs`).

- `PartialIsEarned`: `Spec => TripJustified`. The inductive invariant's part of interest is
  `StreakInv`: as long as there is a streak, whatever moment one takes between its
  start and the last shed, a shed followed within the grace. Ages stop at a
  horizon, so nothing is claimed once the last shed is no longer placed; a shed
  then either starts a new streak, or the grace is longer than the trip window
  and the new shed alone covers it.
- `LimiterInvariant`, `NeverOverLimit`: `Spec => []LimiterInv`, `[]SlidingWindow`.
  The slots free, read on and handled on make the cap, over every way a request
  can end. `RateInv` adds that each deque is ordered by age. A deque that is ordered and
  filtered by age is a suffix, and the model says so (`Since`: the part of
  the deque from the first entry young enough), which is what `popleft` in a
  loop does; the lemmas are about that suffix.
- `TableIsBounded`: `Spec => StaleSourcesDropped`, for any pruning threshold.

**Address validation** (`AddressProofs`), for any hierarchy, any finite set of
address points and centre lines, and any request.

- `FilterInvariant`: `Spec => []FilterInv`. The part that makes it inductive is
  `ProgressInv`: after the element at a position, the candidates are exactly the
  records the verdict counts as fitting the elements so far (`FitSoFar`), and the
  lists are what the verdict says of those elements. For a centre line both sides
  are kept together until the house number tells them apart. That the
  element at which no candidate is left is the verdict's first element that no
  record fits is the step `Stop`.
- `AnswersFollowVerdict`: `Spec => FollowsVerdict`: the code's loop, its early stop,
  its fall-through and its assembly implement `AddressVerdict`, which knows
  no order of steps and makes no coverage table: that the first side of each key
  stands for all of them in a lookup is a step of its own. Each of the ways to an answer is matched with the case of
  `Verdict` it stands for.

**Routing** (`FederationRoutingProofs`).

- `RouteCorrect`, `NoQueryLoops`, `AnswersTellTheirWay`: `Spec => []RouteInv`,
  `[]ForwardedOnce`, `[]PathTellsRoute`. What each hop carries is the
  route from the client's request to it (`ViaTellsRoute`); a server that handed a
  query on was not in that route (`LoopFree`), and a server that waits, waits for
  the next hop of the same request (`WaitsForNext`), which a reply passed back
  needs. The network is any network, sound or not.
- `CovererReached`: for finitely many servers and `MaxFollows + 1 >=
  Cardinality(Nodes)`, `Spec => []ReachesCoverer`. `WayInv`, which holds as
  long as the query is undisturbed (`Undisturbed`): the hops are at different
  servers; before the way down to the coverer is met no earlier hop is above the
  last one, and afterwards none lies between the last one and the coverer; the reply
  of the last hop is that of every hop of its request that is done. So no loop is refused, no server is filled
  by the query itself, and n hops that do not end at the coverer leave another
  server, which bounds the redirects. What lies above a node (`Up`) is the least set
  closed under parents, so that no induction over the tree is needed.

**GIS reload** (`GisReloadProofs`), for any boundary layers, versions and history.

- `ReloadInvariant`: `Spec => []ReloadInv`. It has one implication for each piece of
  a load: what a step that is done has established while the load is not over, from
  the source (`SourceInv`) and from the cache (`RestoreInv`), where a worker is in
  its life and what the mtimes say of the cache (`ServingInv`), and what
  an undisturbed request has read (`RequestInv`). The cache is whole because a load
  from the source saves after it has derived, and a restore is refused for another stamp.
- `CoverageBelongsToRecords`, `RequestsReadOneLoad`:
  `Spec => []DerivedFromLayers`, `Spec => OneLoad`, from that invariant. `OneLoad` needs of a
  refused service that what the request looked at was the whole of a load: the layers
  held without an active boundary for it are that load's layers without one.

**SIP adapter** (`SipAdapterProofs`).

- `Reachable`: `Spec => []SubscribersReachable`, and `TagKept`: `Spec =>
  DialogKeepsTag`. The inductive invariant adds to the types that
  a live subscription that was not overlapped has a context with the tag its
  subscriber was told (`DialogInv`), and that an unsubscribe still waiting belongs
  to a Call-ID without a subscription or to an overlapped one (`ClosingInv`), which
  is what the deletion at its end needs.
  `TypeCorrect` gives the types of all variables: a task in the outbox always
  has a context and a state the element has had.

**LoST-Sync** (`SyncTreeProofs`).

- `NeverBack`, `StampsAreHonest`, `DoneIsPushed`, `ForestIsDeclared`: the four
  safety properties, from one inductive invariant of twelve parts. Those that carry the
  argument: everything a tree holds of a node, stored or on its way, is
  something that node once had (`HeldInv`), of two such things the one with the
  newer stamp has no older data (`OrderInv`), and a running LVF is ahead of all of
  them (`OwnInv`), also in the middle of a reload (`FreshInv`), which is where the order
  of the two assignments in `populate_from_source` matters. `NetInv` says what messages there can
  be, `SelfInv` and `JobInv` what a node keeps of itself and waits for.

**Lifecycle** (`LifecycleProofs`).

- `LeadersExclude`, `LeadersBind`, `ShutdownIsClean`: the three safety properties
  of the passing run; the last is about what the startup began (listeners, core,
  startup pulls and pushes, watcher), not about single pushes.
  Whatever belongs to the singletons belongs to a leader, and a
  leader has the lock until its process ends (`LeaderInv`); what a step of the
  shutdown has ended stays ended (`StopInv`), as only the startup's tasks could
  begin it again.

Only model-checked: liveness, as the prover has no rule for fairness
(`WorkersConverge`, `WritesEnd`, `SheddingShows`, `QuietIsNormal`, `StartupSyncCompletes`,
`EndsCurrent`, `ChainEnds`, `CatchesUp`, `SingletonsRun`). Where a proof would need
induction over a list or a tree, the definition it is about was given a form that needs none:
counts per element instead of lists in
the address filter, a suffix instead of a filtered deque, the least closed set
instead of a recursion over parents. That a set of indices has a
first one is the well-foundedness of the naturals.

## 5. Not modelled, and what is left

Not modelled: reading GeoPackages, schema validation (gates 0 and 1), XML and GML, the
discrepancy report, logging and metrics (functions of text, or I/O without a
decision); the innards of `i3_fe_core`, which is not in the repository. `listServices`
and the list of URNs in an answer are single passes over the boundaries;
`getServiceBoundary` is a stub that says notFound.

Within modelled components: lists of addresses inside an entry, backoff times,
fingerprints of getMappingsRequest (no node sends them), two loads in one
second, normalisation of text, provisioning files that turn invalid (the
cache of the last valid ones stays in force, `coverage.py:501`). A coverage entry deleted by a push is in
`CoverageStore`, not in `SyncTree`: no node sends such a push. A push after a reload is tried
once (`sync.py:817`); when it is lost the parent keeps the old coverage until the
next one, and no document promises more, so there is no liveness property about
it. Wire contexts of subscriptions that expired or were refused stay in the adapter
for ever (`sip_notifier.py:266`), as they do in `SipAdapter`. `SyncTree` leaves out
stamps given by several workers of one node and saves of the coverage file that fail
and are swallowed (`CoverageStore` has the failing saves), and its run has the Forest Guide
learn by pushes only. No write of `coverage_root` meets stamps that cannot be ordered, so `Abort` fires in
`coverage_plain` only. `StaleMemoryIsNoticed` excludes two saves within one mtime
(`CoarseMtime`). The GIS watcher's callback sets
the service state from its own thread; whether the core then notifies
subscribers in that thread, where `ensure_future` finds no event loop, cannot be
told from the repository.

Not promised, so not checked: what a findService that a reload overtakes is
told (`provisioning.py:142`), and the order of NOTIFYs over different TCP connections.

Left for later: a tree with two children under one parent, where entries of
siblings meet; several workers that share the cache of `GisReload`.

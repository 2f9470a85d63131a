----------------------------- MODULE GisReload -----------------------------
(***************************************************************************)
(* The GIS data of one worker (gis/provisioning.py): how a load at boot    *)
(* (app/lifecycle.py) or by the watcher thread replaces it piece by piece, *)
(* from the GeoPackage or from the JSON cache, while the event loop        *)
(* answers findService requests (lost/find_service.py) from those pieces.  *)
(*                                                                         *)
(* A piece is represented by the version of the GeoPackage it was read     *)
(* from (0: never loaded); what was derived is represented by what it was  *)
(* derived from.  DatasetCache of i3_fe_core is modelled from its use: it  *)
(* takes the modification time when a load begins, populates from the      *)
(* cache when that has the same time and from the source otherwise, saves  *)
(* after a load from the source, and raises is_reloading while it reloads. *)
(***************************************************************************)
EXTENDS Naturals, SequencesExt

CONSTANTS
  BoundaryLayers,  \* LVF_BOUNDARY_LAYERS, in order
  Services,        \* what is asked for: a service URN at a point of time
  Serves,          \* for a layer of a version: the services it has a boundary
                   \* for that is active then; none for an empty layer
  MaxVersion,      \* bound: versions of the GeoPackage
  MaxMisses,       \* bound: layers that cannot be read
  MaxFailures,     \* bound: loads that raise
  MaxCrashes,      \* bound: times the process ends
  None

\* The steps of a load that are not the reading of a boundary layer.
FixedSteps == {"ssap", "rcl", "clear", "boundaries", "geodetic", "civic", "ssapIndex",
               "rclIndex", "save", "over"}

ASSUME GisReloadAssumption ==
  /\ BoundaryLayers \in Seq(STRING) /\ IsInjective(BoundaryLayers)
  /\ ToSet(BoundaryLayers) \cap FixedSteps = {}
  /\ MaxVersion \in Nat \ {0}
  /\ Serves \in [ToSet(BoundaryLayers) \X (1 .. MaxVersion) -> SUBSET Services]
  /\ MaxMisses \in Nat /\ MaxFailures \in Nat /\ MaxCrashes \in Nat

VARIABLES
  file,       \* the version of the GeoPackage on disk (its mtime)
  cache,      \* the JSON cache, or None
  process,    \* "down", "booting" or "serving"
  live,       \* the module state of provisioning.py
  missed,     \* the layers the load behind live could not read
  load,       \* what the load under way reads and still has to do
  stamp,      \* the mtime of the load under way, or of the last one
  reloading,  \* DatasetCache.is_reloading
  failed,     \* the last load raised
  element,    \* the element state
  request,    \* a findService request and what it has read so far
  budget      \* misses, failures and crashes so far

vars == <<file, cache, process, live, missed, load, stamp, reloading, failed,
          element, request, budget>>

Versions == 0 .. MaxVersion
Layers == ToSet(BoundaryLayers)
Data == [ssap: Versions, rcl: Versions, boundaries: SUBSET (Layers \X Versions),
         geodetic: SUBSET (Layers \X Versions),
         civic: Versions \X SUBSET (Layers \X Versions),
         ssapIndex: Versions, rclIndex: Versions]
NoData == [ssap |-> 0, rcl |-> 0, boundaries |-> {}, geodetic |-> {},
           civic |-> <<0, {}>>, ssapIndex |-> 0, rclIndex |-> 0]
NoRequest == [at |-> "none", service |-> None, overlapped |-> FALSE,
              boundaries |-> {}, ssap |-> 0, rcl |-> 0]

\* Fault: the cache is saved before the civic coverage is derived.
SourceSteps_EarlySave ==
  <<"ssap", "rcl", "clear">> \o BoundaryLayers
  \o <<"geodetic", "save", "civic", "ssapIndex", "rclIndex", "over">>

\* The assignments of populate_from_source, in their order; "save" and "over"
\* are the core's.
SourceSteps == <<"ssap", "rcl", "clear">> \o BoundaryLayers
               \o <<"geodetic", "civic", "ssapIndex", "rclIndex", "save", "over">>

\* Fault: the index is not built after the cache is loaded.
CacheSteps_NoIndex == <<"ssap", "rcl", "boundaries", "civic", "geodetic", "over">>

\* Those of populate_from_cache, which ends with _build_attribute_index.
CacheSteps == <<"ssap", "rcl", "boundaries", "civic", "geodetic",
                "ssapIndex", "rclIndex", "over">>

Init ==
  /\ file = 1
  /\ cache = None
  /\ process = "down"
  /\ live = NoData
  /\ missed = {}
  /\ load = [from |-> "source", todo |-> <<>>]
  /\ stamp = 0
  /\ reloading = FALSE
  /\ failed = FALSE
  /\ element = "Normal"
  /\ request = NoRequest
  /\ budget = [misses |-> 0, failures |-> 0, crashes |-> 0]

-----------------------------------------------------------------------------
(* Loads.                                                                  *)

Begin ==
  /\ stamp' = file
  /\ failed' = FALSE
  /\ IF cache # None /\ cache.stamp = file
       THEN load' = [from |-> "cache", todo |-> CacheSteps] /\ missed' = cache.missed
       ELSE load' = [from |-> "source", todo |-> SourceSteps] /\ missed' = {}

\* lifespan_startup: nothing is served before the load is over.
Boot ==
  /\ process = "down"
  /\ process' = "booting"
  /\ live' = NoData
  /\ element' = "Normal"
  /\ reloading' = FALSE
  /\ Begin
  /\ UNCHANGED <<file, cache, request, budget>>

\* The watcher finds another modification time than the one it loaded.
Reload ==
  /\ process = "serving" /\ load.todo = <<>> /\ stamp # file
  /\ reloading' = TRUE
  /\ request' = [request EXCEPT !.overlapped = (request.at # "none")]
  /\ Begin
  /\ UNCHANGED <<file, cache, process, live, element, budget>>

Step(name) ==
  /\ load.todo # <<>> /\ Head(load.todo) = name
  /\ load' = [load EXCEPT !.todo = Tail(@)]
  /\ UNCHANGED <<file, process, stamp, failed, request>>

Put(piece, value) == live' = [live EXCEPT ![piece] = value]

Miss(layer) ==
  /\ budget.misses < MaxMisses
  /\ budget' = [budget EXCEPT !.misses = @ + 1]
  /\ missed' = missed \cup {layer}

\* Address points and centre lines; a layer that cannot be read is skipped with
\* a warning, and what was read before stays.
ReadRecords(layer) ==
  /\ load.from = "source" /\ Step(layer)
  /\ \/ Put(layer, file) /\ UNCHANGED <<missed, budget>>
     \/ Miss(layer) /\ UNCHANGED live
  /\ UNCHANGED <<cache, reloading, element>>

ClearBoundaries ==
  /\ Step("clear")
  /\ Put("boundaries", {})
  /\ UNCHANGED <<cache, missed, reloading, element, budget>>

\* row_to_boundary raises for a record with no NGUID: its layer is skipped too.
ReadBoundaries(layer) ==
  /\ Step(layer)
  /\ \/ /\ Put("boundaries", live.boundaries \cup {<<layer, file>>})
        /\ UNCHANGED <<missed, budget>>
     \/ Miss(layer) /\ UNCHANGED live
  /\ UNCHANGED <<cache, reloading, element>>

Derived == [geodetic |-> live.boundaries, civic |-> <<live.rcl, live.boundaries>>,
            ssapIndex |-> live.ssap, rclIndex |-> live.rcl]

Derive(piece) ==
  /\ load.from = "source" \/ piece \in {"ssapIndex", "rclIndex"}
  /\ Step(piece)
  /\ Put(piece, Derived[piece])
  /\ UNCHANGED <<cache, missed, reloading, element, budget>>

Restore(piece) ==
  /\ load.from = "cache" /\ Step(piece)
  /\ Put(piece, cache.data[piece])
  /\ UNCHANGED <<cache, missed, reloading, element, budget>>

Save ==
  /\ Step("save")
  /\ cache' = [stamp |-> stamp, data |-> live, missed |-> missed]
  /\ UNCHANGED <<live, missed, reloading, element, budget>>

\* Fault: a reload that succeeds does not set the element state.
Over_SilentState ==
  /\ load.todo # <<>> /\ Head(load.todo) = "over"
  /\ load' = [load EXCEPT !.todo = <<>>]
  /\ process' = "serving"
  /\ reloading' = FALSE
  /\ element' = IF process = "booting" THEN "Normal" ELSE element
  /\ UNCHANGED <<file, cache, live, missed, stamp, failed, request, budget>>

\* The load is over, at boot or with _on_gpkg_reload_success.
Over ==
  /\ load.todo # <<>> /\ Head(load.todo) = "over"
  /\ load' = [load EXCEPT !.todo = <<>>]
  /\ process' = "serving"
  /\ reloading' = FALSE
  /\ element' = "Normal"
  /\ UNCHANGED <<file, cache, live, missed, stamp, failed, request, budget>>

\* Deriving the coverage or saving raises: the boot fails, or
\* _on_gpkg_reload_failure is called.  Whether the core then keeps is_reloading
\* up and the modification time as it was is left open.
Raise ==
  /\ load.from = "source" /\ load.todo # <<>>
  /\ Head(load.todo) \in {"geodetic", "civic", "save"}
  /\ budget.failures < MaxFailures
  /\ budget' = [budget EXCEPT !.failures = @ + 1]
  /\ load' = [load EXCEPT !.todo = <<>>]
  /\ failed' = TRUE
  /\ IF process = "booting"
       THEN process' = "down" /\ UNCHANGED <<reloading, stamp, element>>
       ELSE /\ element' = "ServiceDisruption"
            /\ reloading' \in BOOLEAN
            /\ stamp' \in {0, stamp}
            /\ UNCHANGED process
  /\ UNCHANGED <<file, cache, live, missed, request>>

Load ==
  \/ \E layer \in {"ssap", "rcl"} : ReadRecords(layer)
  \/ ClearBoundaries
  \/ \E layer \in Layers : ReadBoundaries(layer)
  \/ \E piece \in DOMAIN Derived : Derive(piece)
  \/ \E piece \in {"ssap", "rcl", "boundaries", "civic", "geodetic"} : Restore(piece)
  \/ Save \/ Over \/ Raise

-----------------------------------------------------------------------------
(* Requests: the event loop handles one at a time, without an await.       *)

Still == UNCHANGED <<file, cache, process, live, missed, load, stamp, reloading,
                     failed, element, budget>>

\* Fault: the request does not look whether a reload is under way.
Ask_Blind ==
  /\ process = "serving" /\ request.at = "none"
  /\ \E service \in Services :
       request' = [request EXCEPT !.at = "gate0", !.service = service,
                                  !.overlapped = failed]
  /\ Still

\* While a reload is under way the answer is "validation unavailable".
Ask ==
  /\ process = "serving" /\ request.at = "none" /\ ~reloading
  /\ \E service \in Services :
       request' = [request EXCEPT !.at = "gate0", !.service = service,
                                  !.overlapped = failed]
  /\ Still

\* The layers held that have an active boundary for the service asked for.
Active == {b \in live.boundaries : request.service \in Serves[b]}

\* gate0.check: with no active boundary of its URN the service is not implemented.
Gate0 ==
  /\ request.at = "gate0"
  /\ request' = IF Active = {} THEN NoRequest ELSE [request EXCEPT !.at = "match"]
  /\ Still

\* The same test once more, on the boundaries as they are by then.
MatchBoundaries ==
  /\ request.at = "match"
  /\ request' = [request EXCEPT !.boundaries = Active, !.at = "candidates"]
  /\ Still

\* _candidates_for: the buckets of the address, or every record when neither
\* index has one.
Candidates ==
  \/ /\ request.at = "candidates"
     /\ \/ request' = [request EXCEPT !.ssap = live.ssapIndex, !.at = "rclIndex"]
        \/ request' = [request EXCEPT !.ssap = live.ssap, !.at = "rcl"]
     /\ Still
  \/ /\ request.at \in {"rcl", "rclIndex"}
     /\ request' = [request EXCEPT !.rcl = live[request.at], !.at = "civic"]
     /\ Still

\* _check_ooc_admin and assemble look the civic coverage up.
Answer ==
  /\ request.at = "civic"
  /\ request' = NoRequest
  /\ Still

Request == Ask \/ Gate0 \/ MatchBoundaries \/ Candidates \/ Answer

-----------------------------------------------------------------------------
(* The surroundings.                                                       *)

Replace ==
  /\ file < MaxVersion
  /\ file' = file + 1
  /\ UNCHANGED <<cache, process, live, missed, load, stamp, reloading, failed,
                 element, request, budget>>

Crash ==
  /\ process # "down"
  /\ budget.crashes < MaxCrashes
  /\ budget' = [budget EXCEPT !.crashes = @ + 1]
  /\ process' = "down"
  /\ load' = [load EXCEPT !.todo = <<>>]
  /\ request' = NoRequest
  /\ UNCHANGED <<file, cache, live, missed, stamp, reloading, failed, element>>

Next == Boot \/ Reload \/ Load \/ Request \/ Replace \/ Crash

Spec == Init /\ [][Next]_vars
FairSpec == Spec /\ WF_vars(Boot) /\ WF_vars(Reload) /\ WF_vars(Load)

-----------------------------------------------------------------------------
(* Properties.                                                             *)

Pieces == {"ssap", "rcl"} \cup Layers
TypeOK ==
  /\ file \in 1 .. MaxVersion
  /\ cache = None \/ cache \in [stamp: Versions, data: Data, missed: SUBSET Pieces]
  /\ process \in {"down", "booting", "serving"}
  /\ live \in Data /\ missed \in SUBSET Pieces
  /\ load \in [from: {"source", "cache"}, todo: Seq(FixedSteps \cup Layers)]
  /\ LET steps == IF load.from = "source" THEN SourceSteps ELSE CacheSteps
     IN  load.todo = <<>>
         \/ \E n \in 1 .. Len(steps) : load.todo = SubSeq(steps, n, Len(steps))
  /\ stamp \in Versions
  /\ reloading \in BOOLEAN /\ failed \in BOOLEAN
  /\ request \in [at: {"none", "gate0", "match", "candidates", "rcl", "rclIndex", "civic"},
                  service: Services \cup {None}, overlapped: BOOLEAN,
                  boundaries: SUBSET (Layers \X Versions), ssap: Versions, rcl: Versions]

\* One read of every boundary layer but those that could not be read, and the
\* coverage derived from the layers beside it.
ReadsOf(data, layer) == {v \in Versions : <<layer, v>> \in data.boundaries}
ReadOnce(data, holes, layer) ==
  IF layer \in holes THEN ReadsOf(data, layer) = {}
                     ELSE \E v \in Versions : ReadsOf(data, layer) = {v}
Whole(data, holes) ==
  /\ \A layer \in Layers : ReadOnce(data, holes, layer)
  /\ data.geodetic = data.boundaries
  /\ data.civic = <<data.rcl, data.boundaries>>

Indexed(data) == data.ssapIndex = data.ssap /\ data.rclIndex = data.rcl

Settled == process = "serving" /\ load.todo = <<>> /\ ~failed

\* Between loads the coverage and the index a worker answers from belong to the
\* records it holds, wherever these came from: the source, the cache of another
\* process, a load some layer was missing from, a boot after a crash.
DerivedFromLayers == Settled => Whole(live, missed) /\ Indexed(live) /\ ~reloading

\* What the next process will load from the cache was derived from what lies
\* beside it there: no save catches a load half way.
CacheWhole == cache # None => Whole(cache.data, cache.missed)

\* The inductive invariant behind the theorems.  A load that is half way has
\* made of its pieces what the steps behind it say, a reload is always from the
\* source and announced, and a request no reload overtook has read live pieces.
Done(step) == step \notin ToSet(load.todo)
Loading(from) == load.todo # <<>> /\ load.from = from

SourceInv ==
  Loading("source") =>
    /\ \A layer \in Layers :
         IF Done(layer) THEN ReadOnce(live, missed, layer)
         ELSE layer \notin missed /\ (Done("clear") => ReadsOf(live, layer) = {})
    /\ Done("geodetic") => live.geodetic = live.boundaries
    /\ Done("civic") => live.civic = <<live.rcl, live.boundaries>>
    /\ Done("ssapIndex") => live.ssapIndex = live.ssap
    /\ Done("rclIndex") => live.rclIndex = live.rcl
    /\ cache = None \/ IF Done("save") THEN cache.stamp = stamp ELSE cache.stamp < stamp

RestoreInv ==
  Loading("cache") =>
    /\ process = "booting" /\ cache # None
    /\ cache.stamp = stamp /\ missed = cache.missed
    /\ \A piece \in {"ssap", "rcl", "boundaries", "civic", "geodetic"} :
         Done(piece) => live[piece] = cache.data[piece]
    /\ Done("ssapIndex") => live.ssapIndex = live.ssap
    /\ Done("rclIndex") => live.rclIndex = live.rcl

\* Where a worker is in its life; what the mtimes say of the cache.
ServingInv ==
  /\ process = "down" => load.todo = <<>>
  /\ load.todo # <<>> => ~failed /\ (process = "serving" => reloading)
  /\ stamp <= file /\ (cache # None => cache.stamp <= file)
  /\ process = "serving" /\ load.todo = <<>> /\ cache # None =>
       IF failed THEN cache.stamp < file ELSE cache.stamp = stamp

RequestInv ==
  request.at # "none" /\ ~request.overlapped =>
    /\ Settled
    /\ request.at \notin {"gate0", "match"} => request.boundaries = Active
    /\ request.at \in {"rcl", "rclIndex", "civic"} => request.ssap = live.ssap
    /\ request.at = "civic" => request.rcl = live.rcl

ReloadInv ==
  /\ TypeOK /\ CacheWhole /\ DerivedFromLayers
  /\ SourceInv /\ RestoreInv /\ ServingInv /\ RequestInv

\* A layer of the load in force has no boundary for the service, for what it
\* reads or because it could not be read.
Lacks(layer, service) ==
  \/ layer \in missed
  \/ \E v \in Versions :
       ReadsOf(live, layer) = {v} /\ service \notin Serves[<<layer, v>>]

\* A findService no reload began under, and that no failed load preceded, reads
\* all it reads from one load; it is told "service not implemented" only when
\* every boundary layer of that load was read and has no active boundary for
\* its service, or could not be read: never because the list happened to be
\* empty or half filled.  (One that a reload does overtake can be told so for
\* that reason, or join the layers of two loads.)
OneLoad ==
  [][/\ Answer /\ ~request.overlapped =>
          /\ request.boundaries = Active
          /\ request.ssap = live.ssap /\ request.rcl = live.rcl
          /\ Whole(live, missed)
     /\ Gate0 /\ ~request.overlapped /\ request'.at = "none" =>
          \A layer \in Layers : Lacks(layer, request.service)]_vars

Current ==
  /\ Settled /\ Indexed(live) /\ Whole(live, missed)
  /\ \A layer \in {"ssap", "rcl"} \ missed : live[layer] = file
  /\ \A b \in live.boundaries : b[2] = file
  /\ element = "Normal"

\* Every version of the GeoPackage comes into force, in all its layers that could
\* be read, unless another replaces it or deriving the coverage fails; also one
\* that replaces another while that is being read.
CatchesUp == \A v \in 1 .. MaxVersion : file = v ~> (file # v \/ failed \/ Current)
=============================================================================

------------------------- MODULE AddressValidation -------------------------
(***************************************************************************)
(* Local validation of one findService request, from Gate 0 on             *)
(* (lost/find_service.py, validation/gate0.py, gate1.py, gate2.py,         *)
(* response_assembly.py): the gates, the progressive filter one element at *)
(* a time, the fall-through from address points to centre lines, the       *)
(* out-of-coverage redirect and the assembly of the answer.  The request   *)
(* and the GIS data are fixed when it starts.                              *)
(***************************************************************************)
EXTENDS AddressMatching

CONSTANTS
  Queries,    \* requests, each with the GIS data in force (see QueryType)
  NoAnswer

VARIABLES
  query,      \* the request and the GIS data in force
  step,       \* where handle_find_service is
  pos,        \* the position in the hierarchy of the element it evaluated last
  candidates, \* its candidate set: records, with the side once it is known
  valid, unchecked,   \* the lists of its FilterState: how often each element is in
  invalid,    \* the invalid element, if any
  answer      \* the response

vars == <<query, step, pos, candidates, valid, unchecked, invalid, answer>>
filterState == <<pos, candidates, valid, unchecked, invalid>>

Steps == {"gate0", "gate1", "gate2", "ssap", "rcl", "match ssap", "match rcl",
          "invalid", "not found", "done"}

\* A candidate is a pair of a record and "point", "none", "L" or "R".
Candidates == ((DOMAIN SSAP) \X {"point"}) \cup ((DOMAIN RCL) \X ({"none"} \cup Sides))

QueryType(q) ==
  /\ DOMAIN q.address = Elements
  /\ q.ssap \subseteq DOMAIN SSAP /\ q.rcl \subseteq DOMAIN RCL
  /\ IsFiniteSet(q.ssap) /\ IsFiniteSet(q.rcl)
  /\ q.parent \in BOOLEAN
  /\ q.loaded <= q.now

ASSUME QueriesAssumption == \A q \in Queries : QueryType(q)

TypeOK ==
  /\ QueryType(query)
  /\ step \in Steps
  /\ pos \in 0 .. Len(Hierarchy)
  /\ candidates \subseteq Candidates
  /\ valid \in [Elements -> Nat] /\ unchecked \in [Elements -> Nat]
  /\ invalid \subseteq Elements

address == query.address
Filtering == step \in {"ssap", "rcl"}

\* The elements the running filter has still to evaluate, and the next one.
ToCome == {e \in Evaluated(address, step) : Pos(e) > pos}
Element == CHOOSE e \in ToCome : \A d \in ToCome : Pos(e) <= Pos(d)

\* A list of elements, in which only the number of occurrences counts
\* (response assembly sorts it).
Nothing == [e \in Elements |-> 0]
Put(list, S) == [e \in Elements |-> IF e \in S THEN list[e] + 1 ELSE list[e]]
Listed(list) == {e \in Elements : list[e] > 0}

ServingBoundaries ==
  {b \in DOMAIN Boundaries :
     Boundaries[b].urn = query.urn /\ TemporallyActive(Boundaries[b], query.now)}

Init ==
  /\ query \in Queries
  /\ step = "gate0"
  /\ pos = 0 /\ candidates = {} /\ valid = Nothing /\ unchecked = Nothing /\ invalid = {}
  /\ answer = NoAnswer

Answer(a) == answer' = a /\ step' = "done" /\ UNCHANGED <<query, filterState>>
Say(kind) == [kind |-> kind]

Goto(s) == step' = s /\ UNCHANGED <<query, filterState, answer>>

Gate0 ==
  /\ step = "gate0"
  /\ IF ServingBoundaries = {} THEN Answer(Say("serviceNotImplemented"))
     ELSE Goto("gate1")

Gate1 ==
  /\ step = "gate1"
  /\ IF \E e \in Required : address[e] \in {Null, Empty}
     THEN Answer(Say("locationInvalid"))
     ELSE Goto("gate2")

-----------------------------------------------------------------------------
\* _flush_remaining_to_unchecked
Remaining == ToCome \ {Element}

\* _seed_unchecked, and a filter's first candidates.
Begin(layer, start) ==
  /\ step' = layer
  /\ pos' = 0
  /\ candidates' = start
  /\ valid' = Nothing /\ unchecked' = Put(Nothing, Skipped(address, layer))
  /\ invalid' = {}
  /\ UNCHANGED <<query, answer>>

FallThrough ==
  LET records == ActiveRcl(address, query.ssap, query.rcl, query.now)
  IN IF records = {} THEN Goto("not found") ELSE Begin("rcl", records \X {"none"})

BeginFilter ==
  /\ step = "gate2"
  /\ LET records == ActiveSsap(address, query.ssap, query.rcl, query.now)
     IN IF records = {} THEN FallThrough ELSE Begin("ssap", records \X {"point"})

\* How candidate c's GIS fields for e compare: on the side that is known, or
\* on both.
Comparisons(c, e) ==
  IF c[2] = "point" THEN {FieldOutcome(e, address[e], SSAP[c[1]].field[e])}
  ELSE {FieldOutcome(e, address[e], RCL[c[1]][s].field[e])
          : s \in IF c[2] = "none" THEN Sides ELSE {c[2]}}

\* The candidates left by the house number; centre lines get their side.
Numbered ==
  IF address[Hno] = NotNumber THEN {}
  ELSE IF step = "ssap" THEN {c \in candidates : SSAP[c[1]].number = address[Hno]}
  ELSE {c \in {d[1] : d \in candidates} \X Sides : InRange(RCL[c[1]][c[2]], address[Hno])}

\* The candidates left by element e.
Kept(e) ==
  IF e = Hno THEN Numbered ELSE {c \in candidates : Comparisons(c, e) # {"mismatch"}}

Confirms(e) ==
  IF e = Hno THEN step = "ssap" ELSE \E c \in Kept(e) : "match" \in Comparisons(c, e)

\* Fault: what was evaluated on the address points is kept for the centre lines.
StopSsap_KeepsState ==
  LET records == ActiveRcl(address, query.ssap, query.rcl, query.now)
  IN IF records = {} THEN Goto("not found")
     ELSE /\ step' = "rcl" /\ pos' = 0 /\ candidates' = records \X {"none"}
          /\ UNCHANGED <<query, valid, invalid, unchecked, answer>>

StopSsap == FallThrough

\* One round of the filter loop that keeps some candidate.
Keep ==
  /\ Filtering /\ ToCome # {}
  /\ Kept(Element) # {}
  /\ candidates' = Kept(Element)
  /\ pos' = Pos(Element)
  /\ IF Confirms(Element)
     THEN valid' = Put(valid, {Element}) /\ UNCHANGED unchecked
     ELSE unchecked' = Put(unchecked, {Element}) /\ UNCHANGED valid
  /\ UNCHANGED <<query, step, invalid, answer>>

\* Stop on first invalid: discarded on the address points, final on the lines.
Stop ==
  /\ Filtering /\ ToCome # {}
  /\ Kept(Element) = {}
  /\ IF step = "ssap" THEN StopSsap
     ELSE /\ step' = "invalid"
          /\ candidates' = {}
          /\ invalid' = {Element}
          /\ unchecked' = Put(unchecked, Remaining)
          /\ UNCHANGED <<query, pos, valid, answer>>

\* All elements evaluated: one candidate is a match, more are ambiguous.
Exhausted ==
  /\ Filtering /\ ToCome = {}
  /\ IF Cardinality(candidates) = 1
     THEN Goto(IF step = "ssap" THEN "match ssap" ELSE "match rcl")
     ELSE IF step = "ssap" THEN FallThrough ELSE Goto("not found")

-----------------------------------------------------------------------------
Report == [valid |-> Listed(valid), invalid |-> invalid, unchecked |-> Listed(unchecked)]
Validation(mapping) ==
  [kind |-> "locationValidation", report |-> Report, mapping |-> mapping]

NotFound == step = "not found" /\ Answer(Say("notFound"))

\* assemble() for a match: the boundaries around the matched point.
AssembleMatch ==
  /\ step \in {"match ssap", "match rcl"}
  /\ \E c \in candidates :
       LET mapping == Region[c] \cap ServingBoundaries
       IN IF mapping = {} THEN Answer(Say("locationValidationUnavailable"))
          ELSE Answer(Validation(mapping))

\* Fault: entries are merged by the boundary itself.
Coverage_PerBoundary(rcl, now) ==
  LET sides == CoverageSides(rcl, now)
      entry(p) == <<AdminOf(p), Containing(p, now)>>
  IN {p \in sides : \A q \in sides : Before(q, p) => entry(q) # entry(p)}

\* The table _derive_civic_coverage makes at load time: of the sides with the same
\* key, the first is kept, and stands for its entry.
Coverage(rcl, now) ==
  LET sides == CoverageSides(rcl, now)
  IN {p \in sides : \A q \in sides : Before(q, p) => EntryKey(q, now) # EntryKey(p, now)}

\* lookup_civic_coverage: the boundary of the first of the most specific entries,
\* Null when there is none or another has no, or another, NGUID.
LookupCoverage(coverage, loaded, admin) ==
  LET best == MostSpecific(coverage, admin)
      nguid(p) == Boundaries[Containing(p, loaded)].nguid
      conflict ==
        \E p \in best \ {FirstOf(best)} :
          \/ nguid(FirstOf(best)) = Null \/ nguid(p) = Null
          \/ nguid(FirstOf(best)) # nguid(p)
  IN IF (\A k \in Key : admin[k] \notin {Null, Empty}) /\ best # {} /\ ~conflict
     THEN Containing(FirstOf(best), loaded) ELSE Null

Lookup(admin) ==
  LookupCoverage(Coverage(query.rcl, query.loaded), query.loaded, admin)

\* _check_ooc_admin looks its coverage up without the sub-fields up to the
\* invalid one when that is a sub-field (A3, A4 or A5).
OutOfCoverage(e) ==
  /\ e \in Admin
  /\ Lookup([a \in Admin |->
       IF a \notin Key /\ e \notin Key /\ Pos(a) <= Pos(e) THEN Null ELSE address[a]])
     = Null

\* assemble() for an invalid address: coverage of its valid admin prefix, else
\* the default mapping (Null).
ValidPrefixMapping ==
  {Lookup([a \in Admin |-> IF a \in Listed(valid) THEN address[a] ELSE Null])}

AssembleInvalid ==
  /\ step = "invalid"
  /\ \E e \in invalid :
       IF ~OutOfCoverage(e) THEN Answer(Validation(ValidPrefixMapping))
       ELSE IF query.parent THEN Answer(Say("redirect"))
       ELSE Answer(Say("notFound"))

Next ==
  \/ Gate0 \/ Gate1 \/ BeginFilter \/ Keep \/ Stop \/ Exhausted
  \/ NotFound \/ AssembleMatch \/ AssembleInvalid

Spec == Init /\ [][Next]_vars

-----------------------------------------------------------------------------
\* The filter, its early stop, the discarded first layer, the index and the
\* assembly together give the verdict that AddressVerdict states outright.
Promise == INSTANCE AddressVerdict
FollowsVerdict == Promise!Spec

\* A redirect is for addresses outside the coverage: "Gate 2 failures at an admin
\* element (country/A1-A5) that fall outside this LVF's civic coverage region
\* return <redirect>" (.env.example:124-126).
RedirectsOutside ==
  answer # NoAnswer /\ answer.kind = "redirect" =>
    \A p \in CoverageSides(query.rcl, query.loaded) : ~Covers(AdminOf(p), address)

-----------------------------------------------------------------------------
\* What the filter of a layer has made of its candidates and lists when it has
\* evaluated the elements up to pos, in the terms of the verdict: a centre line
\* stands for both its sides until the house number is evaluated.
Once(S) == Put(Nothing, S)
Seen(layer) == {e \in Evaluated(address, layer) : Pos(e) <= pos}
FitSoFar(layer) ==
  LET fitting == Promise!Fitting(layer, pos, query)
  IN IF layer = "rcl" /\ pos < Pos(Hno) THEN {p[1] : p \in fitting} \X {"none"}
     ELSE fitting

FilterAt(layer) ==
  /\ candidates # {} /\ candidates = FitSoFar(layer)
  /\ valid = Once({e \in Seen(layer) : Promise!Confirmed(layer, e, query)})
  /\ unchecked = Once(Skipped(address, layer)
                        \cup {e \in Seen(layer) : ~Promise!Confirmed(layer, e, query)})
  /\ invalid = {}

\* What its lists have become when it is over.
Settled(layer) ==
  /\ valid = Once(Promise!Valid(layer, query))
  /\ unchecked = Once(Promise!Unchecked(layer, query))
  /\ invalid = Promise!Invalid(layer, query)

MatchedAt(layer) ==
  /\ Settled(layer)
  /\ candidates = Promise!FitsAll(layer, query) /\ Cardinality(candidates) = 1

StoppedInv ==
  /\ Settled("rcl") /\ Promise!Points("rcl", query) # {}
  /\ \E e \in Elements : invalid = {e}

NotFoundInv ==
  \/ Promise!Points("rcl", query) = {}
  \/ Promise!FitsAll("rcl", query) # {} /\ ~Promise!Single("rcl", query)

\* What has been established on the way to each step.
ProgressInv ==
  /\ step # "done" => answer = NoAnswer
  /\ step \notin {"gate0", "done"} => ServingBoundaries # {}
  /\ step \notin {"gate0", "gate1", "done"} =>
       \A e \in Required : address[e] \notin {Null, Empty}
  /\ step = "ssap" => FilterAt("ssap")
  /\ step = "match ssap" => MatchedAt("ssap")
  /\ step \in {"rcl", "match rcl", "invalid", "not found"} =>
       ~Promise!Single("ssap", query)
  /\ step = "rcl" => FilterAt("rcl")
  /\ step = "match rcl" => MatchedAt("rcl")
  /\ step = "invalid" => StoppedInv
  /\ step = "not found" => NotFoundInv

\* Every submitted element is reported exactly once, and nothing else is: over
\* the seeding, the loop and the flush after the first invalid element, on the
\* layer that gives the answer (VENDOR_INTEGRATION.md:132-134).
ReportedOnce ==
  answer # NoAnswer /\ answer.kind = "locationValidation" =>
    /\ answer.report = Report
    /\ \A e \in Elements :
         valid[e] + unchecked[e] + (IF e \in invalid THEN 1 ELSE 0)
           = IF e \in Submitted(address) THEN 1 ELSE 0

\* At every step the filter's candidates and lists are those the verdict gives
\* for the elements evaluated so far, and ReportedOnce holds of the answer.
FilterInv == TypeOK /\ ProgressInv /\ ReportedOnce
=============================================================================

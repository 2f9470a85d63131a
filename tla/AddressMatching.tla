-------------------------- MODULE AddressMatching --------------------------
(***************************************************************************)
(* What it means for a submitted civic address to match a GIS record       *)
(* (validation/gate2.py, validation/models.py, gis/provisioning.py).       *)
(* Values are compared up to letter case by the code, so a value here      *)
(* stands for all its spellings; where the code does tell spellings apart, *)
(* a side of a centre line has the spelling of its admin fields as a part. *)
(***************************************************************************)
EXTENDS Naturals, SequencesExt, FiniteSetsExt

CONSTANTS
  Hierarchy,        \* ELEMENT_HIERARCHY: the civic elements in order
  AlwaysUnchecked,  \* the elements no layer evaluates
  RclUnchecked,     \* those that road centre lines do not evaluate
  NullUnchecked,    \* those an absent GIS value leaves unchecked
  Key,              \* country, A1, A2: what the attribute index is keyed by
  Admin,            \* country, A1 .. A5
  Required,         \* what Gate 1 requires
  Hno,              \* the house number, compared as an integer
  Null, Empty,      \* an absent element or field; an element without text
  NotNumber,        \* a house number that int() refuses
  SSAP,             \* address points, by position: record
  RCL,              \* road centre lines, by position: record with sides "L", "R"
  Boundaries,       \* service boundaries, in the order they were loaded
  Region            \* point -> the boundaries whose polygon contains it

Elements == ToSet(Hierarchy)
Sides == {"L", "R"}
Pos(e) == CHOOSE i \in DOMAIN Hierarchy : Hierarchy[i] = e

ASSUME HierarchyAssumption ==
  /\ Hierarchy \in Seq(Elements)
  /\ IsInjective(Hierarchy)
  /\ AlwaysUnchecked \cup RclUnchecked \cup NullUnchecked \subseteq Elements
  /\ Key \subseteq Admin /\ Admin \subseteq Elements /\ Required \subseteq Elements
  /\ Hno \in Required /\ Key \subseteq Required
  /\ Hno \notin AlwaysUnchecked \cup RclUnchecked
  /\ DOMAIN RCL \subseteq Nat

\* _is_temporally_active; Null is no date, or one that does not parse.
TemporallyActive(r, now) ==
  /\ r.effective # Null => r.effective <= now
  /\ r.expires # Null => r.expires > now

Submitted(address) == {e \in Elements : address[e] # Null}

\* The submitted elements that no layer's, or not this layer's, filter visits,
\* and those that it does.
Skipped(address, layer) ==
  {e \in Submitted(address) :
     e \in AlwaysUnchecked \/ (layer = "rcl" /\ e \in RclUnchecked)}
Evaluated(address, layer) == Submitted(address) \ Skipped(address, layer)

\* _field_outcome: an absent GIS value matches an element without text.
FieldOutcome(e, submitted, gis) ==
  IF gis = Null /\ submitted # Empty /\ e \in NullUnchecked THEN "null"
  ELSE IF submitted = IF gis = Null THEN Empty ELSE gis THEN "match"
  ELSE "mismatch"

\* _filter_rcl's test of one side; parity and flag may be absent.
InRange(side, n) ==
  /\ side.parity # "Z" /\ side.valid # "N"
  /\ side.from # Null /\ side.to # Null
  /\ side.from <= n /\ n <= side.to
  /\ side.parity = "E" => n % 2 = 0
  /\ side.parity = "O" => n % 2 = 1

-----------------------------------------------------------------------------
\* _candidates_for: the records of the address's index bucket, or every record
\* when neither layer has that bucket.
KeyOf(field) == [k \in Key |-> IF field[k] = Empty THEN Null ELSE field[k]]

SsapBucket(address, ssap) == {id \in ssap : KeyOf(SSAP[id].field) = KeyOf(address)}
RclBucket(address, rcl) ==
  {id \in rcl : \E s \in Sides : KeyOf(RCL[id][s].field) = KeyOf(address)}

NoBucket(address, ssap, rcl) ==
  SsapBucket(address, ssap) = {} /\ RclBucket(address, rcl) = {}

ActiveSsap(address, ssap, rcl, now) ==
  {id \in IF NoBucket(address, ssap, rcl) THEN ssap ELSE SsapBucket(address, ssap) :
     TemporallyActive(SSAP[id], now)}
ActiveRcl(address, ssap, rcl, now) ==
  {id \in IF NoBucket(address, ssap, rcl) THEN rcl ELSE RclBucket(address, rcl) :
     TemporallyActive(RCL[id], now)}

-----------------------------------------------------------------------------
\* _derive_civic_coverage: a side of an active centre line with its key fields
\* gives an entry of the civic coverage, of its admin fields and the first active
\* boundary around its representative point.
ActiveBoundaries(now) ==
  {b \in DOMAIN Boundaries : TemporallyActive(Boundaries[b], now)}
Containing(p, now) == Min(Region[p] \cap ActiveBoundaries(now))

AdminOf(p) ==
  LET field == RCL[p[1]][p[2]].field
  IN [a \in Admin |-> IF field[a] = Empty THEN Null ELSE field[a]]

CoverageSides(rcl, now) ==
  {p \in rcl \X Sides :
     /\ TemporallyActive(RCL[p[1]], now)
     /\ Region[p] \cap ActiveBoundaries(now) # {}
     /\ \A k \in Key : AdminOf(p)[k] # Null}

\* The order in which the sides are visited.
Before(p, q) == p[1] < q[1] \/ (p[1] = q[1] /\ p[2] = "L" /\ q[2] = "R")
FirstOf(S) == CHOOSE p \in S : \A q \in S : ~Before(q, p)

\* What an entry is kept by: not its boundary, only that boundary's display name
\* and service, and the admin fields as they are spelled.
EntryKey(p, now) ==
  LET b == Boundaries[Containing(p, now)]
  IN <<AdminOf(p), RCL[p[1]][p[2]].spelling, b.name, b.urn>>

\* An entry's absent A3-A5 match anything.
Covers(entry, admin) ==
  /\ \A k \in Key : entry[k] = admin[k]
  /\ \A a \in Admin \ Key : entry[a] \in {Null, admin[a]}

Specificity(entry) == Cardinality({a \in Admin : entry[a] # Null})

\* The most specific of the entries that cover the admin fields.
MostSpecific(S, admin) ==
  LET found == {p \in S : Covers(AdminOf(p), admin)}
  IN {p \in found :
        \A q \in found : Specificity(AdminOf(q)) <= Specificity(AdminOf(p))}
=============================================================================

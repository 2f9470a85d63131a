--------------------------- MODULE AddressVerdict ---------------------------
(***************************************************************************)
(* What address validation promises, in one step: the verdict on an        *)
(* address as a statement about the sets of records that fit it, with no   *)
(* filter, no order of evaluation beyond the element hierarchy, and no     *)
(* intermediate state.  An address fits an address point by its fields,    *)
(* and one side of a road centre line by its range and fields, where       *)
(* elements before the house number may fit either side.                   *)
(***************************************************************************)
EXTENDS AddressMatching

VARIABLES
  query,    \* the address, the records in force, and the node's role
  answer    \* NoAnswer, then the verdict

CONSTANT NoAnswer

\* The points an address may name on a layer.
Points(layer, q) ==
  IF layer = "ssap" THEN ActiveSsap(q.address, q.ssap, q.rcl, q.now) \X {"point"}
  ELSE ActiveRcl(q.address, q.ssap, q.rcl, q.now) \X Sides

\* How the GIS fields that count for element e at point p compare.
Comparisons(layer, p, e, q) ==
  IF layer = "ssap" THEN {FieldOutcome(e, q.address[e], SSAP[p[1]].field[e])}
  ELSE {FieldOutcome(e, q.address[e], RCL[p[1]][s].field[e])
          : s \in IF Pos(e) < Pos(Hno) THEN Sides ELSE {p[2]}}

Fits(layer, p, e, q) ==
  IF e # Hno THEN Comparisons(layer, p, e, q) # {"mismatch"}
  ELSE /\ q.address[Hno] \notin {NotNumber, Empty}
       /\ IF layer = "ssap" THEN SSAP[p[1]].number = q.address[Hno]
          ELSE InRange(RCL[p[1]][p[2]], q.address[Hno])

\* The points that fit the elements evaluated in the first n positions.
Fitting(layer, n, q) ==
  {p \in Points(layer, q) :
     \A e \in Evaluated(q.address, layer) : Pos(e) <= n => Fits(layer, p, e, q)}

\* The points that fit the whole address.
FitsAll(layer, q) == Fitting(layer, Len(Hierarchy), q)

\* The elements up to which nothing fits any more.
Failing(layer, q) ==
  {e \in Evaluated(q.address, layer) : Fitting(layer, Pos(e), q) = {}}

\* An element is valid when some point that still fits has its very value; a
\* house number only when an address point has it.
Confirmed(layer, e, q) ==
  IF e = Hno THEN layer = "ssap" /\ Fitting(layer, Pos(e), q) # {}
  ELSE \E p \in Fitting(layer, Pos(e), q) : "match" \in Comparisons(layer, p, e, q)

Valid(layer, q) == {e \in Evaluated(q.address, layer) : Confirmed(layer, e, q)}
Invalid(layer, q) ==
  {e \in Failing(layer, q) : \A d \in Failing(layer, q) : Pos(e) <= Pos(d)}
Unchecked(layer, q) == Submitted(q.address) \ (Valid(layer, q) \cup Invalid(layer, q))

Report(layer, q) ==
  [valid |-> Valid(layer, q), invalid |-> Invalid(layer, q),
   unchecked |-> Unchecked(layer, q)]

-----------------------------------------------------------------------------
Serving(q) ==
  {b \in DOMAIN Boundaries :
     Boundaries[b].urn = q.urn /\ TemporallyActive(Boundaries[b], q.now)}

Say(kind) == [kind |-> kind]

\* Exactly one point fits the whole address.
Single(layer, q) == Cardinality(FitsAll(layer, q)) = 1

MatchVerdict(layer, q) ==
  LET around == UNION {Region[p] : p \in FitsAll(layer, q)}
  IN IF around \cap Serving(q) = {} THEN Say("locationValidationUnavailable")
     ELSE [kind |-> "locationValidation", report |-> Report(layer, q),
           mapping |-> around \cap Serving(q)]

\* The admin fields whose coverage decides whether element e is outside the
\* region, and those whose coverage gives the mapping.
DecidingAdmin(q, e) ==
  [a \in Admin |-> IF a \notin Key /\ e \notin Key /\ Pos(a) <= Pos(e)
                   THEN Null ELSE q.address[a]]
ValidAdmin(q) ==
  [a \in Admin |-> IF a \in Valid("rcl", q) THEN q.address[a] ELSE Null]

\* The boundary that the sides of centre lines give for an administrative area:
\* the first of the most specific sides that cover it decides, unless another,
\* that does not just repeat an earlier one, is of a boundary that is not known
\* to be the same.  Null when there is none.
RegionalBoundary(q, admin) ==
  LET best == MostSpecific(CoverageSides(q.rcl, q.loaded), admin)
      nguid(p) == Boundaries[Containing(p, q.loaded)].nguid
      repeats(p) == \E o \in best : Before(o, p) /\ EntryKey(o, q.loaded) = EntryKey(p, q.loaded)
      agrees(p) ==
        p = FirstOf(best) \/ (nguid(p) # Null /\ nguid(p) = nguid(FirstOf(best)))
  IN IF /\ \A k \in Key : admin[k] \notin {Null, Empty}
        /\ best # {} /\ \A p \in best : agrees(p) \/ repeats(p)
     THEN Containing(FirstOf(best), q.loaded) ELSE Null

\* No centre line fits: the address is outside the region, or invalid in it.
InvalidVerdict(q) ==
  LET outside == \E e \in Invalid("rcl", q) \cap Admin :
                   RegionalBoundary(q, DecidingAdmin(q, e)) = Null
  IN IF outside THEN Say(IF q.parent THEN "redirect" ELSE "notFound")
     ELSE [kind |-> "locationValidation", report |-> Report("rcl", q),
           mapping |-> {RegionalBoundary(q, ValidAdmin(q))}]

Verdict(q) ==
  IF Serving(q) = {} THEN Say("serviceNotImplemented")
  ELSE IF \E e \in Required : q.address[e] \in {Null, Empty} THEN Say("locationInvalid")
  ELSE IF Single("ssap", q) THEN MatchVerdict("ssap", q)
  ELSE IF Points("rcl", q) = {} THEN Say("notFound")
  ELSE IF FitsAll("rcl", q) = {} THEN InvalidVerdict(q)
  ELSE IF Single("rcl", q) THEN MatchVerdict("rcl", q)
  ELSE Say("notFound")

Init == answer = NoAnswer
Next ==
  /\ answer = NoAnswer
  /\ answer' # answer
  /\ answer' = Verdict(query)
  /\ UNCHANGED query
Spec == Init /\ [][Next]_<<query, answer>>
=============================================================================

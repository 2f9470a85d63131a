--------------------------- MODULE AddressProofs ---------------------------
(***************************************************************************)
(* Proofs about AddressValidation: the progressive filter and the assembly *)
(* give the verdict of AddressVerdict, for every address, every GIS data   *)
(* and every element hierarchy.                                            *)
(***************************************************************************)
EXTENDS AddressValidation, NaturalsInduction, WellFoundedInduction, FiniteSetTheorems, TLAPS

-----------------------------------------------------------------------------
\* AddressVerdict is instantiated, with matching operators of its own: they are
\* the ones of AddressMatching.
LEMMA SameElements ==
  /\ Promise!Elements = Elements /\ Promise!Sides = Sides
  /\ \A e : Promise!Pos(e) = Pos(e)
  BY DEF Promise!Elements, Elements, Promise!ToSet, ToSet, Promise!Sides, Sides,
         Promise!Pos, Pos

LEMMA SameEvaluated ==
  \A a, layer : /\ Promise!Submitted(a) = Submitted(a)
                /\ Promise!Skipped(a, layer) = Skipped(a, layer)
                /\ Promise!Evaluated(a, layer) = Evaluated(a, layer)
  BY SameElements DEF Promise!Submitted, Submitted, Promise!Skipped, Skipped,
         Promise!Evaluated, Evaluated

LEMMA SameComparison ==
  /\ \A e, s, g : Promise!FieldOutcome(e, s, g) = FieldOutcome(e, s, g)
  /\ \A r, now : Promise!TemporallyActive(r, now) = TemporallyActive(r, now)
  /\ \A side, n : Promise!InRange(side, n) = InRange(side, n)
  BY DEF Promise!FieldOutcome, FieldOutcome, Promise!TemporallyActive, TemporallyActive,
         Promise!InRange, InRange

LEMMA SameActive ==
  \A a, ssap, rcl, now :
    /\ Promise!ActiveSsap(a, ssap, rcl, now) = ActiveSsap(a, ssap, rcl, now)
    /\ Promise!ActiveRcl(a, ssap, rcl, now) = ActiveRcl(a, ssap, rcl, now)
  BY DEF Promise!ActiveSsap, ActiveSsap, Promise!ActiveRcl, ActiveRcl, Promise!NoBucket,
         NoBucket, Promise!SsapBucket, SsapBucket, Promise!RclBucket, RclBucket,
         Promise!KeyOf, KeyOf, Promise!Sides, Sides,
         Promise!TemporallyActive, TemporallyActive

LEMMA SameSides ==
  \A rcl, now : /\ Promise!CoverageSides(rcl, now) = CoverageSides(rcl, now)
               /\ \A p : /\ Promise!Containing(p, now) = Containing(p, now)
                        /\ Promise!EntryKey(p, now) = EntryKey(p, now)
  BY DEF Promise!CoverageSides, CoverageSides, Promise!Sides, Sides,
         Promise!ActiveBoundaries, ActiveBoundaries, Promise!TemporallyActive,
         TemporallyActive, Promise!AdminOf, AdminOf, Promise!Containing, Containing,
         Promise!Min, Min, Promise!EntryKey, EntryKey

LEMMA SameOrder ==
  /\ \A p, q : Promise!Before(p, q) = Before(p, q)
  /\ \A S : Promise!FirstOf(S) = FirstOf(S)
  /\ \A S, admin : Promise!MostSpecific(S, admin) = MostSpecific(S, admin)
  BY DEF Promise!Before, Before, Promise!FirstOf, FirstOf, Promise!MostSpecific, MostSpecific,
         Promise!AdminOf, AdminOf, Promise!Covers, Covers, Promise!Specificity, Specificity,
         Promise!Cardinality, Cardinality

LEMMA SameCardinality == \A S : Promise!Cardinality(S) = Cardinality(S)
  BY DEF Promise!Cardinality, Cardinality

-----------------------------------------------------------------------------
\* The element hierarchy.
LEMMA Positions ==
  /\ \A e \in Elements : Pos(e) \in 1 .. Len(Hierarchy) /\ Hierarchy[Pos(e)] = e
  /\ \A d, e \in Elements : Pos(d) = Pos(e) => d = e
<1>1. \A e \in Elements : Pos(e) \in DOMAIN Hierarchy /\ Hierarchy[Pos(e)] = e
  BY DEF Elements, ToSet, Pos
<1>2. DOMAIN Hierarchy = 1 .. Len(Hierarchy)
  BY HierarchyAssumption
<1>. QED BY <1>1, <1>2

LEMMA PositionTypes ==
  /\ Len(Hierarchy) \in Nat
  /\ \A e \in Elements : Pos(e) \in Nat /\ 1 <= Pos(e) /\ Pos(e) <= Len(Hierarchy)
<1>1. Len(Hierarchy) \in Nat
  BY HierarchyAssumption
<1>. QED BY <1>1, Positions

LEMMA HouseNumber == Hno \in Elements
  BY HierarchyAssumption

LEMMA EvaluatedElements ==
  \A a, layer : /\ Evaluated(a, layer) \subseteq Elements
                /\ Skipped(a, layer) \subseteq Elements
                /\ Evaluated(a, layer) \cap Skipped(a, layer) = {}
                /\ Evaluated(a, layer) \cup Skipped(a, layer) = Submitted(a)
  BY DEF Evaluated, Skipped, Submitted

LEMMA HouseNumberEvaluated ==
  \A a, layer : a[Hno] # Null => Hno \in Evaluated(a, layer)
  BY HierarchyAssumption, HouseNumber DEF Evaluated, Skipped, Submitted

\* Of the elements that come after position n, one comes first.
LEMMA FirstElement ==
  ASSUME NEW S \in SUBSET Elements, S # {}
  PROVE  \E e \in S : \A d \in S : Pos(e) <= Pos(d)
<1>. DEFINE P == {Pos(e) : e \in S}
<1>1. P # {} /\ P \subseteq Nat
  BY PositionTypes
<1>2. PICK m \in P : \A k \in P : <<k, m>> \notin OpToRel(<, Nat)
  <2>. HIDE DEF P
  <2>. QED BY <1>1, NatLessThanWellFounded, WFMin
<1>3. \A k \in P : m <= k
  <2>1. TAKE k \in P
  <2>2. k \in Nat /\ m \in Nat
    BY <1>1
  <2>3. ~(k < m)
    BY <1>2, <2>2 DEF OpToRel
  <2>. QED BY <2>2, <2>3
<1>4. PICK e \in S : m = Pos(e)
  OBVIOUS
<1>. QED BY <1>3, <1>4

-----------------------------------------------------------------------------
\* The points that fit the elements of the first n positions.
LEMMA FittingPoints ==
  \A layer, n, q, p :
    p \in Promise!Fitting(layer, n, q) <=>
      /\ p \in Promise!Points(layer, q)
      /\ \A e \in Evaluated(q.address, layer) : Pos(e) <= n => Promise!Fits(layer, p, e, q)
  BY SameElements, SameEvaluated DEF Promise!Fitting

LEMMA FittingShrinks ==
  ASSUME NEW layer, NEW q, NEW m \in Int, NEW n \in Int, m <= n
  PROVE  Promise!Fitting(layer, n, q) \subseteq Promise!Fitting(layer, m, q)
<1>. SUFFICES ASSUME NEW p \in Promise!Fitting(layer, n, q)
              PROVE  p \in Promise!Fitting(layer, m, q)
  OBVIOUS
<1>1. \A e \in Evaluated(q.address, layer) : Pos(e) <= m => Pos(e) <= n
  BY EvaluatedElements, PositionTypes
<1>. QED BY <1>1, FittingPoints

LEMMA FittingNext ==
  ASSUME NEW layer, NEW q, NEW n \in Nat, NEW e \in Evaluated(q.address, layer),
         Pos(e) > n,
         \A d \in Evaluated(q.address, layer) : Pos(d) > n => Pos(e) <= Pos(d)
  PROVE  Promise!Fitting(layer, Pos(e), q)
           = {p \in Promise!Fitting(layer, n, q) : Promise!Fits(layer, p, e, q)}
<1>1. \A d \in Evaluated(q.address, layer) : Pos(d) <= Pos(e) <=> Pos(d) <= n \/ d = e
  BY EvaluatedElements, PositionTypes, Positions
<1>. QED BY <1>1, FittingPoints

LEMMA ConfirmedPoints ==
  \A layer, e, q :
    Promise!Confirmed(layer, e, q) <=>
      IF e = Hno THEN layer = "ssap" /\ Promise!Fitting(layer, Pos(e), q) # {}
      ELSE \E p \in Promise!Fitting(layer, Pos(e), q) :
             "match" \in Promise!Comparisons(layer, p, e, q)
  BY SameElements DEF Promise!Confirmed

\* Until the house number is evaluated, both sides of a centre line fit or none.
LEMMA SidesTogether ==
  ASSUME NEW q, NEW n \in Int, n < Pos(Hno), NEW p \in Promise!Fitting("rcl", n, q),
         NEW t \in Sides
  PROVE  <<p[1], t>> \in Promise!Fitting("rcl", n, q)
<1>1. <<p[1], t>> \in Promise!Points("rcl", q)
  BY FittingPoints, SameElements DEF Promise!Points
<1>2. ASSUME NEW e \in Evaluated(q.address, "rcl"), Pos(e) <= n
      PROVE  Promise!Fits("rcl", <<p[1], t>>, e, q)
  <2>1. e # Hno /\ Pos(e) < Pos(Hno)
    BY <1>2, HouseNumber, EvaluatedElements, PositionTypes
  <2>2. Promise!Fits("rcl", p, e, q)
    BY <1>2, FittingPoints
  <2>. QED BY <2>1, <2>2, SameElements DEF Promise!Fits, Promise!Comparisons
<1>. QED BY <1>1, <1>2, FittingPoints

-----------------------------------------------------------------------------
\* Lists in which no element occurs twice.
LEMMA OnceEach ==
  \A S : /\ Once(S) = [e \in Elements |-> IF e \in S THEN 1 ELSE 0]
         /\ Once(S) \in [Elements -> Nat]
         /\ S \subseteq Elements => Listed(Once(S)) = S
  BY DEF Once, Put, Nothing, Listed

LEMMA PutOnce ==
  ASSUME NEW S, NEW T, S \cap T = {} PROVE Put(Once(S), T) = Once(S \cup T)
<1>1. \A e \in Elements : (IF e \in T THEN Once(S)[e] + 1 ELSE Once(S)[e])
                          = IF e \in S \cup T THEN 1 ELSE 0
  BY OnceEach
<1>. QED BY <1>1, OnceEach DEF Put

-----------------------------------------------------------------------------
\* One round of the filter.
LEMMA NextElement ==
  ToCome # {} => Element \in ToCome /\ \A d \in ToCome : Pos(Element) <= Pos(d)
<1>1. ToCome \in SUBSET Elements
  BY EvaluatedElements DEF ToCome
<1>. QED BY <1>1, FirstElement DEF Element

\* How a centre line whose side is open, or any other candidate, compares.
LEMMA ComparesAlike ==
  ASSUME NEW c, NEW p, NEW e, c[1] = p[1],
         \/ step = "ssap" /\ c[2] = "point"
         \/ step = "rcl" /\ c[2] = "none" /\ Pos(e) < Pos(Hno)
         \/ step = "rcl" /\ c[2] \in Sides /\ c[2] = p[2] /\ ~(Pos(e) < Pos(Hno))
  PROVE  Comparisons(c, e) = Promise!Comparisons(step, p, e, query)
<1>1. "none" \notin Sides /\ "point" \notin Sides
  BY DEF Sides
<1>2. CASE step = "ssap" /\ c[2] = "point"
  BY <1>2, SameComparison DEF Comparisons, Promise!Comparisons, address
<1>3. CASE step = "rcl" /\ c[2] = "none" /\ Pos(e) < Pos(Hno)
  BY <1>3, SameComparison, SameElements DEF Comparisons, Promise!Comparisons, address
<1>4. CASE step = "rcl" /\ c[2] \in Sides /\ c[2] = p[2] /\ ~(Pos(e) < Pos(Hno))
  BY <1>1, <1>4, SameComparison, SameElements DEF Comparisons, Promise!Comparisons, address
<1>. QED BY <1>2, <1>3, <1>4

\* What FitSoFar is when the elements up to e have been evaluated.
FitTo(e) ==
  LET fitting == Promise!Fitting(step, Pos(e), query)
  IN IF step = "rcl" /\ Pos(e) < Pos(Hno) THEN {p[1] : p \in fitting} \X {"none"}
     ELSE fitting

LEMMA KeptFits ==
  ASSUME Filtering, FilterAt(step), pos \in Nat, ToCome # {},
         address[Hno] \notin {Null, Empty}, NEW e, e = Element,
         NEW F, F = Promise!Fitting(step, pos, query),
         NEW G, G = Promise!Fitting(step, Pos(e), query)
  PROVE  /\ G = {p \in F : Promise!Fits(step, p, e, query)}
         /\ Kept(e) = FitTo(e)
<1>1. /\ e \in Evaluated(query.address, step) /\ Pos(e) > pos
      /\ \A d \in Evaluated(query.address, step) : Pos(d) > pos => Pos(e) <= Pos(d)
  BY NextElement DEF ToCome, address
<1>2. G = {p \in F : Promise!Fits(step, p, e, query)}
  BY <1>1, FittingNext
<1>3. Hno \in Evaluated(query.address, step)
  BY HouseNumberEvaluated DEF address
<1>4. e \in Elements /\ Pos(e) \in Nat /\ Pos(Hno) \in Nat /\ (Pos(e) = Pos(Hno) => e = Hno)
  BY <1>1, EvaluatedElements, HouseNumber, PositionTypes, Positions
<1>5. step = "ssap" => \A p \in F : p[2] = "point"
  BY FittingPoints DEF Promise!Points
<1>6. step = "rcl" => \A p \in F : p = <<p[1], p[2]>> /\ p[2] \in Sides
  BY FittingPoints, SameElements DEF Promise!Points
<1>7. CASE step = "ssap" /\ e # Hno
  <2>1. candidates = F /\ FitTo(e) = G
    BY <1>7 DEF FilterAt, FitSoFar, FitTo
  <2>2. \A p \in F : Comparisons(p, e) # {"mismatch"} <=> Promise!Fits(step, p, e, query)
    BY <1>5, <1>7, ComparesAlike DEF Promise!Fits
  <2>. QED BY <1>2, <1>7, <2>1, <2>2 DEF Kept
<1>8. CASE step = "ssap" /\ e = Hno
  <2>1. candidates = F /\ FitTo(e) = G
    BY <1>8 DEF FilterAt, FitSoFar, FitTo
  <2>. QED BY <1>2, <1>8, <2>1 DEF Kept, Numbered, Promise!Fits, address
<1>9. CASE step = "rcl" /\ Pos(e) < Pos(Hno)
  <2>1. /\ candidates = {p[1] : p \in F} \X {"none"}
        /\ FitTo(e) = {p[1] : p \in G} \X {"none"}
    BY <1>1, <1>4, <1>9 DEF FilterAt, FitSoFar, FitTo
  <2>2. e # Hno
    BY <1>4, <1>9
  <2>3. \A p \in F : Comparisons(<<p[1], "none">>, e) # {"mismatch"}
                     <=> Promise!Fits(step, p, e, query)
    <3>1. TAKE p \in F
    <3>2. Comparisons(<<p[1], "none">>, e) = Promise!Comparisons(step, p, e, query)
      BY <1>9, ComparesAlike
    <3>. QED BY <2>2, <3>2 DEF Promise!Fits
  <2>4. Kept(e) = {c \in candidates : Comparisons(c, e) # {"mismatch"}}
    BY <2>2 DEF Kept
  <2>. QED BY <1>2, <2>1, <2>3, <2>4
<1>10. CASE step = "rcl" /\ e = Hno
  <2>1. candidates = {p[1] : p \in F} \X {"none"} /\ FitTo(e) = G
    BY <1>1, <1>4, <1>10 DEF FilterAt, FitSoFar, FitTo
  <2>2. {d[1] : d \in candidates} = {p[1] : p \in F}
    <3>1. \A d \in candidates : d[1] \in {p[1] : p \in F}
      BY <2>1
    <3>2. ASSUME NEW p \in F PROVE p[1] \in {d[1] : d \in candidates}
      <4>1. <<p[1], "none">> \in candidates /\ <<p[1], "none">>[1] = p[1]
        BY <2>1
      <4>. QED BY <4>1
    <3>. QED BY <3>1, <3>2
  <2>3. {p[1] : p \in F} \X Sides = F
    <3>1. pos < Pos(Hno)
      BY <1>1, <1>4, <1>10
    <3>2. \A p \in F, t \in Sides : <<p[1], t>> \in F
      <4>1. F = Promise!Fitting("rcl", pos, query) /\ pos \in Int
        BY <1>10
      <4>. QED BY <3>1, <4>1, SidesTogether
    <3>. QED BY <1>6, <1>10, <3>2
  <2>4. Kept(e) = IF address[Hno] = NotNumber THEN {}
                  ELSE {c \in F : InRange(RCL[c[1]][c[2]], address[Hno])}
    BY <1>10, <2>2, <2>3 DEF Kept, Numbered
  <2>. QED BY <1>2, <1>10, <2>1, <2>4, SameComparison DEF Promise!Fits, address
<1>11. CASE step = "rcl" /\ Pos(e) > Pos(Hno)
  <2>1. Pos(Hno) <= pos
    BY <1>1, <1>3, <1>4, <1>11
  <2>2. candidates = F /\ FitTo(e) = G
    BY <1>1, <1>4, <1>11, <2>1 DEF FilterAt, FitSoFar, FitTo
  <2>3. e # Hno
    BY <1>4, <1>11
  <2>4. \A p \in F : Comparisons(p, e) # {"mismatch"} <=> Promise!Fits(step, p, e, query)
    <3>1. TAKE p \in F
    <3>2. Comparisons(p, e) = Promise!Comparisons(step, p, e, query)
      BY <1>4, <1>6, <1>11, ComparesAlike
    <3>. QED BY <2>3, <3>2 DEF Promise!Fits
  <2>. QED BY <1>2, <2>2, <2>3, <2>4 DEF Kept
<1>12. Pos(e) < Pos(Hno) \/ e = Hno \/ Pos(e) > Pos(Hno)
  BY <1>4
<1>. QED BY <1>2, <1>7, <1>8, <1>9, <1>10, <1>11, <1>12 DEF Filtering

LEMMA ConfirmsAgree ==
  ASSUME Filtering, FilterAt(step), pos \in Nat, ToCome # {},
         address[Hno] \notin {Null, Empty}, Kept(Element) # {}
  PROVE  Confirms(Element) <=> Promise!Confirmed(step, Element, query)
<1>1. PICK e : e = Element
  OBVIOUS
<1>2. PICK G : G = Promise!Fitting(step, Pos(e), query)
  OBVIOUS
<1>3. Kept(e) = FitTo(e) /\ Kept(e) # {} /\ G # {}
  <2>1. Kept(e) = FitTo(e)
    BY <1>1, <1>2, KeptFits
  <2>2. Kept(e) # {}
    BY <1>1
  <2>. QED BY <1>2, <2>1, <2>2 DEF FitTo
<1>4. e \in Elements /\ Pos(e) \in Nat /\ Pos(Hno) \in Nat
  BY <1>1, NextElement, EvaluatedElements, HouseNumber, PositionTypes DEF ToCome
<1>5. Promise!Confirmed(step, e, query)
        <=> IF e = Hno THEN step = "ssap"
            ELSE \E p \in G : "match" \in Promise!Comparisons(step, p, e, query)
  BY <1>2, <1>3, ConfirmedPoints, Zenon
<1>6. Confirms(e) <=> IF e = Hno THEN step = "ssap"
                      ELSE \E c \in Kept(e) : "match" \in Comparisons(c, e)
  BY DEF Confirms
<1>7. CASE e = Hno
  BY <1>1, <1>7, <1>5, <1>6
<1>8. CASE e # Hno /\ step = "rcl" /\ Pos(e) < Pos(Hno)
  <2>1. Kept(e) = {p[1] : p \in G} \X {"none"}
    BY <1>2, <1>3, <1>8 DEF FitTo
  <2>2. \A p \in G : Comparisons(<<p[1], "none">>, e) = Promise!Comparisons(step, p, e, query)
    BY <1>8, ComparesAlike
  <2>3. (\E c \in Kept(e) : "match" \in Comparisons(c, e))
          <=> \E p \in G : "match" \in Promise!Comparisons(step, p, e, query)
    <3>1. \A p \in G : <<p[1], "none">> \in Kept(e)
      BY <2>1
    <3>2. \A c \in Kept(e) : \E p \in G : c = <<p[1], "none">>
      BY <2>1
    <3>. QED BY <2>2, <3>1, <3>2
  <2>. QED BY <1>1, <1>8, <1>5, <1>6, <2>3
<1>9. CASE e # Hno /\ ~(step = "rcl" /\ Pos(e) < Pos(Hno))
  <2>1. Kept(e) = G
    BY <1>2, <1>3, <1>9 DEF FitTo
  <2>2. step = "ssap" => \A p \in G : p[2] = "point"
    BY <1>2, FittingPoints DEF Promise!Points
  <2>3. step = "rcl" => \A p \in G : p[2] \in Sides
    BY <1>2, FittingPoints, SameElements DEF Promise!Points
  <2>4. \A p \in G : Comparisons(p, e) = Promise!Comparisons(step, p, e, query)
    BY <1>9, <2>2, <2>3, ComparesAlike DEF Filtering
  <2>. QED BY <1>1, <1>9, <1>5, <1>6, <2>1, <2>4
<1>. QED BY <1>7, <1>8, <1>9

LEMMA KeepGoesOn ==
  ASSUME Filtering, FilterAt(step), pos \in Nat, address[Hno] \notin {Null, Empty}, Keep
  PROVE  FilterAt(step)'
<1>1. PICK e : e = Element
  OBVIOUS
<1>2. /\ ToCome # {} /\ Kept(e) # {} /\ candidates' = Kept(e) /\ pos' = Pos(e)
      /\ query' = query /\ step' = step /\ invalid' = invalid
  BY <1>1 DEF Keep
<1>3. candidates' = FitSoFar(step)'
  <2>1. Kept(e) = FitTo(e)
    BY <1>1, <1>2, KeptFits
  <2>. QED BY <1>2, <2>1 DEF FitTo, FitSoFar
<1>4. Seen(step)' = Seen(step) \cup {e} /\ e \notin Seen(step) /\ e \in Evaluated(address, step)
  <2>1. /\ e \in Evaluated(address, step) /\ Pos(e) > pos
        /\ \A d \in Evaluated(address, step) : Pos(d) > pos => Pos(e) <= Pos(d)
    BY <1>1, <1>2, NextElement DEF ToCome
  <2>2. \A d \in Evaluated(address, step) : Pos(d) <= Pos(e) <=> Pos(d) <= pos \/ d = e
    BY <2>1, EvaluatedElements, PositionTypes, Positions
  <2>3. Seen(step)' = {d \in Evaluated(address, step) : Pos(d) <= Pos(e)}
    BY <1>2 DEF Seen, address
  <2>. QED BY <2>1, <2>2, <2>3, EvaluatedElements, PositionTypes DEF Seen
<1>. DEFINE Good == {d \in Seen(step) : Promise!Confirmed(step, d, query)}
            Open == Skipped(address, step)
                      \cup {d \in Seen(step) : ~Promise!Confirmed(step, d, query)}
<1>5. valid = Once(Good) /\ unchecked = Once(Open) /\ invalid = {}
  BY DEF FilterAt
<1>6. e \notin Good /\ e \notin Open
  BY <1>4, EvaluatedElements
<1>7. CASE Promise!Confirmed(step, e, query)
  <2>1. valid' = Put(valid, {e}) /\ unchecked' = unchecked
    BY <1>1, <1>2, <1>7, ConfirmsAgree DEF Keep
  <2>2. valid' = Once(Good \cup {e}) /\ unchecked' = Once(Open)
    BY <1>5, <1>6, <2>1, PutOnce
  <2>3. Good \cup {e} = {d \in Seen(step)' : Promise!Confirmed(step, d, query)}
    BY <1>4, <1>7
  <2>4. Open = Skipped(address, step)
                 \cup {d \in Seen(step)' : ~Promise!Confirmed(step, d, query)}
    BY <1>4, <1>7
  <2>. QED BY <1>2, <1>3, <1>5, <2>2, <2>3, <2>4 DEF FilterAt, address, Once, Nothing, Put
<1>8. CASE ~Promise!Confirmed(step, e, query)
  <2>1. valid' = valid /\ unchecked' = Put(unchecked, {e})
    BY <1>1, <1>2, <1>8, ConfirmsAgree DEF Keep
  <2>2. valid' = Once(Good) /\ unchecked' = Once(Open \cup {e})
    BY <1>5, <1>6, <2>1, PutOnce
  <2>3. Good = {d \in Seen(step)' : Promise!Confirmed(step, d, query)}
    BY <1>4, <1>8
  <2>4. Open \cup {e} = Skipped(address, step)
                          \cup {d \in Seen(step)' : ~Promise!Confirmed(step, d, query)}
    BY <1>4, <1>8
  <2>. QED BY <1>2, <1>3, <1>5, <2>2, <2>3, <2>4 DEF FilterAt, address, Once, Nothing, Put
<1>. QED BY <1>7, <1>8

-----------------------------------------------------------------------------
\* Where the filters begin and end.
Layers == {"ssap", "rcl"}

LEMMA PointsOf ==
  \A q : /\ Promise!Points("ssap", q)
              = ActiveSsap(q.address, q.ssap, q.rcl, q.now) \X {"point"}
         /\ Promise!Points("rcl", q)
              = ActiveRcl(q.address, q.ssap, q.rcl, q.now) \X Sides
  BY SameActive, SameElements DEF Promise!Points

LEMMA FittingAtStart ==
  \A layer, q : Promise!Fitting(layer, 0, q) = Promise!Points(layer, q)
<1>1. TAKE layer, q
<1>2. \A e \in Evaluated(q.address, layer) : ~(Pos(e) <= 0)
  BY EvaluatedElements, PositionTypes
<1>3. \A p : p \in Promise!Fitting(layer, 0, q) <=> p \in Promise!Points(layer, q)
  BY <1>2, FittingPoints
<1>. QED BY <1>3

LEMMA NothingFitsNothing ==
  ASSUME NEW layer, NEW q, NEW n \in Nat, n <= Len(Hierarchy),
         Promise!Fitting(layer, n, q) = {}
  PROVE  Promise!FitsAll(layer, q) = {} /\ ~Promise!Single(layer, q)
<1>1. Promise!Fitting(layer, Len(Hierarchy), q) \subseteq Promise!Fitting(layer, n, q)
  BY PositionTypes, FittingShrinks
<1>2. Promise!FitsAll(layer, q) = {}
  BY <1>1 DEF Promise!FitsAll
<1>3. Cardinality({}) = 0
  BY FS_EmptySet
<1>. QED BY <1>2, <1>3, SameCardinality DEF Promise!Single

LEMMA BeginStarts ==
  ASSUME NEW layer \in Layers, NEW records, records # {},
         records = IF layer = "ssap"
                   THEN ActiveSsap(address, query.ssap, query.rcl, query.now)
                   ELSE ActiveRcl(address, query.ssap, query.rcl, query.now),
         Begin(layer, records \X {IF layer = "ssap" THEN "point" ELSE "none"})
  PROVE  FilterAt(layer)'
<1>1. /\ pos' = 0 /\ invalid' = {} /\ query' = query
      /\ valid' = Nothing /\ unchecked' = Once(Skipped(address, layer))
      /\ candidates' = records \X {IF layer = "ssap" THEN "point" ELSE "none"}
  BY DEF Begin, Once
<1>2. Promise!Fitting(layer, 0, query) = Promise!Points(layer, query)
  BY FittingAtStart
<1>3. 0 < Pos(Hno) /\ "L" \in Sides
  BY HouseNumber, PositionTypes DEF Sides
<1>4. candidates' = FitSoFar(layer)'
  <2>1. CASE layer = "ssap"
    BY <1>1, <1>2, <2>1, PointsOf DEF FitSoFar, address
  <2>2. CASE layer = "rcl"
    <3>1. Promise!Points("rcl", query) = records \X Sides
      BY <2>2, PointsOf DEF address
    <3>2. {p[1] : p \in records \X Sides} = records
      <4>1. \A r \in records : <<r, "L">> \in records \X Sides /\ <<r, "L">>[1] = r
        BY <1>3
      <4>. QED BY <4>1
    <3>. QED BY <1>1, <1>2, <1>3, <2>2, <3>1, <3>2 DEF FitSoFar
  <2>. QED BY <2>1, <2>2 DEF Layers
<1>5. candidates' # {}
  <2>1. PICK r \in records : TRUE
    OBVIOUS
  <2>2. <<r, IF layer = "ssap" THEN "point" ELSE "none">> \in candidates'
    BY <1>1, <2>1
  <2>. QED BY <2>2
<1>6. Seen(layer)' = {}
  <2>1. Seen(layer)' = {e \in Evaluated(query.address, layer) : Pos(e) <= 0}
    BY <1>1 DEF Seen, address
  <2>. QED BY <2>1, EvaluatedElements, PositionTypes
<1>7. Nothing = Once({})
  BY DEF Once, Put, Nothing
<1>8. /\ valid' = Once({e \in Seen(layer)' : Promise!Confirmed(layer, e, query)})
      /\ unchecked' = Once(Skipped(address, layer)
                            \cup {e \in Seen(layer)' : ~Promise!Confirmed(layer, e, query)})
  <2>1. /\ {e \in Seen(layer)' : Promise!Confirmed(layer, e, query)} = {}
        /\ {e \in Seen(layer)' : ~Promise!Confirmed(layer, e, query)} = {}
    BY <1>6
  <2>. QED BY <1>1, <1>7, <2>1
<1>. QED BY <1>1, <1>4, <1>5, <1>8 DEF FilterAt, address, Once, Nothing, Put

\* From the address points on to the centre lines.
LEMMA FallThroughGoesOn ==
  ASSUME FallThrough
  PROVE  \/ step' = "not found" /\ Promise!Points("rcl", query) = {}
            /\ UNCHANGED <<query, filterState, answer>>
         \/ step' = "rcl" /\ FilterAt("rcl")' /\ UNCHANGED <<query, answer>>
<1>1. PICK records : records = ActiveRcl(address, query.ssap, query.rcl, query.now)
  OBVIOUS
<1>2. CASE records = {}
  <2>1. Goto("not found")
    BY <1>1, <1>2 DEF FallThrough
  <2>. QED BY <1>1, <1>2, <2>1, PointsOf DEF Goto, address
<1>3. CASE records # {}
  <2>1. Begin("rcl", records \X {"none"})
    BY <1>1, <1>3 DEF FallThrough
  <2>2. FilterAt("rcl")'
    BY <1>1, <1>3, <2>1, BeginStarts DEF Layers
  <2>. QED BY <2>1, <2>2 DEF Begin
<1>. QED BY <1>2, <1>3

\* When the filter stops, its lists are those of the verdict.
LEMMA ListsOf ==
  \A layer, q :
    /\ Promise!Valid(layer, q)
         = {e \in Evaluated(q.address, layer) : Promise!Confirmed(layer, e, q)}
    /\ Promise!Failing(layer, q)
         = {e \in Evaluated(q.address, layer) : Promise!Fitting(layer, Pos(e), q) = {}}
    /\ Promise!Invalid(layer, q)
         = {e \in Promise!Failing(layer, q) :
              \A d \in Promise!Failing(layer, q) : Pos(e) <= Pos(d)}
    /\ Promise!Unchecked(layer, q)
         = Submitted(q.address) \ (Promise!Valid(layer, q) \cup Promise!Invalid(layer, q))
  BY SameEvaluated, SameElements
  DEF Promise!Valid, Promise!Failing, Promise!Invalid, Promise!Unchecked

LEMMA ConfirmedFits ==
  ASSUME NEW layer, NEW e, NEW q, Promise!Confirmed(layer, e, q)
  PROVE  Promise!Fitting(layer, Pos(e), q) # {}
  BY ConfirmedPoints

LEMMA ListsApart ==
  \A layer, q :
    /\ Promise!Valid(layer, q) \subseteq Submitted(q.address)
    /\ Promise!Invalid(layer, q) \subseteq Submitted(q.address)
    /\ Promise!Valid(layer, q) \cap Promise!Invalid(layer, q) = {}
  BY ListsOf, ConfirmedFits, EvaluatedElements

\* The filter has evaluated every element.
LEMMA EvaluatedAll ==
  ASSUME Filtering, FilterAt(step), pos \in 0 .. Len(Hierarchy), ToCome = {},
         address[Hno] # Null
  PROVE  /\ candidates = Promise!FitsAll(step, query)
         /\ Settled(step)
<1>. DEFINE E == Evaluated(query.address, step)
<1>1. \A e \in E : Pos(e) <= pos /\ Pos(e) <= Len(Hierarchy)
  BY EvaluatedElements, PositionTypes DEF ToCome, address
<1>2. Promise!Fitting(step, pos, query) = Promise!FitsAll(step, query)
  <2>1. \A p : p \in Promise!Fitting(step, pos, query)
                 <=> p \in Promise!Fitting(step, Len(Hierarchy), query)
    BY <1>1, FittingPoints
  <2>. QED BY <2>1 DEF Promise!FitsAll
<1>3. ~(pos < Pos(Hno))
  BY <1>1, HouseNumberEvaluated, HouseNumber, PositionTypes DEF address
<1>4. candidates = Promise!FitsAll(step, query)
  BY <1>2, <1>3 DEF FilterAt, FitSoFar
<1>5. Seen(step) = E
  BY <1>1 DEF Seen, address
<1>6. Promise!Invalid(step, query) = {}
  <2>1. ASSUME NEW e \in E PROVE Promise!Fitting(step, Pos(e), query) # {}
    <3>1. Promise!Fitting(step, pos, query) \subseteq Promise!Fitting(step, Pos(e), query)
      BY <1>1, EvaluatedElements, PositionTypes, FittingShrinks
    <3>2. Promise!Fitting(step, pos, query) # {}
      BY <1>2, <1>4 DEF FilterAt
    <3>. QED BY <3>1, <3>2
  <2>. QED BY <2>1, ListsOf
<1>7. {e \in Seen(step) : Promise!Confirmed(step, e, query)} = Promise!Valid(step, query)
  BY <1>5, ListsOf
<1>8. Skipped(address, step) \cup {e \in Seen(step) : ~Promise!Confirmed(step, e, query)}
        = Promise!Unchecked(step, query)
  BY <1>5, <1>6, ListsOf, EvaluatedElements DEF address
<1>. QED BY <1>4, <1>6, <1>7, <1>8 DEF FilterAt, Settled

\* The filter has met an element that nothing fits.
LEMMA StopFails ==
  ASSUME Filtering, FilterAt(step), pos \in 0 .. Len(Hierarchy), ToCome # {},
         address[Hno] \notin {Null, Empty}, Kept(Element) = {}
  PROVE  /\ Promise!FitsAll(step, query) = {} /\ ~Promise!Single(step, query)
         /\ Promise!Points(step, query) # {}
         /\ Promise!Invalid(step, query) = {Element}
         /\ valid = Once(Promise!Valid(step, query))
         /\ Put(unchecked, Remaining) = Once(Promise!Unchecked(step, query))
<1>. DEFINE E == Evaluated(query.address, step)
<1>1. PICK e : e = Element
  OBVIOUS
<1>2. /\ e \in E /\ Pos(e) > pos
      /\ \A d \in E : Pos(d) > pos => Pos(e) <= Pos(d)
  BY <1>1, NextElement DEF ToCome, address
<1>3. e \in Elements /\ \A d \in E : d \in Elements /\ Pos(d) \in Nat
  BY <1>2, EvaluatedElements, PositionTypes
<1>4. Promise!Fitting(step, Pos(e), query) = {}
  <2>1. FitTo(e) = {}
    BY <1>1, KeptFits
  <2>2. ASSUME NEW p \in Promise!Fitting(step, Pos(e), query) PROVE FALSE
    <3>1. CASE step = "rcl" /\ Pos(e) < Pos(Hno)
      <4>1. <<p[1], "none">> \in FitTo(e)
        BY <2>2, <3>1 DEF FitTo
      <4>. QED BY <2>1, <4>1
    <3>2. CASE ~(step = "rcl" /\ Pos(e) < Pos(Hno))
      BY <2>1, <2>2, <3>2 DEF FitTo
    <3>. QED BY <3>1, <3>2
  <2>. QED BY <2>2
<1>5. Promise!Fitting(step, pos, query) # {}
  BY DEF FilterAt, FitSoFar
<1>6. Promise!FitsAll(step, query) = {} /\ ~Promise!Single(step, query)
  BY <1>3, <1>4, PositionTypes, NothingFitsNothing
<1>7. Promise!Points(step, query) # {}
  BY <1>5, FittingPoints
<1>8. \A d \in E : Promise!Fitting(step, Pos(d), query) = {} <=> Pos(d) > pos
  <2>1. TAKE d \in E
  <2>2. CASE Pos(d) > pos
    <3>1. Promise!Fitting(step, Pos(d), query) \subseteq Promise!Fitting(step, Pos(e), query)
      BY <1>2, <1>3, <2>2, FittingShrinks
    <3>. QED BY <1>4, <2>2, <3>1
  <2>3. CASE Pos(d) <= pos
    <3>1. Promise!Fitting(step, pos, query) \subseteq Promise!Fitting(step, Pos(d), query)
      BY <1>3, <2>3, FittingShrinks
    <3>. QED BY <1>3, <1>5, <2>3, <3>1
  <2>. QED BY <1>3, <2>2, <2>3
<1>9. Promise!Failing(step, query) = ToCome
  BY <1>8, ListsOf DEF ToCome, address
<1>10. Promise!Invalid(step, query) = {e}
  <2>1. \A d \in ToCome : Pos(d) = Pos(e) => d = e
    BY <1>3, Positions DEF ToCome, address
  <2>2. e \in ToCome /\ \A d \in ToCome : Pos(e) <= Pos(d)
    BY <1>1, NextElement
  <2>3. \A d \in ToCome : Pos(d) \in Nat
    BY <1>3 DEF ToCome, address
  <2>. QED BY <1>9, <2>1, <2>2, <2>3, ListsOf
<1>11. {d \in Seen(step) : Promise!Confirmed(step, d, query)} = Promise!Valid(step, query)
  <2>1. \A d \in E : Promise!Confirmed(step, d, query) => Pos(d) <= pos
    BY <1>3, <1>8, ConfirmedFits
  <2>. QED BY <2>1, ListsOf DEF Seen, address
<1>12. Put(unchecked, Remaining) = Once(Promise!Unchecked(step, query))
  <2>. DEFINE Open == Skipped(address, step)
                        \cup {d \in Seen(step) : ~Promise!Confirmed(step, d, query)}
  <2>1. Open \cap Remaining = {}
    BY <1>3, EvaluatedElements DEF Remaining, ToCome, Seen, address
  <2>2. Put(unchecked, Remaining) = Once(Open \cup Remaining)
    BY <2>1, PutOnce DEF FilterAt
  <2>3. Open \cup Remaining = Promise!Unchecked(step, query)
    <3>1. E = Seen(step) \cup ToCome /\ Seen(step) \cap ToCome = {}
      BY <1>3 DEF Seen, ToCome, address
    <3>2. e \in ToCome /\ Remaining = ToCome \ {e}
      BY <1>1, NextElement DEF Remaining
    <3>3. Promise!Valid(step, query) \subseteq Seen(step)
      BY <1>11
    <3>4. Submitted(query.address) = Skipped(address, step) \cup E
          /\ Skipped(address, step) \cap E = {}
      BY EvaluatedElements DEF address
    <3>. QED BY <1>10, <1>11, <3>1, <3>2, <3>3, <3>4, ListsOf
  <2>. QED BY <2>2, <2>3
<1>. QED BY <1>1, <1>6, <1>7, <1>10, <1>11, <1>12 DEF FilterAt

-----------------------------------------------------------------------------
\* The answers.
LEMMA ServingSame == ServingBoundaries = Promise!Serving(query)
  BY SameComparison DEF ServingBoundaries, Promise!Serving

LEMMA SaySame == \A kind : Promise!Say(kind) = Say(kind)
  BY DEF Promise!Say, Say

LEMMA SettledReport ==
  ASSUME NEW layer, Settled(layer) PROVE Report = Promise!Report(layer, query)
<1>1. Promise!Valid(layer, query) \subseteq Elements
  BY ListsOf, EvaluatedElements
<1>2. Promise!Unchecked(layer, query) \subseteq Elements
  BY ListsOf DEF Submitted
<1>. QED BY <1>1, <1>2, OnceEach DEF Settled, Report, Promise!Report

LEMMA FiniteFits ==
  ASSUME QueryType(query), NEW layer \in Layers
  PROVE  IsFiniteSet(Promise!FitsAll(layer, query))
<1>. DEFINE A == ActiveSsap(address, query.ssap, query.rcl, query.now)
            B == ActiveRcl(address, query.ssap, query.rcl, query.now)
<1>1. A \subseteq query.ssap /\ B \subseteq query.rcl
  BY DEF ActiveSsap, SsapBucket, ActiveRcl, RclBucket
<1>2. IsFiniteSet(A) /\ IsFiniteSet(B)
  BY <1>1, FS_Subset DEF QueryType
<1>3. IsFiniteSet({"point"}) /\ IsFiniteSet(Sides)
  <2>1. Sides = {"L"} \cup {"R"}
    BY DEF Sides
  <2>. QED BY <2>1, FS_Singleton, FS_Union
<1>4. IsFiniteSet(A \X {"point"}) /\ IsFiniteSet(B \X Sides)
  <2>. HIDE DEF A, B
  <2>. QED BY <1>2, <1>3, FS_Product
<1>5. IsFiniteSet(Promise!Points(layer, query))
  BY <1>4, PointsOf DEF address, Layers
<1>6. Promise!FitsAll(layer, query) \subseteq Promise!Points(layer, query)
  BY FittingPoints DEF Promise!FitsAll
<1>. QED BY <1>5, <1>6, FS_Subset

LEMMA MatchAnswers ==
  ASSUME QueryType(query), NEW layer \in Layers, MatchedAt(layer), AssembleMatch
  PROVE  answer' = Promise!MatchVerdict(layer, query)
<1>1. PICK c : candidates = {c} /\ Promise!FitsAll(layer, query) = {c}
  <2>1. IsFiniteSet(candidates) /\ Cardinality(candidates) = 1
    BY FiniteFits DEF MatchedAt
  <2>2. \E c : candidates = {c}
    BY <2>1, FS_Singleton
  <2>. QED BY <2>2 DEF MatchedAt
<1>2. UNION {Region[p] : p \in Promise!FitsAll(layer, query)} = Region[c]
  BY <1>1
<1>3. answer' = IF Region[c] \cap ServingBoundaries = {}
                THEN Say("locationValidationUnavailable")
                ELSE Validation(Region[c] \cap ServingBoundaries)
  BY <1>1 DEF AssembleMatch, Answer
<1>4. Report = Promise!Report(layer, query)
  BY SettledReport DEF MatchedAt
<1>. QED BY <1>2, <1>3, <1>4, ServingSame, SaySame DEF Promise!MatchVerdict, Validation

-----------------------------------------------------------------------------
\* The civic coverage.  Keeping the first side of each key loses nothing that the
\* lookup of a boundary could tell.
Places == (DOMAIN RCL) \X Sides

LEMMA SidesInOrder ==
  /\ \A p, q \in Places : p = q \/ Before(p, q) \/ Before(q, p)
  /\ \A p, q \in Places : Before(p, q) => p # q /\ ~Before(q, p)
  /\ \A p, q, r \in Places : Before(p, q) /\ Before(q, r) => Before(p, r)
<1>1. \A p \in Places : p[1] \in Nat /\ p[2] \in {"L", "R"} /\ p = <<p[1], p[2]>>
  BY HierarchyAssumption DEF Places, Sides
<1>. QED BY <1>1 DEF Before

\* Some side of any that there are comes first.
LEMMA FirstIsFirst ==
  ASSUME NEW S, S \subseteq Places, S # {}
  PROVE  /\ FirstOf(S) \in S
         /\ \A q \in S : q = FirstOf(S) \/ Before(FirstOf(S), q)
<1>. DEFINE N == {p[1] : p \in S}
<1>1. N \subseteq Nat /\ N # {}
  BY HierarchyAssumption DEF Places
<1>2. PICK n \in N : \A m \in N : n <= m
  <2>. HIDE DEF N
  <2>1. PICK n \in N : \A m \in N : <<m, n>> \notin OpToRel(<, Nat)
    BY <1>1, NatLessThanWellFounded, WFMin
  <2>2. \A m \in N : m \in Nat /\ n \in Nat /\ ~(m < n)
    BY <1>1, <2>1 DEF OpToRel
  <2>3. \A m \in N : n <= m
    BY <2>2
  <2>. QED BY <2>3
<1>3. \A p \in S : p[1] \in Nat /\ n <= p[1] /\ n \in Nat
  BY <1>1, <1>2
<1>4. \E p \in S : \A q \in S : ~Before(q, p)
  <2>1. PICK p0 \in S : p0[1] = n
    BY <1>2
  <2>2. CASE \E p \in S : p[1] = n /\ p[2] = "L"
    <3>1. PICK p \in S : p[1] = n /\ p[2] = "L"
      BY <2>2
    <3>2. \A q \in S : ~Before(q, p)
      BY <1>3, <3>1 DEF Before
    <3>. QED BY <3>2
  <2>3. CASE ~\E p \in S : p[1] = n /\ p[2] = "L"
    <3>1. \A q \in S : ~Before(q, p0)
      BY <1>3, <2>1, <2>3 DEF Before
    <3>. QED BY <3>1
  <2>. QED BY <2>2, <2>3
<1>5. FirstOf(S) \in S /\ \A q \in S : ~Before(q, FirstOf(S))
  BY <1>4 DEF FirstOf
<1>. QED BY <1>5, SidesInOrder

\* A side that is not kept repeats one that is.
LEMMA KeptForEach ==
  ASSUME NEW rcl, rcl \subseteq DOMAIN RCL, NEW now, NEW p \in CoverageSides(rcl, now)
  PROVE  \E h \in Coverage(rcl, now) :
            EntryKey(h, now) = EntryKey(p, now) /\ (h = p \/ Before(h, p))
<1>. DEFINE S == {q \in CoverageSides(rcl, now) : EntryKey(q, now) = EntryKey(p, now)}
<1>1. S \subseteq Places /\ p \in S
  BY DEF CoverageSides, Places
<1>2. /\ FirstOf(S) \in S
      /\ \A q \in S : q = FirstOf(S) \/ Before(FirstOf(S), q)
  <2>. HIDE DEF S
  <2>. QED BY <1>1, FirstIsFirst
<1>3. FirstOf(S) \in Coverage(rcl, now)
  <2>1. SUFFICES ASSUME NEW q \in CoverageSides(rcl, now), Before(q, FirstOf(S)),
                        EntryKey(q, now) = EntryKey(FirstOf(S), now)
                 PROVE  FALSE
    BY <1>2 DEF Coverage
  <2>2. q \in S
    BY <1>2, <2>1
  <2>3. q \in Places /\ FirstOf(S) \in Places
    BY <1>1, <1>2, <2>2
  <2>. QED BY <1>2, <2>1, <2>2, <2>3, SidesInOrder
<1>. QED BY <1>1, <1>2, <1>3

LEMMA SameKeySameAdmin ==
  \A p, q, now : EntryKey(p, now) = EntryKey(q, now) => AdminOf(p) = AdminOf(q)
  BY DEF EntryKey

LEMMA SameRegion ==
  ASSUME QueryType(query), NEW admin
  PROVE  Lookup(admin) = Promise!RegionalBoundary(query, admin)
<1>. DEFINE now == query.loaded
            sides == CoverageSides(query.rcl, now)
            table == Coverage(query.rcl, now)
            best == MostSpecific(sides, admin)
            kept == MostSpecific(table, admin)
            nguid(p) == Boundaries[Containing(p, now)].nguid
            first == FirstOf(best)
<1>1. /\ sides \subseteq Places /\ table \subseteq sides
      /\ best \subseteq sides /\ kept \subseteq table
  BY DEF QueryType, CoverageSides, Places, Coverage, MostSpecific
<1>2. \A p \in sides : \E h \in table :
        EntryKey(h, now) = EntryKey(p, now) /\ (h = p \/ Before(h, p))
  BY KeptForEach DEF QueryType
<1>3. \A p \in table, q \in sides : Before(q, p) => EntryKey(q, now) # EntryKey(p, now)
  BY DEF Coverage
<1>4. /\ \A p \in best : Covers(AdminOf(p), admin)
      /\ \A p \in best, q \in sides :
           Covers(AdminOf(q), admin) => Specificity(AdminOf(q)) <= Specificity(AdminOf(p))
      /\ \A p \in sides : Covers(AdminOf(p), admin) /\
           (\A q \in sides : Covers(AdminOf(q), admin)
                              => Specificity(AdminOf(q)) <= Specificity(AdminOf(p)))
           => p \in best
      /\ \A p \in kept : Covers(AdminOf(p), admin)
      /\ \A p \in kept, q \in table :
           Covers(AdminOf(q), admin) => Specificity(AdminOf(q)) <= Specificity(AdminOf(p))
      /\ \A p \in table : Covers(AdminOf(p), admin) /\
           (\A q \in table : Covers(AdminOf(q), admin)
                              => Specificity(AdminOf(q)) <= Specificity(AdminOf(p)))
           => p \in kept
  BY DEF MostSpecific
<1>. HIDE DEF sides, table, best, kept
\* The table has the most specific sides that are not repeats.
<1>5. \A p, q \in sides : EntryKey(p, now) = EntryKey(q, now) /\ p \in best => q \in best
  BY <1>4, SameKeySameAdmin
<1>6. kept = best \cap table
  <2>1. ASSUME NEW p \in kept PROVE p \in best
    <3>1. ASSUME NEW q \in sides, Covers(AdminOf(q), admin)
          PROVE  Specificity(AdminOf(q)) <= Specificity(AdminOf(p))
      <4>1. PICK h \in table : EntryKey(h, now) = EntryKey(q, now)
        BY <1>2
      <4>2. AdminOf(h) = AdminOf(q)
        BY <4>1, SameKeySameAdmin
      <4>. QED BY <1>4, <3>1, <4>2
    <3>. QED BY <1>1, <1>4, <2>1, <3>1
  <2>2. ASSUME NEW p \in best, p \in table PROVE p \in kept
    BY <1>1, <1>4, <2>2
  <2>. QED BY <1>1, <2>1, <2>2
<1>7. CASE best = {}
  <2>1. kept = {}
    BY <1>6, <1>7
  <2>2. Lookup(admin) = Null
    BY <2>1 DEF Lookup, LookupCoverage, table, kept
  <2>3. Promise!RegionalBoundary(query, admin) = Null
    BY <1>7, SameSides, SameOrder DEF Promise!RegionalBoundary, best, sides
  <2>. QED BY <2>2, <2>3
<1>8. CASE best # {}
  <2>1. /\ first \in best /\ \A q \in best : q = first \/ Before(first, q)
    <3>1. best \subseteq Places
      BY <1>1
    <3>. QED BY <1>8, <3>1, FirstIsFirst
  <2>2. first \in kept
    <3>1. PICK h \in table :
            EntryKey(h, now) = EntryKey(first, now) /\ (h = first \/ Before(h, first))
      BY <1>1, <1>2, <2>1
    <3>2. h \in best
      BY <1>1, <1>5, <2>1, <3>1
    <3>3. h = first
      BY <1>1, <2>1, <3>1, <3>2, SidesInOrder
    <3>. QED BY <1>6, <2>1, <3>1, <3>3
  <2>3. FirstOf(kept) = first
    <3>1. /\ FirstOf(kept) \in kept
          /\ \A q \in kept : q = FirstOf(kept) \/ Before(FirstOf(kept), q)
      BY <1>1, <2>2, FirstIsFirst
    <3>2. FirstOf(kept) \in best /\ FirstOf(kept) \in Places /\ first \in Places
      BY <1>1, <1>6, <2>1, <3>1
    <3>. QED BY <2>1, <2>2, <3>1, <3>2, SidesInOrder
  <2>4. \A p \in best : p \in kept <=>
          ~\E o \in best : Before(o, p) /\ EntryKey(o, now) = EntryKey(p, now)
    <3>1. ASSUME NEW p \in best, p \in kept, NEW o \in best, Before(o, p),
                 EntryKey(o, now) = EntryKey(p, now)
          PROVE  FALSE
      BY <1>1, <1>3, <3>1
    <3>2. ASSUME NEW p \in best, p \notin kept
          PROVE  \E o \in best : Before(o, p) /\ EntryKey(o, now) = EntryKey(p, now)
      <4>1. PICK h \in table :
              EntryKey(h, now) = EntryKey(p, now) /\ (h = p \/ Before(h, p))
        BY <1>1, <1>2
      <4>2. h \in best /\ h # p
        BY <1>1, <1>5, <1>6, <3>2, <4>1
      <4>. QED BY <4>1, <4>2
    <3>. QED BY <3>1, <3>2
  <2>5. Lookup(admin)
          = IF /\ \A k \in Key : admin[k] \notin {Null, Empty}
               /\ ~\E p \in kept \ {first} :
                     nguid(first) = Null \/ nguid(p) = Null \/ nguid(first) # nguid(p)
            THEN Containing(first, now) ELSE Null
    <3>1. Lookup(admin)
            = IF /\ \A k \in Key : admin[k] \notin {Null, Empty}
                 /\ kept # {}
                 /\ ~\E p \in kept \ {FirstOf(kept)} :
                       \/ nguid(FirstOf(kept)) = Null \/ nguid(p) = Null
                       \/ nguid(FirstOf(kept)) # nguid(p)
              THEN Containing(FirstOf(kept), now) ELSE Null
      BY DEF Lookup, LookupCoverage, table, kept
    <3>. QED BY <2>2, <2>3, <3>1
  <2>6. Promise!RegionalBoundary(query, admin)
          = IF /\ \A k \in Key : admin[k] \notin {Null, Empty}
               /\ \A p \in best :
                    \/ p = first \/ (nguid(p) # Null /\ nguid(p) = nguid(first))
                    \/ \E o \in best : Before(o, p) /\ EntryKey(o, now) = EntryKey(p, now)
            THEN Containing(first, now) ELSE Null
    <3>1. Promise!RegionalBoundary(query, admin)
            = IF /\ \A k \in Key : admin[k] \notin {Null, Empty}
                 /\ best # {}
                 /\ \A p \in best :
                      \/ p = first \/ (nguid(p) # Null /\ nguid(p) = nguid(first))
                      \/ \E o \in best : Before(o, p) /\ EntryKey(o, now) = EntryKey(p, now)
              THEN Containing(first, now) ELSE Null
      BY SameSides, SameOrder DEF Promise!RegionalBoundary, best, sides
    <3>. QED BY <1>8, <3>1
  <2>7. (~\E p \in kept \ {first} :
            nguid(first) = Null \/ nguid(p) = Null \/ nguid(first) # nguid(p))
        <=> \A p \in best :
              \/ p = first \/ (nguid(p) # Null /\ nguid(p) = nguid(first))
              \/ \E o \in best : Before(o, p) /\ EntryKey(o, now) = EntryKey(p, now)
    BY <1>6, <2>4
  <2>. QED BY <2>5, <2>6, <2>7
<1>. QED BY <1>7, <1>8

LEMMA InvalidAnswers ==
  ASSUME QueryType(query), StoppedInv, AssembleInvalid
  PROVE  answer' = Promise!InvalidVerdict(query)
<1>1. PICK e \in Elements : invalid = {e} /\ Promise!Invalid("rcl", query) = {e}
  BY DEF StoppedInv, Settled
<1>2. answer' = IF ~OutOfCoverage(e) THEN Validation(ValidPrefixMapping)
                ELSE IF query.parent THEN Say("redirect") ELSE Say("notFound")
  BY <1>1 DEF AssembleInvalid, Answer
<1>4. OutOfCoverage(e) <=>
        \E d \in Promise!Invalid("rcl", query) \cap Admin :
          Promise!RegionalBoundary(query, Promise!DecidingAdmin(query, d)) = Null
  <2>1. Promise!DecidingAdmin(query, e)
          = [a \in Admin |-> IF a \notin Key /\ e \notin Key /\ Pos(a) <= Pos(e) THEN Null
                             ELSE address[a]]
    BY SameElements DEF Promise!DecidingAdmin, address
  <2>2. OutOfCoverage(e)
          <=> e \in Admin /\ Lookup(Promise!DecidingAdmin(query, e)) = Null
    BY <2>1 DEF OutOfCoverage
  <2>. QED BY <1>1, <2>2, SameRegion
<1>5. ValidPrefixMapping
        = {Promise!RegionalBoundary(query, Promise!ValidAdmin(query))}
  <2>1. Listed(valid) = Promise!Valid("rcl", query)
    BY OnceEach, ListsOf, EvaluatedElements DEF StoppedInv, Settled
  <2>2. Promise!ValidAdmin(query)
          = [a \in Admin |-> IF a \in Listed(valid) THEN address[a] ELSE Null]
    BY <2>1 DEF Promise!ValidAdmin, address
  <2>3. ValidPrefixMapping = {Lookup(Promise!ValidAdmin(query))}
    BY <2>2 DEF ValidPrefixMapping
  <2>. QED BY <2>3, SameRegion
<1>6. Report = Promise!Report("rcl", query)
  BY SettledReport DEF StoppedInv
<1>. QED BY <1>2, <1>4, <1>5, <1>6, SaySame DEF Promise!InvalidVerdict, Validation

\* An answer is the verdict, if what precedes it has been established.
LEMMA AnswersAreVerdicts ==
  ASSUME TypeOK, ProgressInv, Next, step' = "done"
  PROVE  answer = NoAnswer /\ query' = query /\ answer' = Promise!Verdict(query)
<1>1. CASE Gate0
  <2>1. ServingBoundaries = {} /\ Answer(Say("serviceNotImplemented"))
    BY <1>1 DEF Gate0, Goto
  <2>. QED BY <1>1, <2>1, ServingSame, SaySame DEF Gate0, ProgressInv, Answer, Promise!Verdict
<1>2. CASE Gate1
  <2>1. /\ \E e \in Required : address[e] \in {Null, Empty}
        /\ Answer(Say("locationInvalid"))
    BY <1>2 DEF Gate1, Goto
  <2>2. ServingBoundaries # {} /\ answer = NoAnswer
    BY <1>2 DEF Gate1, ProgressInv
  <2>. QED BY <2>1, <2>2, ServingSame, SaySame DEF Answer, Promise!Verdict, address
<1>3. CASE BeginFilter \/ Keep \/ Stop \/ Exhausted
  BY <1>3 DEF BeginFilter, Keep, Stop, Exhausted, FallThrough, StopSsap, Begin, Goto, Filtering
<1>4. CASE NotFound
  <2>1. answer' = Say("notFound") /\ query' = query /\ step = "not found"
    BY <1>4 DEF NotFound, Answer
  <2>2. /\ ServingBoundaries # {} /\ answer = NoAnswer
        /\ \A e \in Required : address[e] \notin {Null, Empty}
        /\ ~Promise!Single("ssap", query) /\ NotFoundInv
    BY <2>1 DEF ProgressInv
  <2>. QED BY <2>1, <2>2, ServingSame, SaySame DEF NotFoundInv, Promise!Verdict, address
<1>5. CASE AssembleMatch /\ step = "match ssap"
  <2>1. /\ ServingBoundaries # {} /\ answer = NoAnswer
        /\ \A e \in Required : address[e] \notin {Null, Empty}
        /\ MatchedAt("ssap")
    BY <1>5 DEF ProgressInv
  <2>2. answer' = Promise!MatchVerdict("ssap", query)
    BY <1>5, <2>1, MatchAnswers DEF TypeOK, Layers
  <2>3. Promise!Single("ssap", query)
    BY <2>1, SameCardinality DEF MatchedAt, Promise!Single
  <2>4. query' = query
    BY <1>5 DEF AssembleMatch, Answer
  <2>. QED BY <2>1, <2>2, <2>3, <2>4, ServingSame DEF Promise!Verdict, address
<1>6. CASE AssembleMatch /\ step = "match rcl"
  <2>1. /\ ServingBoundaries # {} /\ answer = NoAnswer
        /\ \A e \in Required : address[e] \notin {Null, Empty}
        /\ ~Promise!Single("ssap", query) /\ MatchedAt("rcl")
    BY <1>6 DEF ProgressInv
  <2>2. answer' = Promise!MatchVerdict("rcl", query)
    BY <1>6, <2>1, MatchAnswers DEF TypeOK, Layers
  <2>3. Promise!Single("rcl", query)
    BY <2>1, SameCardinality DEF MatchedAt, Promise!Single
  <2>4. Promise!FitsAll("rcl", query) # {}
    BY <2>3, FS_EmptySet, SameCardinality DEF Promise!Single
  <2>5. Promise!Points("rcl", query) # {}
    BY <2>4, FittingPoints DEF Promise!FitsAll
  <2>6. query' = query
    BY <1>6 DEF AssembleMatch, Answer
  <2>. QED BY <2>1, <2>2, <2>3, <2>4, <2>5, <2>6, ServingSame DEF Promise!Verdict, address
<1>7. CASE AssembleInvalid
  <2>1. /\ ServingBoundaries # {} /\ answer = NoAnswer
        /\ \A e \in Required : address[e] \notin {Null, Empty}
        /\ ~Promise!Single("ssap", query) /\ StoppedInv
    BY <1>7 DEF ProgressInv, AssembleInvalid
  <2>2. answer' = Promise!InvalidVerdict(query)
    BY <1>7, <2>1, InvalidAnswers DEF TypeOK
  <2>3. Promise!FitsAll("rcl", query) = {}
    <3>1. PICK e : e \in Promise!Failing("rcl", query)
      BY <2>1, ListsOf DEF StoppedInv, Settled
    <3>2. Promise!Fitting("rcl", Pos(e), query) = {} /\ e \in Elements
      BY <3>1, ListsOf, EvaluatedElements
    <3>. QED BY <3>2, PositionTypes, NothingFitsNothing
  <2>4. query' = query
    BY <1>7 DEF AssembleInvalid, Answer
  <2>. QED BY <2>1, <2>2, <2>3, <2>4, ServingSame DEF StoppedInv, Promise!Verdict, address
<1>. QED BY <1>1, <1>2, <1>3, <1>4, <1>5, <1>6, <1>7 DEF Next, AssembleMatch

\* Every submitted element is in one list once.
LEMMA SettledOnce ==
  ASSUME NEW layer, Settled(layer)
  PROVE  \A e \in Elements :
           valid[e] + unchecked[e] + (IF e \in invalid THEN 1 ELSE 0)
             = IF e \in Submitted(address) THEN 1 ELSE 0
<1>1. TAKE e \in Elements
<1>. DEFINE V == Promise!Valid(layer, query)
            U == Promise!Unchecked(layer, query)
            I == Promise!Invalid(layer, query)
<1>2. /\ valid[e] = IF e \in V THEN 1 ELSE 0
      /\ unchecked[e] = IF e \in U THEN 1 ELSE 0
      /\ invalid = I
  BY OnceEach DEF Settled
<1>3. /\ V \subseteq Submitted(address) /\ I \subseteq Submitted(address)
      /\ V \cap I = {} /\ U = Submitted(address) \ (V \cup I)
  BY ListsOf, ListsApart DEF address
<1>. HIDE DEF V, U, I
<1>. QED BY <1>2, <1>3

LEMMA AnswersReportOnce ==
  ASSUME ProgressInv, Next, step' = "done" PROVE ReportedOnce'
<1>1. ASSUME NEW kind, kind # "locationValidation", Answer(Say(kind)) PROVE ReportedOnce'
  <2>1. answer'.kind # "locationValidation"
    BY <1>1 DEF Answer, Say
  <2>. QED BY <2>1 DEF ReportedOnce
<1>2. ASSUME NEW layer, Settled(layer), NEW mapping, Answer(Validation(mapping))
      PROVE  ReportedOnce'
  <2>1. /\ answer'.report = Report /\ UNCHANGED <<query, valid, unchecked, invalid>>
    BY <1>2 DEF Answer, Validation, filterState
  <2>2. Report' = Report /\ Submitted(address)' = Submitted(address)
    BY <2>1 DEF Report, Listed, Submitted, address
  <2>3. \A e \in Elements :
          valid[e] + unchecked[e] + (IF e \in invalid THEN 1 ELSE 0)
            = IF e \in Submitted(address) THEN 1 ELSE 0
    BY <1>2, SettledOnce
  <2>. QED BY <2>1, <2>2, <2>3 DEF ReportedOnce
<1>3. CASE Gate0
  BY <1>1, <1>3 DEF Gate0, Goto
<1>4. CASE Gate1
  BY <1>1, <1>4 DEF Gate1, Goto
<1>5. CASE BeginFilter \/ Keep \/ Stop \/ Exhausted
  BY <1>5 DEF BeginFilter, Keep, Stop, Exhausted, FallThrough, StopSsap, Begin, Goto, Filtering
<1>6. CASE NotFound
  BY <1>1, <1>6 DEF NotFound
<1>7. CASE AssembleMatch
  <2>1. PICK layer : Settled(layer)
    BY <1>7 DEF AssembleMatch, ProgressInv, MatchedAt
  <2>. QED BY <1>1, <1>2, <1>7, <2>1 DEF AssembleMatch
<1>8. CASE AssembleInvalid
  <2>1. Settled("rcl")
    BY <1>8 DEF AssembleInvalid, ProgressInv, StoppedInv
  <2>. QED BY <1>1, <1>2, <1>8, <2>1 DEF AssembleInvalid
<1>. QED BY <1>3, <1>4, <1>5, <1>6, <1>7, <1>8 DEF Next

-----------------------------------------------------------------------------
\* The invariant.
LEMMA KeptTypes ==
  ASSUME QueryType(query), FilterAt(step), Filtering, NEW e
  PROVE  Kept(e) \subseteq Candidates
<1>. DEFINE F == Promise!Fitting(step, pos, query)
            Lines == (DOMAIN RCL) \X ({"none"} \cup Sides)
<1>1. /\ ActiveSsap(address, query.ssap, query.rcl, query.now) \subseteq DOMAIN SSAP
      /\ ActiveRcl(address, query.ssap, query.rcl, query.now) \subseteq DOMAIN RCL
  BY DEF ActiveSsap, SsapBucket, ActiveRcl, RclBucket, QueryType
<1>2. F \subseteq Promise!Points(step, query)
  BY FittingPoints
<1>3. CASE step = "ssap"
  <2>1. candidates = F
    BY <1>3 DEF FilterAt, FitSoFar
  <2>2. candidates \subseteq (DOMAIN SSAP) \X {"point"}
    BY <1>1, <1>2, <1>3, <2>1, PointsOf DEF address
  <2>3. Kept(e) \subseteq candidates
    BY <1>3 DEF Kept, Numbered
  <2>. QED BY <2>2, <2>3 DEF Candidates
<1>4. CASE step = "rcl"
  <2>1. \A p \in F : p[1] \in DOMAIN RCL /\ p \in (DOMAIN RCL) \X Sides
    BY <1>1, <1>2, <1>4, PointsOf DEF address
  <2>2. candidates = {p[1] : p \in F} \X {"none"} \/ candidates = F
    BY <1>4 DEF FilterAt, FitSoFar
  <2>3. candidates \subseteq Lines
    BY <2>1, <2>2
  <2>4. {d[1] : d \in candidates} \X Sides \subseteq Lines
    BY <2>3
  <2>5. Kept(e) \subseteq Lines
    BY <1>4, <2>3, <2>4 DEF Kept, Numbered
  <2>. QED BY <2>5 DEF Candidates
<1>. QED BY <1>3, <1>4 DEF Filtering

\* Gate 1 has seen to the house number.
LEMMA NumberGiven ==
  ASSUME ProgressInv, step \notin {"gate0", "gate1", "done"}
  PROVE  address[Hno] \notin {Null, Empty}
  BY HierarchyAssumption DEF ProgressInv

\* A step within a filter, or into it, keeps what precedes it.
LEMMA BeforeFilter ==
  ASSUME ProgressInv, query' = query, answer' = answer,
         step \notin {"gate0", "gate1", "done"}
  PROVE  /\ answer' = NoAnswer
         /\ ServingBoundaries' # {}
         /\ (\A e \in Required : address[e] \notin {Null, Empty})'
  BY DEF ProgressInv, ServingBoundaries, TemporallyActive, address

LEMMA FellThrough ==
  ASSUME ProgressInv, step \notin {"gate0", "gate1", "done"},
         ~Promise!Single("ssap", query), FallThrough
  PROVE  ProgressInv'
<1>1. CASE /\ step' = "not found" /\ Promise!Points("rcl", query) = {}
           /\ UNCHANGED <<query, filterState, answer>>
  <2>1. NotFoundInv'
    BY <1>1 DEF NotFoundInv
  <2>. QED BY <1>1, <2>1, BeforeFilter DEF ProgressInv
<1>2. CASE step' = "rcl" /\ FilterAt("rcl")' /\ UNCHANGED <<query, answer>>
  BY <1>2, BeforeFilter DEF ProgressInv
<1>. QED BY <1>1, <1>2, FallThroughGoesOn

LEMMA ProgressStep ==
  ASSUME TypeOK, ProgressInv, Next PROVE ProgressInv'
<1>1. CASE step' = "done"
  BY <1>1 DEF ProgressInv
<1>2. CASE Gate0 /\ step' # "done"
  <2>1. ServingBoundaries # {} /\ step = "gate0" /\ Goto("gate1")
    BY <1>2 DEF Gate0, Answer
  <2>. QED BY <2>1 DEF Goto, ProgressInv, ServingBoundaries, TemporallyActive
<1>3. CASE Gate1 /\ step' # "done"
  <2>1. /\ \A e \in Required : address[e] \notin {Null, Empty}
        /\ step = "gate1" /\ Goto("gate2")
    BY <1>3 DEF Gate1, Answer
  <2>. QED BY <2>1 DEF Goto, ProgressInv, ServingBoundaries, TemporallyActive, address
<1>4. CASE BeginFilter
  <2>1. PICK records : records = ActiveSsap(address, query.ssap, query.rcl, query.now)
    OBVIOUS
  <2>2. CASE records = {}
    <3>1. Promise!Points("ssap", query) = {}
      BY <2>1, <2>2, PointsOf DEF address
    <3>2. ~Promise!Single("ssap", query)
      BY <3>1, FittingAtStart, PositionTypes, NothingFitsNothing
    <3>. QED BY <1>4, <2>1, <2>2, <3>2, FellThrough DEF BeginFilter
  <2>3. CASE records # {}
    <3>1. Begin("ssap", records \X {"point"})
      BY <1>4, <2>1, <2>3 DEF BeginFilter
    <3>2. FilterAt("ssap")'
      BY <2>1, <2>3, <3>1, BeginStarts DEF Layers
    <3>3. step' = "ssap" /\ query' = query /\ answer' = answer
      BY <3>1 DEF Begin
    <3>. QED BY <1>4, <3>2, <3>3, BeforeFilter DEF BeginFilter, ProgressInv
  <2>. QED BY <2>2, <2>3
<1>5. ASSUME Filtering
      PROVE  /\ FilterAt(step) /\ pos \in Nat /\ pos \in 0 .. Len(Hierarchy)
             /\ address[Hno] \notin {Null, Empty} /\ step \notin {"gate0", "gate1", "done"}
             /\ (step = "rcl" => ~Promise!Single("ssap", query))
  <2>1. step \notin {"gate0", "gate1", "done"}
    BY <1>5 DEF Filtering
  <2>2. pos \in Nat /\ pos \in 0 .. Len(Hierarchy)
    BY PositionTypes DEF TypeOK
  <2>3. FilterAt(step) /\ (step = "rcl" => ~Promise!Single("ssap", query))
    <3>1. CASE step = "ssap"
      BY <3>1 DEF ProgressInv
    <3>2. CASE step = "rcl"
      BY <3>2 DEF ProgressInv
    <3>. QED BY <1>5, <3>1, <3>2 DEF Filtering
  <2>. QED BY <2>1, <2>2, <2>3, NumberGiven
<1>6. CASE Keep
  <2>1. Filtering
    BY <1>6 DEF Keep
  <2>2. FilterAt(step)'
    BY <1>5, <1>6, <2>1, KeepGoesOn
  <2>3. step' = step /\ query' = query /\ answer' = answer
    BY <1>6 DEF Keep
  <2>4. (step = "rcl" => ~Promise!Single("ssap", query))'
    BY <1>5, <2>1, <2>3
  <2>5. CASE step = "ssap"
    BY <1>5, <2>1, <2>2, <2>3, <2>5, BeforeFilter DEF ProgressInv
  <2>6. CASE step = "rcl"
    BY <1>5, <2>1, <2>2, <2>3, <2>4, <2>6, BeforeFilter DEF ProgressInv
  <2>. QED BY <2>1, <2>5, <2>6 DEF Filtering
<1>7. CASE Stop
  <2>1. Filtering /\ ToCome # {} /\ Kept(Element) = {}
    BY <1>7 DEF Stop
  <2>2. CASE step = "ssap"
    <3>1. ~Promise!Single("ssap", query)
      BY <1>5, <2>1, <2>2, StopFails
    <3>2. FallThrough
      BY <1>7, <2>2 DEF Stop, StopSsap
    <3>. QED BY <1>5, <2>1, <3>1, <3>2, FellThrough
  <2>3. CASE step = "rcl"
    <3>1. /\ step' = "invalid" /\ invalid' = {Element} /\ unchecked' = Put(unchecked, Remaining)
          /\ UNCHANGED <<query, valid, answer>>
      BY <1>7, <2>3 DEF Stop
    <3>2. /\ Promise!Points("rcl", query) # {}
          /\ Promise!Invalid("rcl", query) = {Element}
          /\ valid = Once(Promise!Valid("rcl", query))
          /\ Put(unchecked, Remaining) = Once(Promise!Unchecked("rcl", query))
      BY <1>5, <2>1, <2>3, StopFails
    <3>3. Element \in Elements
      BY <2>1, NextElement, EvaluatedElements DEF ToCome
    <3>4. Settled("rcl")'
      BY <3>1, <3>2 DEF Settled, Once, Put, Nothing
    <3>5. StoppedInv'
      BY <3>1, <3>2, <3>3, <3>4 DEF StoppedInv
    <3>. QED BY <1>5, <2>1, <2>3, <3>1, <3>5, BeforeFilter DEF ProgressInv
  <2>. QED BY <2>1, <2>2, <2>3 DEF Filtering
<1>8. CASE Exhausted
  <2>1. Filtering /\ ToCome = {}
    BY <1>8 DEF Exhausted
  <2>2. candidates = Promise!FitsAll(step, query) /\ Settled(step) /\ candidates # {}
    BY <1>5, <2>1, EvaluatedAll DEF FilterAt
  <2>3. Promise!Single(step, query) <=> Cardinality(candidates) = 1
    BY <2>2, SameCardinality DEF Promise!Single
  <2>4. ASSUME Cardinality(candidates) = 1, UNCHANGED <<query, filterState>>
        PROVE  MatchedAt(step) /\ \A layer : layer = step => MatchedAt(layer)'
    BY <2>2, <2>4 DEF MatchedAt, Settled, filterState, Once, Put, Nothing
  <2>5. CASE Cardinality(candidates) = 1 /\ step = "ssap"
    <3>1. step' = "match ssap" /\ UNCHANGED <<query, filterState, answer>>
      BY <1>8, <2>5 DEF Exhausted, Goto
    <3>. QED BY <1>5, <2>1, <2>4, <2>5, <3>1, BeforeFilter DEF ProgressInv
  <2>6. CASE Cardinality(candidates) = 1 /\ step = "rcl"
    <3>1. step' = "match rcl" /\ UNCHANGED <<query, filterState, answer>>
      BY <1>8, <2>6 DEF Exhausted, Goto
    <3>. QED BY <1>5, <2>1, <2>4, <2>6, <3>1, BeforeFilter DEF ProgressInv
  <2>7. CASE Cardinality(candidates) # 1 /\ step = "ssap"
    <3>1. FallThrough /\ ~Promise!Single("ssap", query)
      BY <1>8, <2>3, <2>7 DEF Exhausted
    <3>. QED BY <1>5, <2>1, <3>1, FellThrough
  <2>8. CASE Cardinality(candidates) # 1 /\ step = "rcl"
    <3>1. step' = "not found" /\ UNCHANGED <<query, filterState, answer>>
      BY <1>8, <2>8 DEF Exhausted, Goto
    <3>2. NotFoundInv'
      BY <2>2, <2>3, <2>8, <3>1 DEF NotFoundInv
    <3>. QED BY <1>5, <2>1, <2>8, <3>1, <3>2, BeforeFilter DEF ProgressInv
  <2>. QED BY <2>1, <2>5, <2>6, <2>7, <2>8 DEF Filtering
<1>9. CASE NotFound \/ AssembleMatch \/ AssembleInvalid
  BY <1>1, <1>9 DEF NotFound, AssembleMatch, AssembleInvalid, Answer
<1>. QED BY <1>1, <1>2, <1>3, <1>4, <1>6, <1>7, <1>8, <1>9 DEF Next

LEMMA ListTypes ==
  /\ Nothing \in [Elements -> Nat]
  /\ \A S : \A list \in [Elements -> Nat] : Put(list, S) \in [Elements -> Nat]
  BY DEF Nothing, Put

LEMMA BeginTypes ==
  ASSUME TypeOK, NEW layer \in Layers, NEW start \in SUBSET Candidates, Begin(layer, start)
  PROVE  TypeOK'
<1>1. /\ query' = query /\ step' \in Steps /\ pos' = 0 /\ candidates' \subseteq Candidates
      /\ invalid' \subseteq Elements
      /\ valid' = Nothing /\ unchecked' = Put(Nothing, Skipped(address, layer))
  BY DEF Begin, Layers, Steps
<1>2. valid' \in [Elements -> Nat] /\ unchecked' \in [Elements -> Nat]
  BY <1>1, ListTypes
<1>3. pos' \in 0 .. Len(Hierarchy)
  BY <1>1, PositionTypes
<1>. QED BY <1>1, <1>2, <1>3 DEF TypeOK, QueryType

LEMMA FallThroughTypes ==
  ASSUME TypeOK, FallThrough PROVE TypeOK'
<1>1. PICK records : records = ActiveRcl(address, query.ssap, query.rcl, query.now)
  OBVIOUS
<1>2. CASE Goto("not found")
  BY <1>2 DEF Goto, TypeOK, QueryType, filterState, Steps
<1>3. CASE Begin("rcl", records \X {"none"})
  <2>1. records \subseteq DOMAIN RCL
    BY <1>1 DEF ActiveRcl, RclBucket, TypeOK, QueryType
  <2>2. records \X {"none"} \subseteq Candidates
    BY <2>1 DEF Candidates
  <2>. QED BY <1>3, <2>2, BeginTypes DEF Layers
<1>. QED BY <1>1, <1>2, <1>3 DEF FallThrough

LEMMA TypeStep ==
  ASSUME TypeOK, ProgressInv, Next PROVE TypeOK'
<1>1. ASSUME NEW a, Answer(a) PROVE TypeOK'
  BY <1>1 DEF Answer, TypeOK, QueryType, filterState, Steps
<1>2. ASSUME NEW s \in Steps, Goto(s) PROVE TypeOK'
  BY <1>2 DEF Goto, TypeOK, QueryType, filterState
<1>3. {"gate1", "gate2", "match ssap", "match rcl", "not found", "invalid"} \subseteq Steps
  BY DEF Steps
<1>4. CASE Gate0
  BY <1>1, <1>2, <1>3, <1>4 DEF Gate0
<1>5. CASE Gate1
  BY <1>1, <1>2, <1>3, <1>5 DEF Gate1
<1>6. CASE BeginFilter
  <2>1. PICK records : records = ActiveSsap(address, query.ssap, query.rcl, query.now)
    OBVIOUS
  <2>2. records \subseteq DOMAIN SSAP
    BY <2>1 DEF ActiveSsap, SsapBucket, TypeOK, QueryType
  <2>3. records \X {"point"} \subseteq Candidates
    BY <2>2 DEF Candidates
  <2>4. FallThrough \/ Begin("ssap", records \X {"point"})
    BY <1>6, <2>1 DEF BeginFilter
  <2>. QED BY <2>3, <2>4, FallThroughTypes, BeginTypes DEF Layers
<1>7. CASE Keep
  <2>1. /\ Filtering /\ ToCome # {} /\ query' = query /\ step' = step /\ invalid' = invalid
        /\ candidates' = Kept(Element) /\ pos' = Pos(Element)
        /\ \/ valid' = Put(valid, {Element}) /\ unchecked' = unchecked
           \/ unchecked' = Put(unchecked, {Element}) /\ valid' = valid
    BY <1>7 DEF Keep
  <2>2. FilterAt(step)
    <3>1. CASE step = "ssap"
      BY <3>1 DEF ProgressInv
    <3>2. CASE step = "rcl"
      BY <3>2 DEF ProgressInv
    <3>. QED BY <2>1, <3>1, <3>2 DEF Filtering
  <2>3. candidates' \subseteq Candidates
    BY <2>1, <2>2, KeptTypes DEF TypeOK
  <2>4. pos' \in 0 .. Len(Hierarchy)
    BY <2>1, NextElement, EvaluatedElements, PositionTypes DEF ToCome
  <2>5. valid' \in [Elements -> Nat] /\ unchecked' \in [Elements -> Nat]
    BY <2>1, ListTypes DEF TypeOK
  <2>. QED BY <2>1, <2>3, <2>4, <2>5 DEF TypeOK, QueryType
<1>8. CASE Stop
  <2>1. CASE step = "ssap"
    BY <1>8, <2>1, FallThroughTypes DEF Stop, StopSsap
  <2>2. CASE step # "ssap"
    <3>1. /\ query' = query /\ step' = "invalid" /\ pos' = pos /\ candidates' = {}
          /\ valid' = valid /\ unchecked' = Put(unchecked, Remaining)
          /\ invalid' = {Element} /\ ToCome # {}
      BY <1>8, <2>2 DEF Stop
    <3>2. Element \in Elements
      BY <3>1, NextElement, EvaluatedElements DEF ToCome
    <3>3. unchecked' \in [Elements -> Nat]
      BY <3>1, ListTypes DEF TypeOK
    <3>. QED BY <1>3, <3>1, <3>2, <3>3 DEF TypeOK, QueryType
  <2>. QED BY <2>1, <2>2
<1>9. CASE Exhausted
  BY <1>2, <1>3, <1>9, FallThroughTypes DEF Exhausted
<1>10. CASE NotFound
  BY <1>1, <1>10 DEF NotFound
<1>11. CASE AssembleMatch
  BY <1>1, <1>11 DEF AssembleMatch
<1>12. CASE AssembleInvalid
  BY <1>1, <1>12 DEF AssembleInvalid
<1>. QED BY <1>4, <1>5, <1>6, <1>7, <1>8, <1>9, <1>10, <1>11, <1>12 DEF Next

LEMMA InvStart == Init => FilterInv
<1>. SUFFICES ASSUME Init PROVE FilterInv
  OBVIOUS
<1>1. /\ query \in Queries /\ step = "gate0" /\ pos = 0 /\ candidates = {}
      /\ valid = Nothing /\ unchecked = Nothing /\ invalid = {} /\ answer = NoAnswer
  BY DEF Init
<1>2. TypeOK
  BY <1>1, QueriesAssumption, PositionTypes, ListTypes DEF TypeOK, Steps
<1>. QED BY <1>1, <1>2 DEF FilterInv, ProgressInv, ReportedOnce

LEMMA InvStep == FilterInv /\ [Next]_vars => FilterInv'
<1>. SUFFICES ASSUME FilterInv, [Next]_vars PROVE FilterInv'
  OBVIOUS
<1>1. CASE UNCHANGED vars
  <2>1. TypeOK'
    BY <1>1 DEF FilterInv, TypeOK, QueryType, vars
  <2>2. ProgressInv'
    BY ZenonT(30), <1>1 DEF FilterInv, ProgressInv, FilterAt, FitSoFar, Seen, MatchedAt, Settled,
                StoppedInv, NotFoundInv, ServingBoundaries, TemporallyActive, address,
                Once, Put, Nothing, vars
  <2>3. ReportedOnce'
    BY <1>1 DEF FilterInv, ReportedOnce, Report, Listed, Submitted, address, vars
  <2>. QED BY <2>1, <2>2, <2>3 DEF FilterInv
<1>2. CASE Next
  <2>1. TypeOK' /\ ProgressInv'
    BY <1>2, TypeStep, ProgressStep DEF FilterInv
  <2>2. ReportedOnce'
    <3>1. CASE step' = "done"
      BY <1>2, <3>1, AnswersReportOnce DEF FilterInv
    <3>2. CASE step' # "done"
      BY <2>1, <3>2 DEF ProgressInv, ReportedOnce
    <3>. QED BY <3>1, <3>2
  <2>. QED BY <2>1, <2>2 DEF FilterInv
<1>. QED BY <1>1, <1>2

\* For any hierarchy, any finite GIS data and any request: at every step the
\* filter's candidates and lists are what the verdict gives for the elements
\* evaluated so far, and an answer reports every submitted element once
\* (validation/gate2.py, _filter_ssap and _filter_rcl).
THEOREM FilterInvariant == Spec => []FilterInv
<1>. QED BY InvStart, InvStep, PTL DEF Spec

\* The filter, its early stop, the fall-through from one layer to the other and
\* the assembly of the answer implement AddressVerdict: the one answer that
\* handle_find_service gives is the verdict (lost/find_service.py:877-932).
THEOREM AnswersFollowVerdict == Spec => FollowsVerdict
<1>1. Init => Promise!Init
  BY DEF Init, Promise!Init
<1>2. FilterInv /\ [Next]_vars => [Promise!Next]_<<query, answer>>
  <2>. SUFFICES ASSUME FilterInv, [Next]_vars PROVE [Promise!Next]_<<query, answer>>
    OBVIOUS
  <2>1. CASE UNCHANGED vars
    BY <2>1 DEF vars
  <2>2. CASE Next /\ step' = "done"
    BY <2>2, AnswersAreVerdicts DEF FilterInv, Promise!Next
  <2>3. CASE Next /\ step' # "done"
    <3>1. query' = query
      BY <2>3 DEF Next, Gate0, Gate1, BeginFilter, Keep, Stop, StopSsap, Exhausted, FallThrough,
                  Begin, NotFound, AssembleMatch, AssembleInvalid, Goto, Answer
    <3>2. step # "done"
      BY <2>3 DEF Next, Gate0, Gate1, BeginFilter, Keep, Stop, Exhausted, Filtering,
                  NotFound, AssembleMatch, AssembleInvalid
    <3>3. answer' = NoAnswer /\ answer = NoAnswer
      BY <2>3, <3>2, ProgressStep DEF FilterInv, ProgressInv
    <3>. QED BY <3>1, <3>3
  <2>. QED BY <2>1, <2>2, <2>3
<1>. QED BY <1>1, <1>2, FilterInvariant, PTL DEF Spec, FollowsVerdict, Promise!Spec
=============================================================================

------------------------------ MODULE MCAddress ------------------------------
(***************************************************************************)
(* A small county for AddressValidation: one street along a town border,   *)
(* where ranges overlap, fields are absent and data change over time.      *)
(* The country is left out: it is treated as A1 and A2 are.                *)
(***************************************************************************)
EXTENDS AddressValidation

MCHierarchy == <<"a1", "a2", "a3", "a4", "rd", "hno", "hnp", "site", "pc", "dt">>

\* Fields that are not given are absent.
Fields(given) ==
  [e \in Elements |-> IF e \in DOMAIN given THEN given[e] ELSE Null]

Point(number, given) ==
  [number |-> number, field |-> Fields(given), effective |-> Null, expires |-> Null]

MCSSAP ==
  << Point(10, [a1 |-> "ST", a2 |-> "Co", a3 |-> "Town", rd |-> "Oak",
                site |-> "Mall", pc |-> "1"]),
     Point(10, [a1 |-> "ST", a2 |-> "Co", a3 |-> "Town", rd |-> "Oak",
                site |-> "Kiosk"]),
     [Point(11, [a1 |-> "ST", a2 |-> "Co", a4 |-> "North", rd |-> "Oak",
                 hnp |-> "N", pc |-> "2"]) EXCEPT !.effective = 2] >>

Side(from, to, parity, given) ==
  [from |-> from, to |-> to, parity |-> parity, valid |-> Null, spelling |-> "Town",
   field |-> Fields(given)]
Line(left, right) == [L |-> left, R |-> right, effective |-> Null, expires |-> Null]
NoSide == Side(Null, Null, "Z", [rd |-> "Oak"])

TownOf(number) == Side(number, number, "B", [a1 |-> "ST", a2 |-> "Co", a3 |-> "Town", rd |-> "Ash"])

\* 1 has 10 on both sides, in two quarters; 2 follows it, without a town on its
\* left; 3 is the old 2, in force before time 2.  4 to 6 are another street of the
\* town, in boundaries that are the same in name, in NGUID or in neither; 6 spells
\* the town in another way on its left.
MCRCL ==
  << Line(Side(1, 10, Null, [a1 |-> "ST", a2 |-> "Co", a3 |-> "Town",
                             a4 |-> "North", rd |-> "Oak", pc |-> "1"]),
          Side(10, 10, "E", [a1 |-> "ST", a2 |-> "Co", a3 |-> "Town",
                             a4 |-> "South", rd |-> "Oak", hnp |-> "N"])),
     Line(Side(11, 19, "O", [a1 |-> "ST", a2 |-> "Co", rd |-> "Oak", pc |-> "2"]),
          [Side(11, 20, "B", [a1 |-> "ST", a2 |-> "Co", a3 |-> "Town",
                              rd |-> "Oak"]) EXCEPT !.valid = "N"]),
     [Line(Side(11, 11, "B", [a1 |-> "ST", a2 |-> "Co", a3 |-> "Ville", rd |-> "Oak"]),
           Side(Null, 11, "Z", [a1 |-> "ST", a2 |-> "Far", rd |-> "Oak"]))
        EXCEPT !.expires = 2],
     Line(TownOf(1), TownOf(2)),
     Line(TownOf(3), NoSide),
     Line([TownOf(4) EXCEPT !.spelling = "TOWN"], NoSide) >>

Boundary(urn, name, nguid, expires) ==
  [urn |-> urn, name |-> name, nguid |-> nguid, effective |-> Null, expires |-> expires]
MCBoundaries ==
  <<Boundary("sos", "East", "n1", Null), Boundary("sos", "East", Null, Null),
    Boundary("police", "East", "n1", Null), Boundary("fire", "East", Null, 2)>>
PointRegion == <<{1, 2}, {1, 4}, {3}>>
LineRegion ==
  << [L |-> {1, 4}, R |-> {2, 3}], [L |-> {}, R |-> {1, 4}], [L |-> {1, 4}, R |-> {}],
     [L |-> {1, 4}, R |-> {2, 3}], [L |-> {3}, R |-> {}], [L |-> {2, 3}, R |-> {}] >>
MCRegion ==
  [p \in ((DOMAIN MCSSAP) \X {"point"}) \cup ((DOMAIN MCRCL) \X Sides) |->
     IF p[2] = "point" THEN PointRegion[p[1]] ELSE LineRegion[p[1]][p[2]]]

-----------------------------------------------------------------------------
Full ==
  [a1 : {"ST"}, a2 : {"Co", "Far"}, a3 : {Null, "Town"}, a4 : {Null, "North", "West"},
   rd : {"Oak", "Elm"}, hno : {10, 11, NotNumber}, hnp : {Null, "N"},
   site : {Null, Empty, "Mall"}, pc : {Null, "2"}, dt : {"house"}]

\* Addresses that differ in their administrative area and street only.
Places ==
  {a \in Full : a.hno = 10 /\ a.hnp = Null /\ a.site = Null /\ a.pc = Null}

\* Addresses with less than Gate 1 requires, or hardly more.
Partial ==
  [a1 : {Null, Empty, "ST"}, a2 : {"Co", Empty}, a3 : {Null}, a4 : {Null, Empty},
   rd : {"Oak", Null}, hno : {10, Empty}, hnp : {Null}, site : {Null}, pc : {Null},
   dt : {Null}]

Request(asked, ssap, rcl, urn, parent, loaded, now) ==
  [address |-> asked, ssap |-> ssap, rcl |-> rcl, urn |-> urn, parent |-> parent,
   loaded |-> loaded, now |-> now]

AllPoints == DOMAIN MCSSAP
OakLines == {1, 2, 3}

MCQueries ==
  \* the whole county: loaded and asked before time 2, after it, or across it
  {Request(a, AllPoints, OakLines, "sos", m[1], m[2], m[3]) :
     a \in Full, m \in {<<TRUE, 1, 1>>, <<FALSE, 2, 2>>, <<TRUE, 1, 2>>}}
  \cup \* one layer, or less of both
  {Request(a, m[1], m[2], "sos", m[3], 2, 2) :
     a \in Full,
     m \in {<<{}, OakLines, TRUE>>, <<{1}, {1}, FALSE>>, <<{1, 2}, {}, TRUE>>}}
  \cup \* another street, in boundaries that merge, agree, conflict or are spelled apart
  {Request(a, {}, lines, "sos", TRUE, 2, 2) :
     a \in Places, lines \in {{1, 2, 4}, {2, 5}, {4, 5}, {4, 6}, {5, 6}}}
  \cup \* other services, and addresses that are incomplete
  {Request(a, AllPoints, OakLines, urn, FALSE, now, now) :
     a \in Partial, urn \in {"sos", "police", "fire", "marine"}, now \in {1, 2}}
=============================================================================

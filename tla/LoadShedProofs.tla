--------------------------- MODULE LoadShedProofs ---------------------------
(***************************************************************************)
(* Theorems about LoadShed, for any sources, limits and windows, with or   *)
(* without GIS reloads: its debounce first, in which the sequences of the  *)
(* rate limiter take no part, then the rate limiter and the slots.         *)
(***************************************************************************)
EXTENDS LoadShed, SequenceTheorems, WellFoundedInduction, TLAPS

AgeOrNone == Nat \cup {None}

Types ==
  /\ streak \in AgeOrNone /\ lastShed \in AgeOrNone
  /\ shedAges \subseteq Nat
  /\ service \in {"Normal", "Partial"}

\* The sheds of a streak leave no gap longer than the grace: whatever moment
\* between its start and the last shed one takes, a shed was at most the grace
\* later.  The ages stop at the horizon, where the last shed is no longer placed.
StreakInv ==
  streak # None =>
    /\ lastShed # None
    /\ lastShed # Horizon =>
         \A a \in 0 .. Trip : lastShed <= a /\ a <= streak =>
           \E b \in shedAges : a <= b + Grace /\ b <= a

ShedInv == Types /\ StreakInv

\* A gap is measured from the last shed: what the shed that extends a streak
\* finds covered, and what it covers itself.
Covered(top, ages) ==
  \A a \in 0 .. Trip : a <= top => \E b \in ages : a <= b + Grace /\ b <= a

LEMMA HorizonIsFar == Horizon \in Nat /\ Trip <= Horizon /\ 0 < Horizon
BY LoadShedAssumption DEF Horizon

LEMMA StreakIsCovered ==
  ASSUME Types, StreakInv
  PROVE  StreakAfterShed \in Nat /\ Covered(StreakAfterShed, shedAges \cup {0})
<1>. USE LoadShedAssumption, HorizonIsFar DEF Types, AgeOrNone
<1>1. CASE StreakAfterShed = 0
  BY <1>1 DEF Covered
<1>2. CASE StreakAfterShed # 0
  <2>1. /\ streak # None /\ lastShed # None /\ StreakAfterShed = streak
        /\ streak \in Nat /\ lastShed \in Nat /\ lastShed <= Grace
    BY <1>2 DEF StreakAfterShed
  <2>2. ASSUME NEW a \in 0 .. Trip, a <= streak
        PROVE  \E b \in shedAges \cup {0} : a <= b + Grace /\ b <= a
    <3>1. CASE a <= Grace
      BY <3>1
    <3>2. CASE Grace < a
      <4>1. lastShed <= a /\ lastShed # Horizon
        BY <2>1, <3>2
      <4>2. QED
        BY <2>1, <2>2, <4>1 DEF StreakInv
    <3>3. QED
      BY <3>1, <3>2
  <2>3. QED
    BY <2>1, <2>2 DEF Covered
<1>3. QED
  BY <1>1, <1>2

LEMMA ShedPreserves ==
  ASSUME ShedInv, Shed
  PROVE  /\ streak' \in AgeOrNone /\ lastShed' \in AgeOrNone
         /\ shedAges' \subseteq Nat /\ service' \in {"Normal", "Partial"}
         /\ StreakInv'
<1>1. StreakAfterShed \in Nat /\ Covered(StreakAfterShed, shedAges \cup {0})
  BY StreakIsCovered DEF ShedInv
<1>2. streak' = StreakAfterShed /\ lastShed' = 0 /\ shedAges' = shedAges \cup {0}
  BY DEF Shed
<1>3. 0 # None
  BY LoadShedAssumption
<1>4. StreakInv'
  BY <1>1, <1>2, <1>3 DEF StreakInv, Covered
<1>5. QED
  BY <1>1, <1>2, <1>4 DEF Shed, ShedInv, Types, AgeOrNone

LEMMA TickPreserves ==
  ASSUME ShedInv, Tick
  PROVE  ShedInv'
<1>. USE LoadShedAssumption, HorizonIsFar DEF ShedInv, Types, AgeOrNone
<1>1. /\ streak' = Older(streak, Horizon) /\ lastShed' = Older(lastShed, Horizon)
      /\ shedAges' = {a + 1 : a \in shedAges} \cap (0 .. Trip)
      /\ service' = service
  BY DEF Tick, Ages
<1>2. Types'
  BY <1>1 DEF Older
<1>3. ASSUME streak' # None, lastShed' # Horizon,
             NEW a \in 0 .. Trip, lastShed' <= a, a <= streak'
      PROVE  \E b \in shedAges' : a <= b + Grace /\ b <= a
  <2>1. /\ streak # None /\ lastShed # None /\ streak \in Nat /\ lastShed \in Nat
        /\ lastShed # Horizon /\ lastShed' = lastShed + 1
    BY <1>1, <1>3 DEF Older, StreakInv
  <2>2. a - 1 \in 0 .. Trip /\ lastShed <= a - 1
    BY <1>3, <2>1
  <2>3. a - 1 <= streak
    BY <1>1, <1>3, <2>1 DEF Older
  <2>4. PICK b \in shedAges : a - 1 <= b + Grace /\ b <= a - 1
    BY <2>1, <2>2, <2>3 DEF StreakInv
  <2>5. b \in Nat /\ b + 1 \in shedAges'
    BY <1>1, <2>2, <2>4
  <2>6. a <= (b + 1) + Grace /\ b + 1 <= a
    BY <2>2, <2>4, <2>5
  <2>7. QED
    BY <2>5, <2>6
<1>4. streak' # None => lastShed' # None
  BY <1>1 DEF Older, StreakInv
<1>5. StreakInv'
  BY <1>3, <1>4 DEF StreakInv, Horizon
<1>6. QED
  BY <1>2, <1>5

LEMMA InitShed == Init => ShedInv
BY LoadShedAssumption DEF Init, ShedInv, Types, AgeOrNone, StreakInv

LEMMA NextShed == ShedInv /\ [Next]_vars => ShedInv'
<1>. SUFFICES ASSUME ShedInv, [Next]_vars PROVE ShedInv'
  OBVIOUS
<1>. USE LoadShedAssumption
<1>1. ASSUME NEW s \in Sources \cup {Unknown}, ShedByRate(s) \/ ShedByCap(s)
      PROVE  ShedInv'
  <2>1. Shed
    BY <1>1 DEF ShedByRate, ShedByCap
  <2>2. QED
    BY <2>1, ShedPreserves DEF ShedInv, Types
<1>2. ASSUME NEW s \in Sources \cup {Unknown}, Accept(s) PROVE ShedInv'
  BY <1>2 DEF Accept, debounce, ShedInv, Types, StreakInv
<1>3. CASE Dispatch \/ EndReading \/ EndHandling
  BY <1>3 DEF Dispatch, EndReading, EndHandling, debounce, ShedInv, Types, StreakInv
<1>4. CASE Recover
  BY <1>4 DEF Recover, ShedInv, Types, AgeOrNone, StreakInv
<1>5. CASE GisReloaded
  BY <1>5 DEF GisReloaded, ShedInv, Types, StreakInv
<1>6. CASE Tick
  BY <1>6, TickPreserves
<1>7. CASE UNCHANGED vars
  BY <1>7 DEF vars, ShedInv, Types, StreakInv
<1>8. QED
  BY <1>1, <1>2, <1>3, <1>4, <1>5, <1>6, <1>7 DEF Next, Request

\* A streak of sheds has no gap longer than the grace (_record_shed_for_service_state).
THEOREM ShedInvariant == Spec => []ShedInv
BY InitShed, NextShed, PTL DEF Spec

\* The debounce never declares Partial without sustained shedding, for any trip
\* window and grace, over GIS reloads and recoveries
\* (_record_shed_for_service_state).
THEOREM PartialIsEarned == Spec => TripJustified
<1>1. ASSUME ShedInv, [Next]_vars, service = "Normal", service' = "Partial"
      PROVE  \A a \in 0 .. Trip : \E b \in shedAges' : a <= b + Grace /\ b <= a
  <2>1. CASE Shed
    <3>1. StreakAfterShed >= Trip
      BY <1>1, <2>1 DEF Shed, Due
    <3>2. StreakAfterShed \in Nat /\ Covered(StreakAfterShed, shedAges')
      BY <1>1, <2>1, StreakIsCovered DEF ShedInv, Shed
    <3>3. \A a \in 0 .. Trip : a <= StreakAfterShed
      BY <3>1, <3>2, LoadShedAssumption
    <3>4. QED
      BY <3>2, <3>3 DEF Covered
  <2>2. ASSUME NEW s \in Sources \cup {Unknown}, Request(s) PROVE Shed
    BY <1>1, <2>2 DEF Request, ShedByRate, ShedByCap, Accept, debounce
  <2>3. CASE \/ Dispatch \/ EndReading \/ EndHandling
             \/ Recover \/ GisReloaded \/ Tick \/ UNCHANGED vars
    BY <1>1, <2>3
       DEF Dispatch, EndReading, EndHandling, Recover, GisReloaded, Tick, vars, debounce
  <2>4. QED
    BY <1>1, <2>1, <2>2, <2>3 DEF Next
<1>2. ShedInv /\ [Next]_vars
        => [service = "Normal" /\ service' = "Partial" =>
              \A a \in 0 .. Trip : \E b \in shedAges' : a <= b + Grace /\ b <= a]_vars
  BY <1>1
<1>3. QED
  BY ShedInvariant, <1>2, PTL DEF Spec, TripJustified

(***************************************************************************)
(* The rate limiter.  A deque is a stale head followed by exactly the      *)
(* admissions of the window, so popping stale heads, whenever and however  *)
(* often it is done, loses nothing and keeps nothing that is too old.      *)
(***************************************************************************)
\* A nonempty set of positions has a first one: Min returns a member.
LEMMA MinOfPositions ==
  ASSUME NEW I, I \subseteq Nat, I # {}
  PROVE  Min(I) \in I /\ \A y \in I : Min(I) <= y
<1>1. PICK m \in I : \A y \in I : <<y, m>> \notin OpToRel(<, Nat)
  BY NatLessThanWellFounded, WFMin
<1>2. \A y \in I : m <= y
  <2>1. TAKE y \in I
  <2>2. y \in Nat /\ m \in Nat
    OBVIOUS
  <2>3. ~(y < m)
    BY <1>1, <2>2 DEF OpToRel
  <2>. QED BY <2>2, <2>3
<1>. QED BY <1>2 DEF Min

\* Where the first age of at most top is (0: nowhere).
First(ages, top) == SelectInSeq(ages, LAMBDA a : a <= top)

LEMMA FirstIs ==
  ASSUME NEW ages \in Seq(Nat), NEW top \in Nat
  PROVE  /\ First(ages, top) \in 0 .. Len(ages)
         /\ First(ages, top) # 0 => ages[First(ages, top)] <= top
         /\ \A i \in 1 .. Len(ages) :
              ages[i] <= top => First(ages, top) # 0 /\ First(ages, top) <= i
<1>. DEFINE I == {i \in 1 .. Len(ages) : ages[i] <= top}
<1>1. First(ages, top) = IF I # {} THEN Min(I) ELSE 0
  BY DEF First, SelectInSeq
<1>2. Len(ages) \in Nat
  BY LenProperties
<1>3. CASE I = {}
  BY <1>1, <1>2, <1>3
<1>4. CASE I # {}
  <2>1. I \subseteq Nat /\ I \subseteq 1 .. Len(ages)
    BY <1>2
  <2>2. Min(I) \in I /\ \A y \in I : Min(I) <= y
    <3> HIDE DEF I
    <3>. QED BY <1>4, <2>1, MinOfPositions
  <2>3. First(ages, top) = Min(I)
    BY <1>1, <1>4
  <2>4. \A i \in 1 .. Len(ages) : ages[i] <= top => i \in I
    OBVIOUS
  <2>5. Min(I) \in 1 .. Len(ages) /\ ages[Min(I)] <= top
    BY <2>2
  <2>. HIDE DEF I
  <2>. QED BY <1>2, <2>2, <2>3, <2>4, <2>5
<1>. QED BY <1>3, <1>4

\* The first age is told by what comes before it.
LEMMA FirstUnique ==
  ASSUME NEW ages \in Seq(Nat), NEW top \in Nat, NEW n \in 1 .. Len(ages),
         ages[n] <= top, \A i \in 1 .. n - 1 : ~(ages[i] <= top)
  PROVE  First(ages, top) = n
<1>. DEFINE m == First(ages, top)
<1>1. Len(ages) \in Nat
  BY LenProperties
<1>2. m \in 0 .. Len(ages) /\ (m # 0 => ages[m] <= top) /\ m # 0 /\ m <= n
  BY FirstIs
<1>. HIDE DEF m
<1>3. ~(m < n)
  BY <1>1, <1>2
<1>. QED BY <1>1, <1>2, <1>3 DEF m

\* What Since keeps, element by element.
LEMMA SinceElements ==
  ASSUME NEW top \in Nat, NEW ages \in Seq(Nat)
  PROVE  LET n == First(ages, top) IN
         /\ Since(ages, top) \in Seq(Nat)
         /\ n = 0 => Since(ages, top) = <<>>
         /\ n # 0 => /\ Len(Since(ages, top)) = Len(ages) - n + 1
                     /\ \A k \in 1 .. Len(ages) - n + 1 :
                          Since(ages, top)[k] = ages[n + k - 1]
<1>. DEFINE n == First(ages, top)
<1>1. Len(ages) \in Nat /\ \A i \in 1 .. Len(ages) : ages[i] \in Nat
  BY LenProperties, ElementOfSeq
<1>2. n \in 0 .. Len(ages)
  BY FirstIs
<1>3. Since(ages, top) = IF n = 0 THEN <<>> ELSE SubSeq(ages, n, Len(ages))
  BY DEF Since, First
<1>. HIDE DEF n
<1>4. CASE n = 0
  BY <1>3, <1>4, EmptySeq DEF n
<1>5. CASE n # 0
  <2>1. n \in Int /\ Len(ages) \in Int /\ \A i \in n .. Len(ages) : ages[i] \in Nat
    BY <1>1, <1>2, <1>5
  <2>2. /\ SubSeq(ages, n, Len(ages)) \in Seq(Nat)
        /\ Len(SubSeq(ages, n, Len(ages)))
             = IF n <= Len(ages) THEN Len(ages) - n + 1 ELSE 0
        /\ \A k \in 1 .. Len(ages) - n + 1 :
             SubSeq(ages, n, Len(ages))[k] = ages[n + k - 1]
    BY <2>1, SubSeqProperties
  <2>. QED BY <1>1, <1>2, <1>3, <1>5, <2>2 DEF n
<1>. QED BY <1>4, <1>5

\* Ages that are all within the window are all kept.
LEMMA SinceAll ==
  ASSUME NEW top \in Nat, NEW ages \in Seq(0 .. top)
  PROVE  Since(ages, top) = ages
<1>1. Len(ages) \in Nat /\ \A i \in 1 .. Len(ages) : ages[i] \in 0 .. top
  BY LenProperties, ElementOfSeq
<1>2. ages \in Seq(Nat)
  BY SeqMonotonic
<1>3. CASE Len(ages) = 0
  <2>1. ages = <<>>
    BY <1>3, EmptySeq
  <2>2. First(ages, top) = 0
    <3>1. First(ages, top) \in 0 .. Len(ages)
      BY <1>2, FirstIs
    <3>. QED BY <1>3, <3>1
  <2>. QED BY <1>2, <2>1, <2>2, SinceElements
<1>4. CASE Len(ages) # 0
  <2>1. 1 \in 1 .. Len(ages) /\ ages[1] <= top
    BY <1>1, <1>4
  <2>2. First(ages, top) = 1
    BY <1>2, <2>1, FirstUnique
  <2>3. /\ Since(ages, top) \in Seq(Nat) /\ Len(Since(ages, top)) = Len(ages)
        /\ \A k \in 1 .. Len(ages) : Since(ages, top)[k] = ages[k]
    <3>1. /\ Since(ages, top) \in Seq(Nat)
          /\ First(ages, top) # 0 =>
               /\ Len(Since(ages, top)) = Len(ages) - First(ages, top) + 1
               /\ \A k \in 1 .. Len(ages) - First(ages, top) + 1 :
                    Since(ages, top)[k] = ages[First(ages, top) + k - 1]
      BY <1>2, SinceElements
    <3>. QED BY <1>1, <2>2, <3>1
  <2>. QED BY <1>2, <2>3, SeqEqual
<1>. QED BY <1>3, <1>4

\* The positions of a deque where the window starts and the two sequences
\* of ages that follow, one second later.
Aged(ages) == [i \in DOMAIN ages |-> Older(ages[i], Window + 1)]
PlusOne(ages) == [i \in DOMAIN ages |-> ages[i] + 1]

LEMMA AgedElements ==
  ASSUME NEW ages \in Seq(0 .. Window + 1)
  PROVE  /\ Len(ages) \in Nat /\ DOMAIN ages = 1 .. Len(ages)
         /\ Aged(ages) \in Seq(0 .. Window + 1) /\ Len(Aged(ages)) = Len(ages)
         /\ \A i \in 1 .. Len(ages) :
              /\ ages[i] \in 0 .. Window + 1
              /\ Aged(ages)[i] = IF ages[i] <= Window THEN ages[i] + 1 ELSE Window + 1
<1>1. Len(ages) \in Nat /\ DOMAIN ages = 1 .. Len(ages)
  BY LenProperties
<1>2. \A i \in 1 .. Len(ages) : ages[i] \in 0 .. Window + 1
  BY ElementOfSeq
<1>3. \A i \in 1 .. Len(ages) : ages[i] # None
  BY <1>2, LoadShedAssumption
<1>4. \A i \in 1 .. Len(ages) :
        Aged(ages)[i] = IF ages[i] <= Window THEN ages[i] + 1 ELSE Window + 1
  BY <1>1, <1>2, <1>3, LoadShedAssumption DEF Aged, Older
<1>5. \A i \in 1 .. Len(ages) : Aged(ages)[i] \in 0 .. Window + 1
  BY SMTT(30), <1>2, <1>4, LoadShedAssumption
<1>6. Aged(ages) = [i \in 1 .. Len(ages) |-> Aged(ages)[i]]
  BY <1>1 DEF Aged
<1>7. Aged(ages) \in Seq(0 .. Window + 1) /\ DOMAIN Aged(ages) = 1 .. Len(ages)
  BY <1>1, <1>5, <1>6, SeqDef
<1>8. Len(Aged(ages)) = Len(ages)
  BY <1>1, <1>7, LenProperties
<1>. QED BY <1>1, <1>2, <1>4, <1>7, <1>8

LEMMA PlusOneElements ==
  ASSUME NEW ages \in Seq(0 .. Window)
  PROVE  /\ Len(ages) \in Nat /\ DOMAIN ages = 1 .. Len(ages)
         /\ PlusOne(ages) \in Seq(Nat) /\ Len(PlusOne(ages)) = Len(ages)
         /\ \A i \in 1 .. Len(ages) :
              ages[i] \in 0 .. Window /\ PlusOne(ages)[i] = ages[i] + 1
<1>1. Len(ages) \in Nat /\ DOMAIN ages = 1 .. Len(ages)
  BY LenProperties
<1>2. \A i \in 1 .. Len(ages) : ages[i] \in 0 .. Window
  BY ElementOfSeq
<1>3. \A i \in 1 .. Len(ages) : PlusOne(ages)[i] = ages[i] + 1 /\ PlusOne(ages)[i] \in Nat
  BY <1>1, <1>2 DEF PlusOne
<1>4. PlusOne(ages) = [i \in 1 .. Len(ages) |-> PlusOne(ages)[i]]
  BY <1>1 DEF PlusOne
<1>5. PlusOne(ages) \in Seq(Nat) /\ DOMAIN PlusOne(ages) = 1 .. Len(ages)
  BY <1>1, <1>3, <1>4, SeqDef
<1>6. Len(PlusOne(ages)) = Len(ages)
  BY <1>1, <1>5, LenProperties
<1>. QED BY <1>1, <1>2, <1>3, <1>5, <1>6

\* One second later the deque still remembers exactly the window.
LEMMA TickKeepsWindow ==
  ASSUME NEW deque \in Seq(0 .. Window + 1), NEW past \in Seq(0 .. Window),
         Recent(deque) = past
  PROVE  Recent(Aged(deque)) = Since(PlusOne(past), Window)
<1>. DEFINE n == First(deque, Window)
            m == First(Aged(deque), Window)
            d == First(PlusOne(past), Window)
<1>0. Window \in Nat /\ 0 .. Window + 1 \subseteq Nat /\ 0 .. Window \subseteq Nat
  BY LoadShedAssumption
<1>1. deque \in Seq(Nat) /\ past \in Seq(Nat) /\ Aged(deque) \in Seq(Nat)
      /\ PlusOne(past) \in Seq(Nat)
  BY <1>0, SeqMonotonic, AgedElements, PlusOneElements
<1>2. /\ n \in 0 .. Len(deque)
      /\ \A i \in 1 .. Len(deque) : deque[i] <= Window => n # 0 /\ n <= i
  BY <1>0, <1>1, FirstIs
<1>3. /\ m \in 0 .. Len(deque)
      /\ m # 0 => Aged(deque)[m] <= Window
  BY <1>0, <1>1, FirstIs, AgedElements
<1>4. /\ d \in 0 .. Len(past)
      /\ d # 0 => PlusOne(past)[d] <= Window
      /\ \A i \in 1 .. Len(past) : PlusOne(past)[i] <= Window => d # 0 /\ d <= i
  BY <1>0, <1>1, FirstIs, PlusOneElements
<1>5. /\ n = 0 => past = <<>>
      /\ n # 0 => /\ Len(past) = Len(deque) - n + 1
                  /\ \A k \in 1 .. Len(deque) - n + 1 : past[k] = deque[n + k - 1]
  BY <1>0, <1>1, SinceElements DEF Recent
<1>6. /\ Since(Aged(deque), Window) \in Seq(Nat)
      /\ m = 0 => Since(Aged(deque), Window) = <<>>
      /\ m # 0 => /\ Len(Since(Aged(deque), Window)) = Len(deque) - m + 1
                  /\ \A k \in 1 .. Len(deque) - m + 1 :
                       Since(Aged(deque), Window)[k] = Aged(deque)[m + k - 1]
  BY <1>0, <1>1, SinceElements, AgedElements
<1>7. /\ Since(PlusOne(past), Window) \in Seq(Nat)
      /\ d = 0 => Since(PlusOne(past), Window) = <<>>
      /\ d # 0 => /\ Len(Since(PlusOne(past), Window)) = Len(past) - d + 1
                  /\ \A k \in 1 .. Len(past) - d + 1 :
                       Since(PlusOne(past), Window)[k] = PlusOne(past)[d + k - 1]
  BY <1>0, <1>1, SinceElements, PlusOneElements
<1>8. /\ Len(deque) \in Nat /\ Len(past) \in Nat
      /\ \A i \in 1 .. Len(deque) :
           /\ deque[i] \in 0 .. Window + 1
           /\ Aged(deque)[i] = IF deque[i] <= Window THEN deque[i] + 1 ELSE Window + 1
      /\ \A i \in 1 .. Len(past) : past[i] \in 0 .. Window /\ PlusOne(past)[i] = past[i] + 1
  BY AgedElements, PlusOneElements
<1>9. Recent(Aged(deque)) = Since(Aged(deque), Window)
  BY DEF Recent
<1>. HIDE DEF n, d
<1>10. CASE d = 0
  <2>1. m = 0
    <3>1. SUFFICES ASSUME m # 0 PROVE FALSE
      OBVIOUS
    <3>. HIDE DEF m
    <3>2. m \in 1 .. Len(deque) /\ deque[m] <= Window /\ deque[m] + 1 <= Window
      BY <1>0, <1>3, <1>8, <3>1
    <3>3. n # 0 /\ n <= m
      BY <1>2, <3>2
    <3>4. m - n + 1 \in 1 .. Len(past) /\ m - n + 1 \in 1 .. Len(deque) - n + 1
          /\ n + (m - n + 1) - 1 = m
      BY <1>2, <1>5, <1>8, <3>2, <3>3
    <3>5. past[m - n + 1] = deque[m]
      BY <1>5, <3>3, <3>4
    <3>6. PlusOne(past)[m - n + 1] <= Window
      BY <1>8, <3>2, <3>4, <3>5
    <3>. QED BY <1>4, <1>10, <3>4, <3>6
  <2>. QED BY <1>6, <1>7, <1>9, <1>10, <2>1
<1>11. CASE d # 0
  <2>1. n # 0
    <3>1. Len(past) # 0
      BY <1>4, <1>8, <1>11
    <3>. QED BY <1>5, <3>1, EmptySeq
  <2>2. /\ d \in 1 .. Len(past) /\ n + d - 1 \in 1 .. Len(deque) /\ n \in 1 .. Len(deque)
        /\ Len(past) = Len(deque) - n + 1
    BY <1>2, <1>4, <1>5, <1>8, <1>11, <2>1
  <2>3. \A k \in 1 .. Len(past) :
          /\ n + k - 1 \in 1 .. Len(deque)
          /\ past[k] = deque[n + k - 1]
          /\ PlusOne(past)[k] = Aged(deque)[n + k - 1]
    <3>1. TAKE k \in 1 .. Len(past)
    <3>2. k \in 1 .. Len(deque) - n + 1 /\ n + k - 1 \in 1 .. Len(deque)
      BY <1>8, <2>2
    <3>3. past[k] = deque[n + k - 1]
      BY <1>5, <2>1, <3>2
    <3>4. past[k] \in 0 .. Window /\ PlusOne(past)[k] = past[k] + 1
      BY <1>8
    <3>5. PICK j \in 1 .. Len(deque) : j = n + k - 1
      BY <3>2
    <3>6. Aged(deque)[j] = IF deque[j] <= Window THEN deque[j] + 1 ELSE Window + 1
      BY <1>8, <3>5
    <3>7. Aged(deque)[n + k - 1] = past[k] + 1
      BY <1>0, <3>3, <3>4, <3>5, <3>6
    <3>. QED BY <3>2, <3>3, <3>4, <3>7
  <2>4. Aged(deque)[n + d - 1] <= Window
    BY <1>4, <1>11, <2>2, <2>3
  <2>5. ASSUME NEW i \in 1 .. (n + d - 1) - 1 PROVE ~(Aged(deque)[i] <= Window)
    <3>0. i \in 1 .. Len(deque)
      BY <1>8, <2>2
    <3>1. CASE i < n
      <4>1. ~(deque[i] <= Window)
        BY <1>2, <1>8, <2>2, <3>0, <3>1
      <4>. QED BY <1>0, <1>8, <3>0, <4>1
    <3>2. CASE ~(i < n)
      <4>1. /\ i - n + 1 \in 1 .. Len(past) /\ i - n + 1 < d /\ n + (i - n + 1) - 1 = i
        BY <1>8, <2>2, <3>2
      <4>2. ~(PlusOne(past)[i - n + 1] <= Window)
        BY <1>4, <2>2, <4>1
      <4>. QED BY <2>3, <4>1, <4>2
    <3>. QED BY <3>1, <3>2
  <2>6. m = n + d - 1
    BY <1>0, <1>1, <2>2, <2>4, <2>5, FirstUnique, AgedElements
  <2>. HIDE DEF m
  <2>7. m # 0 /\ Len(deque) - m + 1 = Len(past) - d + 1
    BY <1>8, <2>2, <2>6
  <2>8. ASSUME NEW k \in 1 .. Len(past) - d + 1
        PROVE  Since(Aged(deque), Window)[k] = Since(PlusOne(past), Window)[k]
    <3>1. d + k - 1 \in 1 .. Len(past) /\ n + (d + k - 1) - 1 = m + k - 1
      BY <1>8, <2>2, <2>6
    <3>2. PlusOne(past)[d + k - 1] = Aged(deque)[m + k - 1]
      BY <2>3, <3>1
    <3>. QED BY <1>6, <1>7, <1>11, <2>7, <3>2
  <2>9. /\ Len(Since(Aged(deque), Window)) = Len(past) - d + 1
        /\ Len(Since(PlusOne(past), Window)) = Len(past) - d + 1
    BY <1>6, <1>7, <1>11, <2>7
  <2>. QED BY <1>6, <1>7, <1>9, <2>8, <2>9, SeqEqual
<1>. QED BY <1>10, <1>11

\* One second later the window is still in order, no longer, and within bounds.
LEMMA TickKeepsOrder ==
  ASSUME NEW past \in Seq(0 .. Window), OldestFirst(past)
  PROVE  /\ Since(PlusOne(past), Window) \in Seq(0 .. Window)
         /\ OldestFirst(Since(PlusOne(past), Window))
         /\ Len(Since(PlusOne(past), Window)) <= Len(past)
<1>. DEFINE new == Since(PlusOne(past), Window)
            d == First(PlusOne(past), Window)
<1>0. Window \in Nat
  BY LoadShedAssumption
<1>1. /\ Len(past) \in Nat /\ DOMAIN past = 1 .. Len(past)
      /\ PlusOne(past) \in Seq(Nat) /\ Len(PlusOne(past)) = Len(past)
      /\ \A i \in 1 .. Len(past) : past[i] \in 0 .. Window /\ PlusOne(past)[i] = past[i] + 1
  BY PlusOneElements
<1>2. d \in 0 .. Len(past) /\ (d # 0 => PlusOne(past)[d] <= Window)
  BY <1>0, <1>1, FirstIs
<1>3. /\ new \in Seq(Nat)
      /\ d = 0 => new = <<>>
      /\ d # 0 => /\ Len(new) = Len(past) - d + 1
                  /\ \A k \in 1 .. Len(past) - d + 1 : new[k] = PlusOne(past)[d + k - 1]
  BY <1>0, <1>1, SinceElements
<1>. HIDE DEF new, d
<1>4. CASE d = 0
  <2>1. new = <<>>
    BY <1>3, <1>4
  <2>. QED BY <1>1, <2>1, EmptySeq DEF OldestFirst, new
<1>5. CASE d # 0
  <2>1. d \in 1 .. Len(past) /\ DOMAIN new = 1 .. Len(past) - d + 1
    BY <1>1, <1>2, <1>3, <1>5, LenProperties
  <2>2. ASSUME NEW k \in 1 .. Len(past) - d + 1
        PROVE  d + k - 1 \in 1 .. Len(past) /\ new[k] = past[d + k - 1] + 1
               /\ past[d + k - 1] <= past[d]
    <3>1. d + k - 1 \in 1 .. Len(past) /\ (d < d + k - 1 \/ d = d + k - 1)
      BY <1>1, <2>1
    <3>2. new[k] = PlusOne(past)[d + k - 1]
      BY <1>3, <1>5
    <3>3. CASE d < d + k - 1
      BY <1>1, <2>1, <3>1, <3>2, <3>3 DEF OldestFirst
    <3>4. CASE d = d + k - 1
      BY <1>1, <2>1, <3>1, <3>2, <3>4
    <3>. QED BY <3>1, <3>3, <3>4
  <2>3. \A k \in 1 .. Len(past) - d + 1 : new[k] \in 0 .. Window
    <3>1. past[d] + 1 <= Window
      BY <1>1, <1>2, <1>5, <2>1
    <3>2. TAKE k \in 1 .. Len(past) - d + 1
    <3>3. /\ new[k] = past[d + k - 1] + 1 /\ past[d + k - 1] <= past[d]
          /\ past[d + k - 1] \in Nat /\ past[d] \in Nat
      BY <1>1, <2>1, <2>2
    <3>4. \A a, b \in Nat : a <= b /\ b + 1 <= Window => a + 1 \in 0 .. Window
      BY <1>0
    <3>5. past[d + k - 1] + 1 \in 0 .. Window
      BY <3>1, <3>3, <3>4, Zenon
    <3>. QED BY <3>3, <3>5, Zenon
  <2>4. new \in Seq(0 .. Window)
    <3>1. Len(new) \in Nat /\ DOMAIN new = 1 .. Len(new) /\ new = [k \in DOMAIN new |-> new[k]]
      BY <1>3, LenProperties
    <3>2. \A k \in 1 .. Len(new) : new[k] \in 0 .. Window
      BY <2>1, <2>3, <3>1
    <3>3. new \in [1 .. Len(new) -> 0 .. Window]
      BY <3>1, <3>2
    <3>. QED BY <3>1, <3>3, SeqDef
  <2>5. ASSUME NEW j \in DOMAIN new, NEW k \in DOMAIN new, j < k
        PROVE  new[j] >= new[k]
    <3>1. /\ d + j - 1 \in 1 .. Len(past) /\ d + k - 1 \in 1 .. Len(past)
          /\ new[j] = past[d + j - 1] + 1 /\ new[k] = past[d + k - 1] + 1
      BY <2>1, <2>2
    <3>2. d + j - 1 < d + k - 1
      BY <2>1, <2>5
    <3>3. past[d + j - 1] >= past[d + k - 1]
      BY <1>1, <3>1, <3>2 DEF OldestFirst
    <3>. QED BY <1>1, <3>1, <3>3
  <2>6. Len(new) <= Len(past)
    BY <1>1, <1>3, <1>5, <2>1
  <2>. QED BY <2>4, <2>5, <2>6 DEF OldestFirst, new
<1>. QED BY <1>4, <1>5

\* An admission now keeps the window in order.
LEMMA AdmitKeepsOrder ==
  ASSUME NEW past \in Seq(0 .. Window), OldestFirst(past)
  PROVE  /\ Append(past, 0) \in Seq(0 .. Window)
         /\ OldestFirst(Append(past, 0))
         /\ Len(Append(past, 0)) = Len(past) + 1
         /\ Last(Append(past, 0)) = 0
<1>1. Len(past) \in Nat /\ \A i \in 1 .. Len(past) : past[i] \in 0 .. Window
  BY LenProperties, ElementOfSeq
<1>2. 0 \in 0 .. Window
  BY LoadShedAssumption
<1>3. /\ Append(past, 0) \in Seq(0 .. Window) /\ Len(Append(past, 0)) = Len(past) + 1
      /\ \A i \in 1 .. Len(past) : Append(past, 0)[i] = past[i]
      /\ Append(past, 0)[Len(past) + 1] = 0
  BY <1>2, AppendProperties
<1>4. DOMAIN Append(past, 0) = 1 .. Len(past) + 1 /\ DOMAIN past = 1 .. Len(past)
  BY <1>3, LenProperties
<1>5. ASSUME NEW i \in 1 .. Len(past) + 1, NEW j \in 1 .. Len(past) + 1, i < j
      PROVE  Append(past, 0)[i] >= Append(past, 0)[j]
  <2>1. i \in 1 .. Len(past) /\ (j \in 1 .. Len(past) \/ j = Len(past) + 1)
    BY <1>1, <1>5
  <2>2. CASE j \in 1 .. Len(past)
    BY <1>3, <1>4, <1>5, <2>1, <2>2 DEF OldestFirst
  <2>3. CASE j = Len(past) + 1
    BY <1>1, <1>3, <2>1, <2>3
  <2>. QED BY <2>1, <2>2, <2>3
<1>6. Last(Append(past, 0)) = 0
  BY <1>1, <1>3 DEF Last
<1>. QED BY <1>3, <1>4, <1>5, <1>6 DEF OldestFirst

-----------------------------------------------------------------------------
\* The part of the invariant that is about the rate limiter's table.
RateInv ==
  /\ requests \in [Sources -> Seq(Ages(Window + 1))]
  /\ admitted \in [Sources -> Seq(Ages(Window))]
  /\ checks \in 0 .. PruneEvery - 1
  /\ WindowExact
  /\ \A s \in Sources : OldestFirst(admitted[s])
  /\ SlidingWindow

\* The table before pruning: what it holds for the source let in, and what a
\* pruning would leave of it.
TableOf(s) == [requests EXCEPT ![s] = Append(Recent(@), 0)]

LEMMA TableFacts ==
  ASSUME RateInv, RateLimit > 0, NEW s \in Sources
  PROVE  /\ Append(admitted[s], 0) \in Seq(0 .. Window)
         /\ TableOf(s)[s] = Append(admitted[s], 0)
         /\ \A u \in Sources \ {s} : TableOf(s)[u] = requests[u]
         /\ \A u \in Sources \ {s} : Recent(TableOf(s)[u]) = admitted[u]
         /\ Recent(TableOf(s)[s]) = Append(admitted[s], 0)
<1>0. Window \in Nat
  BY LoadShedAssumption
<1>1. \A u \in Sources : /\ admitted[u] \in Seq(0 .. Window) /\ OldestFirst(admitted[u])
                        /\ Recent(requests[u]) = admitted[u]
  BY DEF RateInv, WindowExact, Ages
<1>2. Append(admitted[s], 0) \in Seq(0 .. Window)
  BY <1>1, AdmitKeepsOrder
<1>3. TableOf(s)[s] = Append(admitted[s], 0) /\ \A u \in Sources \ {s} : TableOf(s)[u] = requests[u]
  BY <1>1 DEF TableOf, RateInv
<1>4. Recent(Append(admitted[s], 0)) = Append(admitted[s], 0)
  BY <1>0, <1>2, SinceAll DEF Recent
<1>. QED BY <1>1, <1>2, <1>3, <1>4

LEMMA RecordKeepsRate ==
  ASSUME RateInv, NEW s \in Sources \cup {Unknown}, s # Unknown => WithinLimit(s),
         Record(s)
  PROVE  RateInv'
<1>. USE LoadShedAssumption
<1>0. CASE UNCHANGED rate
  BY <1>0 DEF RateInv, rate, WindowExact, SlidingWindow
<1>1. CASE ~UNCHANGED rate
  <2>1. s \in Sources /\ RateLimit > 0
    BY <1>1 DEF Record
  <2>2. /\ requests' = IF MustPrune(TableOf(s)) THEN Prune(TableOf(s)) ELSE TableOf(s)
        /\ checks' = (checks + 1) % PruneEvery
        /\ admitted' = [admitted EXCEPT ![s] = Append(@, 0)]
    BY <1>1, <2>1 DEF Record, TableOf
  <2>3. \A u \in Sources : /\ admitted[u] \in Seq(0 .. Window) /\ OldestFirst(admitted[u])
                          /\ requests[u] \in Seq(0 .. Window + 1)
                          /\ Recent(requests[u]) = admitted[u]
                          /\ Len(admitted[u]) <= RateLimit
    BY <2>1 DEF RateInv, WindowExact, SlidingWindow, Ages
  <2>4. \A u \in Sources :
          admitted'[u] = IF u = s THEN Append(admitted[s], 0) ELSE admitted[u]
    BY <2>1, <2>2 DEF RateInv
  <2>5. \A u \in Sources : /\ admitted'[u] \in Seq(0 .. Window) /\ OldestFirst(admitted'[u])
                          /\ Len(admitted'[u]) <= RateLimit
    <3>1. Len(admitted[s]) < RateLimit /\ Len(admitted[s]) \in Nat
      BY <2>1, <2>3, LenProperties DEF WithinLimit
    <3>2. /\ Append(admitted[s], 0) \in Seq(0 .. Window)
          /\ OldestFirst(Append(admitted[s], 0))
          /\ Len(Append(admitted[s], 0)) = Len(admitted[s]) + 1
      BY <2>1, <2>3, AdmitKeepsOrder
    <3>3. Len(Append(admitted[s], 0)) <= RateLimit
      BY <2>1, <3>1, <3>2
    <3>4. TAKE u \in Sources
    <3>5. CASE u = s
      BY <2>4, <3>2, <3>3, <3>5
    <3>6. CASE u # s
      BY <2>3, <2>4, <3>6
    <3>. QED BY <3>5, <3>6
  <2>6. \A u \in Sources : requests'[u] \in {admitted'[u], requests[u]}
                          /\ (u = s => requests'[u] = admitted'[u])
    <3>0. /\ TableOf(s)[s] = admitted'[s] /\ Recent(TableOf(s)[s]) = admitted'[s]
          /\ \A u \in Sources \ {s} : /\ TableOf(s)[u] = requests[u]
                                     /\ Recent(TableOf(s)[u]) = admitted'[u]
      BY <2>1, <2>4, TableFacts
    <3>1. CASE MustPrune(TableOf(s))
      <4>1. \A u \in Sources : requests'[u] = Recent(TableOf(s)[u])
        BY <2>2, <3>1 DEF Prune
      <4>. QED BY <2>1, <3>0, <4>1
    <3>2. CASE ~MustPrune(TableOf(s))
      <4>1. requests' = TableOf(s)
        BY <2>2, <3>2
      <4>. QED BY <2>1, <3>0, <4>1
    <3>. QED BY <3>1, <3>2
  <2>7. \A u \in Sources : Recent(admitted'[u]) = admitted'[u]
    BY <2>5, SinceAll DEF Recent
  <2>8. \A u \in Sources : Recent(requests'[u]) = admitted'[u]
    BY <2>3, <2>4, <2>6, <2>7
  <2>9. \A u \in Sources : requests'[u] \in Seq(0 .. Window + 1)
    <3>1. TAKE u \in Sources
    <3>2. 0 .. Window \subseteq 0 .. Window + 1
      OBVIOUS
    <3>3. admitted'[u] \in Seq(0 .. Window + 1)
      BY <2>5, <3>2, SeqMonotonic
    <3>. QED BY <2>3, <2>6, <3>3
  <2>10. requests' \in [Sources -> Seq(0 .. Window + 1)]
    <3>1. requests' = [u \in Sources |-> requests'[u]]
      BY <2>2 DEF RateInv, Prune, TableOf
    <3>. QED BY <2>9, <3>1
  <2>11. admitted' \in [Sources -> Seq(0 .. Window)]
    <3>1. admitted' = [u \in Sources |-> admitted'[u]]
      BY <2>2 DEF RateInv
    <3>. QED BY <2>5, <3>1
  <2>12. checks' \in 0 .. PruneEvery - 1
    BY <2>2 DEF RateInv
  <2>. QED BY <2>5, <2>8, <2>10, <2>11, <2>12 DEF RateInv, WindowExact, SlidingWindow, Ages
<1>. QED BY <1>0, <1>1

LEMMA RejectKeepsRate ==
  ASSUME RateInv, NEW s \in Sources, ShedByRate(s)
  PROVE  RateInv'
<1>. USE LoadShedAssumption
<1>1. RateLimit > 0
  BY DEF ShedByRate, WithinLimit
<1>2. /\ requests' = [requests EXCEPT ![s] = admitted[s]]
      /\ checks' = checks /\ admitted' = admitted
  BY <1>1 DEF ShedByRate, RateInv, WindowExact
<1>3. \A u \in Sources : /\ admitted[u] \in Seq(0 .. Window)
                        /\ Recent(requests[u]) = admitted[u]
  BY <1>1 DEF RateInv, WindowExact, Ages
<1>4. Recent(admitted[s]) = admitted[s]
  BY <1>3, SinceAll DEF Recent
<1>5. admitted[s] \in Seq(0 .. Window + 1)
  <2>1. 0 .. Window \subseteq 0 .. Window + 1
    OBVIOUS
  <2>. QED BY <1>3, <2>1, SeqMonotonic
<1>6. requests' \in [Sources -> Seq(0 .. Window + 1)]
  BY <1>2, <1>5 DEF RateInv, Ages
<1>7. \A u \in Sources : Recent(requests'[u]) = admitted[u]
  BY <1>2, <1>3, <1>4 DEF RateInv
<1>. QED BY <1>2, <1>6, <1>7 DEF RateInv, WindowExact, SlidingWindow, Ages

LEMMA TickKeepsRate ==
  ASSUME RateInv, Tick
  PROVE  RateInv'
<1>. USE LoadShedAssumption
<1>1. /\ \A u \in Sources : requests'[u] = Aged(requests[u])
      /\ \A u \in Sources : admitted'[u] = Since(PlusOne(admitted[u]), Window)
      /\ checks' = checks
  BY DEF Tick, Aged, PlusOne
<1>2. \A u \in Sources : /\ admitted[u] \in Seq(0 .. Window) /\ OldestFirst(admitted[u])
                        /\ requests[u] \in Seq(0 .. Window + 1)
  BY DEF RateInv, Ages
<1>3. \A u \in Sources : /\ admitted'[u] \in Seq(0 .. Window) /\ OldestFirst(admitted'[u])
                        /\ Len(admitted'[u]) <= Len(admitted[u])
  BY <1>1, <1>2, TickKeepsOrder
<1>4. \A u \in Sources : requests'[u] \in Seq(0 .. Window + 1)
  BY <1>1, <1>2, AgedElements
<1>5. WindowExact'
  BY <1>1, <1>2, TickKeepsWindow DEF RateInv, WindowExact
<1>6. SlidingWindow'
  <2>1. ASSUME RateLimit > 0, NEW u \in Sources PROVE Len(admitted'[u]) <= RateLimit
    <3>1. /\ Len(admitted[u]) \in Nat /\ Len(admitted'[u]) \in Nat
          /\ Len(admitted[u]) <= RateLimit /\ Len(admitted'[u]) <= Len(admitted[u])
      BY <1>2, <1>3, <2>1, LenProperties DEF RateInv, SlidingWindow
    <3>. QED BY <3>1
  <2>. QED BY <2>1 DEF SlidingWindow
<1>7. /\ requests' \in [Sources -> Seq(0 .. Window + 1)]
      /\ admitted' \in [Sources -> Seq(0 .. Window)]
  <2>1. /\ requests' = [u \in Sources |-> requests'[u]]
        /\ admitted' = [u \in Sources |-> admitted'[u]]
    BY DEF Tick
  <2>. QED BY <1>3, <1>4, <2>1
<1>. QED BY <1>1, <1>3, <1>5, <1>6, <1>7 DEF RateInv, Ages

-----------------------------------------------------------------------------
LEMMA ShedTypes ==
  ASSUME TypeOK, Shed
  PROVE  /\ streak' \in Ages(Horizon) \cup {None} /\ lastShed' \in Ages(Horizon) \cup {None}
         /\ service' \in {"Normal", "Partial"} /\ shedAges' \subseteq Ages(Trip)
<1>1. 0 \in Ages(Horizon) /\ 0 \in Ages(Trip)
  BY LoadShedAssumption, HorizonIsFar DEF Ages
<1>2. StreakAfterShed \in Ages(Horizon) \cup {None}
  BY <1>1 DEF StreakAfterShed, TypeOK
<1>. QED BY <1>1, <1>2 DEF Shed, TypeOK

LEMMA OlderType ==
  ASSUME NEW top \in Nat, NEW age \in Ages(top) \cup {None}
  PROVE  Older(age, top) \in Ages(top) \cup {None}
BY DEF Older, Ages

LEMMA NextLimiter == LimiterInv /\ SlidingWindow /\ [Next]_vars => (LimiterInv /\ SlidingWindow)'
<1>. SUFFICES ASSUME LimiterInv, SlidingWindow, [Next]_vars PROVE LimiterInv' /\ SlidingWindow'
  OBVIOUS
<1>. USE LoadShedAssumption
<1>. DEFINE Others == /\ slots \in 0 .. MaxRequests
                      /\ reading \in Nat /\ handling \in Nat
                      /\ slots + reading + handling = MaxRequests
                      /\ streak \in Ages(Horizon) \cup {None}
                      /\ lastShed \in Ages(Horizon) \cup {None}
                      /\ service \in {"Normal", "Partial"}
                      /\ shedAges \subseteq Ages(Trip)
<1>1. TypeOK /\ RateInv /\ Others
  BY DEF LimiterInv, RateInv, TypeOK
<1>2. RateInv' /\ Others' => LimiterInv' /\ SlidingWindow'
  BY DEF LimiterInv, RateInv, TypeOK
<1>3. UNCHANGED rate => RateInv'
  BY <1>1 DEF rate, RateInv, WindowExact, SlidingWindow
<1>4. CASE UNCHANGED vars
  <2>1. UNCHANGED rate /\ Others'
    BY <1>1, <1>4 DEF vars, rate
  <2>. QED BY <1>2, <1>3, <2>1
<1>5. ASSUME NEW s \in Sources \cup {Unknown}, ShedByRate(s) PROVE LimiterInv' /\ SlidingWindow'
  <2>1. s \in Sources /\ Shed /\ UNCHANGED slot
    BY <1>5 DEF ShedByRate
  <2>2. RateInv'
    BY <1>1, <1>5, <2>1, RejectKeepsRate
  <2>3. Others'
    BY <1>1, <2>1, ShedTypes DEF slot
  <2>. QED BY <1>2, <2>2, <2>3
<1>6. ASSUME NEW s \in Sources \cup {Unknown}, ShedByCap(s) PROVE LimiterInv' /\ SlidingWindow'
  <2>1. Shed /\ UNCHANGED slot /\ Record(s) /\ (s # Unknown => WithinLimit(s))
    BY <1>6 DEF ShedByCap
  <2>2. RateInv'
    BY <1>1, <2>1, RecordKeepsRate
  <2>3. Others'
    BY <1>1, <2>1, ShedTypes DEF slot
  <2>. QED BY <1>2, <2>2, <2>3
<1>7. ASSUME NEW s \in Sources \cup {Unknown}, Accept(s) PROVE LimiterInv' /\ SlidingWindow'
  <2>1. RateInv'
    BY <1>1, <1>7, RecordKeepsRate DEF Accept
  <2>2. Others'
    BY <1>1, <1>7 DEF Accept, debounce
  <2>. QED BY <1>2, <2>1, <2>2
<1>8. CASE Dispatch \/ EndReading \/ EndHandling
  <2>1. UNCHANGED rate /\ Others'
    BY <1>1, <1>8 DEF Dispatch, EndReading, EndHandling, debounce
  <2>. QED BY <1>2, <1>3, <2>1
<1>9. CASE Recover \/ GisReloaded
  <2>1. UNCHANGED rate /\ Others'
    BY <1>1, <1>9 DEF Recover, GisReloaded, slot
  <2>. QED BY <1>2, <1>3, <2>1
<1>10. CASE Tick
  <2>1. RateInv'
    BY <1>1, <1>10, TickKeepsRate
  <2>2. Others'
    BY <1>1, <1>10, OlderType, HorizonIsFar DEF Tick, slot
  <2>. QED BY <1>2, <2>1, <2>2
<1>. QED BY <1>4, <1>5, <1>6, <1>7, <1>8, <1>9, <1>10 DEF Next, Request

LEMMA InitLimiter == Init => LimiterInv /\ SlidingWindow
<1>. SUFFICES ASSUME Init PROVE LimiterInv /\ SlidingWindow
  OBVIOUS
<1>1. /\ <<>> \in Seq(Ages(Window + 1)) /\ <<>> \in Seq(Ages(Window)) /\ Len(<<>>) = 0
      /\ OldestFirst(<<>>)
  BY EmptySeq DEF OldestFirst
<1>2. Recent(<<>>) = <<>>
  <2>1. <<>> \in Seq(0 .. Window)
    BY EmptySeq
  <2>. QED BY <2>1, SinceAll, LoadShedAssumption DEF Recent
<1>. QED BY <1>1, <1>2, LoadShedAssumption DEF Init, LimiterInv, TypeOK, WindowExact, SlidingWindow

\* The limiter's variables keep their types, and each source's deque remembers
\* exactly its admissions within the window: pruning, whether on a request or
\* over the whole table, forgets none, and a rejected request adds none.  Slots
\* free and slots of requests read or handled always make the cap.
THEOREM LimiterInvariant == Spec => []LimiterInv
BY InitLimiter, NextLimiter, PTL DEF Spec

\* No source has more than the limit let in within any window, whatever the
\* limit, the window and the pruning thresholds (_check_and_record).
THEOREM NeverOverLimit == Spec => []SlidingWindow
BY InitLimiter, NextLimiter, PTL DEF Spec

\* The last of ages that are all within the window is within the window.
LEMMA LastRecent ==
  ASSUME NEW ages \in Seq(0 .. Window), ages # <<>>
  PROVE  Last(ages) <= Window
<1>1. Len(ages) \in Nat /\ Len(ages) # 0
  BY LenProperties, EmptySeq
<1>2. ages[Len(ages)] \in 0 .. Window
  <2>1. Len(ages) \in 1 .. Len(ages)
    BY <1>1
  <2>2. \A i \in 1 .. Len(ages) : ages[i] \in 0 .. Window
    BY ElementOfSeq
  <2>. QED BY <2>1, <2>2
<1>. QED BY <1>2, LoadShedAssumption DEF Last

\* An admission that finds more sources in the table than the threshold leaves
\* only sources heard of within the window: the table follows the clients that
\* are active, not every client ever seen (_prune_stale_sources).
THEOREM TableIsBounded == Spec => StaleSourcesDropped
<1>. DEFINE tracked == {s \in Sources : requests'[s] # <<>>}
<1>1. ASSUME LimiterInv, SlidingWindow, [Next]_vars, requests' # requests, checks' # checks,
             Cardinality(tracked) > PruneSize, NEW u \in tracked
      PROVE  Last(requests'[u]) <= Window
  <2>1. PICK s \in Sources \cup {Unknown} : Record(s)
    <3>1. /\ ~UNCHANGED vars /\ ~Dispatch /\ ~EndReading /\ ~EndHandling
          /\ ~Recover /\ ~GisReloaded /\ ~Tick
      BY <1>1 DEF vars, rate, Dispatch, EndReading, EndHandling, Recover, GisReloaded, Tick
    <3>2. PICK s \in Sources \cup {Unknown} : Request(s)
      BY <1>1, <3>1 DEF Next
    <3>3. ~ShedByRate(s)
      BY <1>1 DEF ShedByRate
    <3>. QED BY <3>2, <3>3 DEF Request, ShedByCap, Accept
  <2>2. /\ s \in Sources /\ RateLimit > 0
        /\ requests' = IF MustPrune(TableOf(s)) THEN Prune(TableOf(s)) ELSE TableOf(s)
    BY <1>1, <2>1, LoadShedAssumption DEF Record, rate, TableOf
  <2>3. RateInv
    BY <1>1 DEF LimiterInv, TypeOK, RateInv
  <2>4. MustPrune(TableOf(s))
    <3>1. SUFFICES ASSUME ~MustPrune(TableOf(s)) PROVE FALSE
      OBVIOUS
    <3>2. tracked = {v \in Sources : TableOf(s)[v] # <<>>}
      BY <2>2, <3>1
    <3>. QED BY <1>1, <3>1, <3>2 DEF MustPrune
  <2>5. requests'[u] = Recent(TableOf(s)[u]) /\ u \in Sources /\ requests'[u] # <<>>
    BY <1>1, <2>2, <2>4 DEF Prune
  <2>6. requests'[u] \in Seq(0 .. Window)
    <3>1. admitted[u] \in Seq(0 .. Window)
      BY <2>3, <2>5 DEF RateInv, Ages
    <3>2. CASE u = s
      <4>1. Recent(TableOf(s)[s]) = Append(admitted[s], 0)
            /\ Append(admitted[s], 0) \in Seq(0 .. Window)
        BY <2>2, <2>3, TableFacts, Zenon
      <4>. QED BY <2>5, <3>2, <4>1
    <3>3. CASE u # s
      <4>1. \A v \in Sources \ {s} : Recent(TableOf(s)[v]) = admitted[v]
        BY <2>2, <2>3, TableFacts, Zenon
      <4>. QED BY <2>5, <3>1, <3>3, <4>1
    <3>. QED BY <3>2, <3>3
  <2>. QED BY <2>5, <2>6, LastRecent
<1>2. LimiterInv /\ SlidingWindow /\ [Next]_vars
        => [requests' # requests /\ checks' # checks =>
              LET seen == {s \in Sources : requests'[s] # <<>>}
              IN Cardinality(seen) > PruneSize
                   => \A s \in seen : Last(requests'[s]) <= Window]_vars
  BY <1>1
<1>. QED BY <1>2, LimiterInvariant, NeverOverLimit, PTL DEF Spec, StaleSourcesDropped
=============================================================================

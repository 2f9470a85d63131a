-------------------------- MODULE GisReloadProofs --------------------------
(***************************************************************************)
(* Theorems about GisReload, for any boundary layers and any number of     *)
(* versions, unreadable layers, failures and crashes.  A load's progress   *)
(* is the position of its next step in SourceSteps or CacheSteps; the      *)
(* first lemmas turn "this step is done" into arithmetic on that position. *)
(***************************************************************************)
EXTENDS GisReload, SequenceTheorems, TLAPS

K == Len(BoundaryLayers)

\* The boundary layers are told apart from one another and from other steps.
LEMMA LayerFacts ==
  /\ K \in Nat
  /\ \A i \in 1 .. K : BoundaryLayers[i] \in Layers
  /\ \A layer \in Layers : \E i \in 1 .. K : layer = BoundaryLayers[i]
  /\ \A i, j \in 1 .. K : BoundaryLayers[i] = BoundaryLayers[j] => i = j
  /\ \A layer \in Layers : layer \notin FixedSteps
<1>1. K \in Nat /\ DOMAIN BoundaryLayers = 1 .. K
  BY GisReloadAssumption, LenProperties DEF K
<1>2. Layers = {BoundaryLayers[i] : i \in 1 .. K}
  BY <1>1 DEF Layers, ToSet
<1>3. \A i, j \in 1 .. K : BoundaryLayers[i] = BoundaryLayers[j] => i = j
  BY <1>1, GisReloadAssumption DEF IsInjective
<1>4. \A layer \in Layers : layer \notin FixedSteps
  BY GisReloadAssumption DEF Layers, FixedSteps
<1>. QED BY <1>1, <1>2, <1>3, <1>4

\* A tuple of members of S is a sequence over S.
LEMMA TripleType ==
  ASSUME NEW S, NEW a \in S, NEW b \in S, NEW c \in S PROVE <<a, b, c>> \in Seq(S)
OBVIOUS

LEMMA SixType ==
  ASSUME NEW S, NEW a \in S, NEW b \in S, NEW c \in S, NEW d \in S, NEW e \in S,
         NEW f \in S
  PROVE  <<a, b, c, d, e, f>> \in Seq(S)
OBVIOUS

LEMMA EightType ==
  ASSUME NEW S, NEW a \in S, NEW b \in S, NEW c \in S, NEW d \in S, NEW e \in S,
         NEW f \in S, NEW g \in S, NEW h \in S
  PROVE  <<a, b, c, d, e, f, g, h>> \in Seq(S)
OBVIOUS

StepNames == FixedSteps \cup Layers

LEMMA StepTypes ==
  /\ BoundaryLayers \in Seq(StepNames)
  /\ <<"ssap", "rcl", "clear">> \in Seq(StepNames)
  /\ <<"geodetic", "civic", "ssapIndex", "rclIndex", "save", "over">> \in Seq(StepNames)
  /\ CacheSteps \in Seq(StepNames)
<1>1. /\ "ssap" \in StepNames /\ "rcl" \in StepNames /\ "clear" \in StepNames
      /\ "boundaries" \in StepNames /\ "geodetic" \in StepNames /\ "civic" \in StepNames
      /\ "ssapIndex" \in StepNames /\ "rclIndex" \in StepNames
      /\ "save" \in StepNames /\ "over" \in StepNames
  BY DEF StepNames, FixedSteps
<1>2. BoundaryLayers \in [1 .. K -> StepNames]
  BY LayerFacts, LenProperties, GisReloadAssumption DEF K, StepNames
<1>3. BoundaryLayers \in Seq(StepNames)
  BY <1>2, LayerFacts, SeqDef
<1>4. <<"ssap", "rcl", "clear">> \in Seq(StepNames)
  BY <1>1, TripleType, Zenon
<1>5. <<"geodetic", "civic", "ssapIndex", "rclIndex", "save", "over">> \in Seq(StepNames)
  BY <1>1, SixType, Zenon
<1>6. CacheSteps \in Seq(StepNames)
  BY <1>1, EightType, Zenon DEF CacheSteps
<1>. QED BY <1>3, <1>4, <1>5, <1>6

\* The steps of a load from the source, position by position.
LEMMA SourceTable ==
  /\ SourceSteps \in Seq(StepNames) /\ Len(SourceSteps) = K + 9
  /\ SourceSteps[1] = "ssap" /\ SourceSteps[2] = "rcl" /\ SourceSteps[3] = "clear"
  /\ \A i \in 1 .. K : SourceSteps[3 + i] = BoundaryLayers[i]
  /\ SourceSteps[K + 4] = "geodetic" /\ SourceSteps[K + 5] = "civic"
  /\ SourceSteps[K + 6] = "ssapIndex" /\ SourceSteps[K + 7] = "rclIndex"
  /\ SourceSteps[K + 8] = "save" /\ SourceSteps[K + 9] = "over"
<1>. DEFINE first == <<"ssap", "rcl", "clear">>
            last == <<"geodetic", "civic", "ssapIndex", "rclIndex", "save", "over">>
            front == first \o BoundaryLayers
<1>0. first \in Seq(StepNames) /\ last \in Seq(StepNames)
  BY StepTypes, Zenon
<1>1. /\ Len(first) = 3 /\ Len(last) = 6
      /\ first[1] = "ssap" /\ first[2] = "rcl" /\ first[3] = "clear"
      /\ last[1] = "geodetic" /\ last[2] = "civic" /\ last[3] = "ssapIndex"
      /\ last[4] = "rclIndex" /\ last[5] = "save" /\ last[6] = "over"
  OBVIOUS
<1>2. K \in Nat /\ BoundaryLayers \in Seq(StepNames)
  BY LayerFacts, StepTypes
<1>3. SourceSteps = front \o last
  BY DEF SourceSteps
<1>. HIDE DEF first, last
<1>4. /\ front \in Seq(StepNames) /\ Len(front) = 3 + K
      /\ \A i \in 1 .. 3 + K : front[i] = IF i <= 3 THEN first[i] ELSE BoundaryLayers[i - 3]
  <2>1. Len(first) + Len(BoundaryLayers) = 3 + K
    BY <1>1 DEF K
  <2>2. /\ front \in Seq(StepNames) /\ Len(front) = Len(first) + Len(BoundaryLayers)
        /\ \A i \in 1 .. Len(first) + Len(BoundaryLayers) :
             front[i] = IF i <= Len(first) THEN first[i] ELSE BoundaryLayers[i - Len(first)]
    BY <1>0, <1>2, ConcatProperties, Zenon
  <2>. QED BY <1>1, <2>1, <2>2
<1>. HIDE DEF front
<1>5. /\ SourceSteps \in Seq(StepNames) /\ Len(SourceSteps) = K + 9
      /\ \A i \in 1 .. K + 9 :
           SourceSteps[i] = IF i <= 3 + K THEN front[i] ELSE last[i - (3 + K)]
  <2>1. Len(front) + Len(last) = K + 9
    BY <1>1, <1>2, <1>4
  <2>2. /\ SourceSteps \in Seq(StepNames) /\ Len(SourceSteps) = Len(front) + Len(last)
        /\ \A i \in 1 .. Len(front) + Len(last) :
             SourceSteps[i] = IF i <= Len(front) THEN front[i] ELSE last[i - Len(front)]
    BY <1>0, <1>3, <1>4, ConcatProperties, Zenon
  <2>. QED BY <1>4, <2>1, <2>2
<1>6. \A i \in 1 .. K : SourceSteps[3 + i] = BoundaryLayers[i]
  <2>. SUFFICES ASSUME NEW i \in 1 .. K PROVE SourceSteps[3 + i] = BoundaryLayers[i]
    OBVIOUS
  <2>1. 3 + i \in 1 .. 3 + K /\ 3 + i \in 1 .. K + 9 /\ (3 + i) - 3 = i /\ ~(3 + i <= 3)
    BY <1>2
  <2>. QED BY <1>2, <1>4, <1>5, <2>1
<1>7. SourceSteps[1] = "ssap" /\ SourceSteps[2] = "rcl" /\ SourceSteps[3] = "clear"
  BY <1>1, <1>2, <1>4, <1>5
<1>8. \A j \in 1 .. 6 : SourceSteps[K + 3 + j] = last[j]
  <2>. SUFFICES ASSUME NEW j \in 1 .. 6 PROVE SourceSteps[K + 3 + j] = last[j]
    OBVIOUS
  <2>1. K + 3 + j \in 1 .. K + 9 /\ ~(K + 3 + j <= 3 + K) /\ (K + 3 + j) - (3 + K) = j
    BY <1>2
  <2>. QED BY <1>5, <2>1
<1>9. /\ SourceSteps[K + 4] = last[1] /\ SourceSteps[K + 5] = last[2]
      /\ SourceSteps[K + 6] = last[3] /\ SourceSteps[K + 7] = last[4]
      /\ SourceSteps[K + 8] = last[5] /\ SourceSteps[K + 9] = last[6]
  <2>1. /\ K + 3 + 1 = K + 4 /\ K + 3 + 2 = K + 5 /\ K + 3 + 3 = K + 6
        /\ K + 3 + 4 = K + 7 /\ K + 3 + 5 = K + 8 /\ K + 3 + 6 = K + 9
    BY <1>2
  <2>. QED BY <1>8, <2>1
<1>. QED BY <1>1, <1>5, <1>6, <1>7, <1>9

\* Each name stands at one position only.
LEMMA SourceNames ==
  ASSUME NEW n \in 1 .. K + 9
  PROVE  /\ SourceSteps[n] = "ssap" <=> n = 1
         /\ SourceSteps[n] = "rcl" <=> n = 2
         /\ SourceSteps[n] = "clear" <=> n = 3
         /\ \A i \in 1 .. K : SourceSteps[n] = BoundaryLayers[i] <=> n = 3 + i
         /\ SourceSteps[n] = "geodetic" <=> n = K + 4
         /\ SourceSteps[n] = "civic" <=> n = K + 5
         /\ SourceSteps[n] = "ssapIndex" <=> n = K + 6
         /\ SourceSteps[n] = "rclIndex" <=> n = K + 7
         /\ SourceSteps[n] = "save" <=> n = K + 8
         /\ SourceSteps[n] = "over" <=> n = K + 9
         /\ SourceSteps[n] # "boundaries"
<1>1. K \in Nat
  BY LayerFacts
<1>2. CASE n \in 4 .. K + 3
  <2>1. n - 3 \in 1 .. K /\ 3 + (n - 3) = n
    BY <1>1, <1>2
  <2>2. SourceSteps[n] = BoundaryLayers[n - 3]
    BY <2>1, SourceTable
  <2>3. SourceSteps[n] \notin FixedSteps
    BY <2>1, <2>2, LayerFacts
  <2>4. \A i \in 1 .. K : SourceSteps[n] = BoundaryLayers[i] <=> n = 3 + i
    BY <1>1, <2>1, <2>2, LayerFacts
  <2>. QED BY <1>1, <1>2, <2>3, <2>4 DEF FixedSteps
<1>3. CASE n \notin 4 .. K + 3
  <2>1. n \in {1, 2, 3, K + 4, K + 5, K + 6, K + 7, K + 8, K + 9}
    BY <1>1, <1>3
  <2>2. SourceSteps[n] \in FixedSteps \ {"boundaries"}
    BY <2>1, SourceTable DEF FixedSteps
  <2>3. \A i \in 1 .. K : SourceSteps[n] # BoundaryLayers[i] /\ n # 3 + i
    BY <1>1, <1>3, <2>2, LayerFacts
  <2>. QED BY <1>1, <2>1, <2>3, SourceTable
<1>. QED BY <1>2, <1>3

-----------------------------------------------------------------------------
\* What is left of a load at its n-th step.
LEMMA RestOf ==
  ASSUME NEW s \in Seq(StepNames), NEW n \in 1 .. Len(s)
  PROVE  /\ SubSeq(s, n, Len(s)) # <<>>
         /\ Head(SubSeq(s, n, Len(s))) = s[n]
         /\ Tail(SubSeq(s, n, Len(s))) = SubSeq(s, n + 1, Len(s))
         /\ n = Len(s) => Tail(SubSeq(s, n, Len(s))) = <<>>
         /\ \A x : x \in ToSet(SubSeq(s, n, Len(s))) <=> \E i \in n .. Len(s) : s[i] = x
<1>1. Len(s) \in Nat /\ Len(s) \in n .. Len(s)
  BY LenProperties
<1>2. Head(SubSeq(s, n, Len(s))) = s[n] /\ Tail(SubSeq(s, n, Len(s))) = SubSeq(s, n + 1, Len(s))
  BY <1>1, HeadTailOfSubSeq
<1>. DEFINE t == SubSeq(s, n, Len(s))
<1>3. /\ t \in Seq(StepNames) /\ Len(t) = Len(s) - n + 1
      /\ \A i \in 1 .. Len(s) - n + 1 : t[i] = s[n + i - 1]
  <2>1. \A i \in n .. Len(s) : s[i] \in StepNames
    BY <1>1, ElementOfSeq
  <2>. QED BY <1>1, <2>1, SubSeqProperties
<1>4. DOMAIN t = 1 .. Len(s) - n + 1
  BY <1>3, LenProperties
<1>5. n = Len(s) => SubSeq(s, n + 1, Len(s)) = <<>>
  BY <1>1, SubSeqEmpty
<1>6. t # <<>>
  <2>1. Len(t) # 0
    BY <1>1, <1>3
  <2>. QED BY <2>1, EmptySeq
<1>7. ASSUME NEW x PROVE x \in ToSet(t) <=> \E i \in n .. Len(s) : s[i] = x
  <2>1. ASSUME x \in ToSet(t) PROVE \E i \in n .. Len(s) : s[i] = x
    <3>1. PICK i \in 1 .. Len(s) - n + 1 : t[i] = x
      BY <1>4, <2>1 DEF ToSet
    <3>2. n + i - 1 \in n .. Len(s) /\ s[n + i - 1] = x
      BY <1>1, <1>3, <3>1
    <3>. QED BY <3>2
  <2>2. ASSUME NEW i \in n .. Len(s), s[i] = x PROVE x \in ToSet(t)
    <3>1. i - n + 1 \in 1 .. Len(s) - n + 1 /\ n + (i - n + 1) - 1 = i
      BY <1>1
    <3>2. t[i - n + 1] = x
      BY <1>3, <2>2, <3>1
    <3>. QED BY <1>4, <3>1, <3>2 DEF ToSet
  <2>. QED BY <2>1, <2>2
<1>. QED BY <1>2, <1>5, <1>6, <1>7

\* Which steps of a load from the source are behind the n-th.
LEMMA SourceDone ==
  ASSUME NEW n \in 1 .. K + 9, NEW t, t = SubSeq(SourceSteps, n, Len(SourceSteps))
  PROVE  /\ "clear" \notin ToSet(t) <=> n > 3
         /\ \A i \in 1 .. K : BoundaryLayers[i] \notin ToSet(t) <=> n > 3 + i
         /\ "geodetic" \notin ToSet(t) <=> n > K + 4
         /\ "civic" \notin ToSet(t) <=> n > K + 5
         /\ "ssapIndex" \notin ToSet(t) <=> n > K + 6
         /\ "rclIndex" \notin ToSet(t) <=> n > K + 7
         /\ "save" \notin ToSet(t) <=> n > K + 8
<1>1. K \in Nat /\ Len(SourceSteps) = K + 9 /\ SourceSteps \in Seq(StepNames)
  BY LayerFacts, SourceTable
<1>2. \A x : x \in ToSet(t) <=> \E i \in n .. K + 9 : SourceSteps[i] = x
  <2>1. n \in 1 .. Len(SourceSteps)
    BY <1>1
  <2>2. \A x : x \in ToSet(t) <=> \E i \in n .. Len(SourceSteps) : SourceSteps[i] = x
    <3>1. \A x : x \in ToSet(SubSeq(SourceSteps, n, Len(SourceSteps)))
                   <=> \E i \in n .. Len(SourceSteps) : SourceSteps[i] = x
      BY <1>1, <2>1, RestOf, Zenon
    <3>. QED BY <3>1
  <2>. QED BY <1>1, <2>2
<1>3. \A i \in n .. K + 9 : i \in 1 .. K + 9
  BY <1>1
<1>4. ASSUME NEW x, NEW p \in 1 .. K + 9,
             \A i \in 1 .. K + 9 : SourceSteps[i] = x <=> i = p
      PROVE  x \notin ToSet(t) <=> n > p
  BY <1>1, <1>2, <1>3, <1>4
<1>5. ASSUME NEW i \in 1 .. K
      PROVE  BoundaryLayers[i] \notin ToSet(t) <=> n > 3 + i
  <2>1. 3 + i \in 1 .. K + 9
    BY <1>1
  <2>2. \A j \in 1 .. K + 9 : SourceSteps[j] = BoundaryLayers[i] <=> j = 3 + i
    BY SourceNames
  <2>. QED BY <1>4, <2>1, <2>2
<1>6. "clear" \notin ToSet(t) <=> n > 3
  <2>1. 3 \in 1 .. K + 9 /\ \A i \in 1 .. K + 9 : SourceSteps[i] = "clear" <=> i = 3
    BY <1>1, SourceNames
  <2>. QED BY <1>4, <2>1
<1>7. "geodetic" \notin ToSet(t) <=> n > K + 4
  <2>1. K + 4 \in 1 .. K + 9 /\ \A i \in 1 .. K + 9 : SourceSteps[i] = "geodetic" <=> i = K + 4
    BY <1>1, SourceNames
  <2>. QED BY <1>4, <2>1
<1>8. "civic" \notin ToSet(t) <=> n > K + 5
  <2>1. K + 5 \in 1 .. K + 9 /\ \A i \in 1 .. K + 9 : SourceSteps[i] = "civic" <=> i = K + 5
    BY <1>1, SourceNames
  <2>. QED BY <1>4, <2>1
<1>9. "ssapIndex" \notin ToSet(t) <=> n > K + 6
  <2>1. K + 6 \in 1 .. K + 9 /\ \A i \in 1 .. K + 9 : SourceSteps[i] = "ssapIndex" <=> i = K + 6
    BY <1>1, SourceNames
  <2>. QED BY <1>4, <2>1
<1>10. "rclIndex" \notin ToSet(t) <=> n > K + 7
  <2>1. K + 7 \in 1 .. K + 9 /\ \A i \in 1 .. K + 9 : SourceSteps[i] = "rclIndex" <=> i = K + 7
    BY <1>1, SourceNames
  <2>. QED BY <1>4, <2>1
<1>11. "save" \notin ToSet(t) <=> n > K + 8
  <2>1. K + 8 \in 1 .. K + 9 /\ \A i \in 1 .. K + 9 : SourceSteps[i] = "save" <=> i = K + 8
    BY <1>1, SourceNames
  <2>. QED BY <1>4, <2>1
<1>. QED BY <1>5, <1>6, <1>7, <1>8, <1>9, <1>10, <1>11

\* The same for a load from the cache.
LEMMA RestoreTable ==
  /\ Len(CacheSteps) = 8 /\ CacheSteps \in Seq(StepNames)
  /\ CacheSteps[1] = "ssap" /\ CacheSteps[2] = "rcl" /\ CacheSteps[3] = "boundaries"
  /\ CacheSteps[4] = "civic" /\ CacheSteps[5] = "geodetic" /\ CacheSteps[6] = "ssapIndex"
  /\ CacheSteps[7] = "rclIndex" /\ CacheSteps[8] = "over"
<1>1. CacheSteps \in Seq(StepNames)
  BY StepTypes
<1>. QED BY <1>1 DEF CacheSteps

LEMMA RestoreNames ==
  ASSUME NEW i \in 1 .. 8
  PROVE  /\ CacheSteps[i] = "ssap" <=> i = 1
         /\ CacheSteps[i] = "rcl" <=> i = 2
         /\ CacheSteps[i] = "boundaries" <=> i = 3
         /\ CacheSteps[i] = "civic" <=> i = 4
         /\ CacheSteps[i] = "geodetic" <=> i = 5
         /\ CacheSteps[i] = "ssapIndex" <=> i = 6
         /\ CacheSteps[i] = "rclIndex" <=> i = 7
         /\ CacheSteps[i] = "over" <=> i = 8
         /\ CacheSteps[i] \in FixedSteps \ {"clear", "save"}
<1>1. i \in {1, 2, 3, 4, 5, 6, 7, 8}
  OBVIOUS
<1>. QED BY <1>1, RestoreTable DEF FixedSteps

LEMMA RestoreDone ==
  ASSUME NEW n \in 1 .. 8, NEW t, t = SubSeq(CacheSteps, n, Len(CacheSteps))
  PROVE  /\ "ssap" \notin ToSet(t) <=> n > 1
         /\ "rcl" \notin ToSet(t) <=> n > 2
         /\ "boundaries" \notin ToSet(t) <=> n > 3
         /\ "civic" \notin ToSet(t) <=> n > 4
         /\ "geodetic" \notin ToSet(t) <=> n > 5
         /\ "ssapIndex" \notin ToSet(t) <=> n > 6
         /\ "rclIndex" \notin ToSet(t) <=> n > 7
<1>1. Len(CacheSteps) = 8 /\ CacheSteps \in Seq(StepNames)
  BY RestoreTable
<1>2. \A x : x \in ToSet(t) <=> \E i \in n .. 8 : CacheSteps[i] = x
  <2>1. n \in 1 .. Len(CacheSteps)
    BY <1>1
  <2>2. \A x : x \in ToSet(t) <=> \E i \in n .. Len(CacheSteps) : CacheSteps[i] = x
    <3>1. \A x : x \in ToSet(SubSeq(CacheSteps, n, Len(CacheSteps)))
                   <=> \E i \in n .. Len(CacheSteps) : CacheSteps[i] = x
      BY <1>1, <2>1, RestOf, Zenon
    <3>. QED BY <3>1
  <2>. QED BY <1>1, <2>2
<1>3. \A i \in n .. 8 : i \in 1 .. 8
  OBVIOUS
<1>4. ASSUME NEW x, NEW p \in 1 .. 8, \A i \in 1 .. 8 : CacheSteps[i] = x <=> i = p
      PROVE  x \notin ToSet(t) <=> n > p
  <2>1. x \in ToSet(t) <=> p \in n .. 8
    BY <1>2, <1>3, <1>4
  <2>. QED BY <2>1
<1>5. "ssap" \notin ToSet(t) <=> n > 1
  BY <1>4, RestoreNames
<1>6. "rcl" \notin ToSet(t) <=> n > 2
  BY <1>4, RestoreNames
<1>7. "boundaries" \notin ToSet(t) <=> n > 3
  BY <1>4, RestoreNames
<1>8. "civic" \notin ToSet(t) <=> n > 4
  BY SMTT(30), <1>4, RestoreNames
<1>9. "geodetic" \notin ToSet(t) <=> n > 5
  BY <1>4, RestoreNames
<1>10. "ssapIndex" \notin ToSet(t) <=> n > 6
  BY <1>4, RestoreNames
<1>11. "rclIndex" \notin ToSet(t) <=> n > 7
  BY <1>4, RestoreNames
<1>. QED BY <1>5, <1>6, <1>7, <1>8, <1>9, <1>10, <1>11

-----------------------------------------------------------------------------
\* Which steps are behind a load from the source whose n-th step is next.
Behind(t, n) ==
  /\ "clear" \notin ToSet(t) <=> n > 3
  /\ \A i \in 1 .. K : BoundaryLayers[i] \notin ToSet(t) <=> n > 3 + i
  /\ "geodetic" \notin ToSet(t) <=> n > K + 4
  /\ "civic" \notin ToSet(t) <=> n > K + 5
  /\ "ssapIndex" \notin ToSet(t) <=> n > K + 6
  /\ "rclIndex" \notin ToSet(t) <=> n > K + 7
  /\ "save" \notin ToSet(t) <=> n > K + 8

RestoreBehind(t, n) ==
  /\ "ssap" \notin ToSet(t) <=> n > 1
  /\ "rcl" \notin ToSet(t) <=> n > 2
  /\ "boundaries" \notin ToSet(t) <=> n > 3
  /\ "civic" \notin ToSet(t) <=> n > 4
  /\ "geodetic" \notin ToSet(t) <=> n > 5
  /\ "ssapIndex" \notin ToSet(t) <=> n > 6
  /\ "rclIndex" \notin ToSet(t) <=> n > 7

LEMMA SourcePosition ==
  ASSUME TypeOK, Loading("source")
  PROVE  \E n \in 1 .. K + 9 :
           /\ Head(load.todo) = SourceSteps[n]
           /\ Behind(load.todo, n)
           /\ n < K + 9 => /\ Tail(load.todo) # <<>>
                           /\ Tail(load.todo) = SubSeq(SourceSteps, n + 1, Len(SourceSteps))
                           /\ Behind(Tail(load.todo), n + 1)
           /\ n = K + 9 => Tail(load.todo) = <<>>
<1>1. K \in Nat /\ Len(SourceSteps) = K + 9 /\ SourceSteps \in Seq(StepNames)
  BY LayerFacts, SourceTable
<1>2. PICK n \in 1 .. Len(SourceSteps) : load.todo = SubSeq(SourceSteps, n, Len(SourceSteps))
  BY DEF TypeOK, Loading
<1>3. /\ Head(load.todo) = SourceSteps[n]
      /\ Tail(load.todo) = SubSeq(SourceSteps, n + 1, Len(SourceSteps))
  BY <1>1, <1>2, RestOf, Zenon
<1>4. Behind(load.todo, n)
  BY <1>1, <1>2, SourceDone, Zenon DEF Behind
<1>5. ASSUME n < K + 9
      PROVE  Tail(load.todo) # <<>> /\ Behind(Tail(load.todo), n + 1)
  <2>1. n + 1 \in 1 .. K + 9 /\ n + 1 \in 1 .. Len(SourceSteps)
    BY <1>1, <1>5
  <2>2. Tail(load.todo) # <<>>
    BY <1>1, <1>3, <2>1, RestOf, Zenon
  <2>. QED BY <1>3, <2>1, <2>2, SourceDone, Zenon DEF Behind
<1>6. n = K + 9 => Tail(load.todo) = <<>>
  BY <1>1, <1>2, RestOf, Zenon
<1>. QED BY <1>1, <1>3, <1>4, <1>5, <1>6

LEMMA RestorePosition ==
  ASSUME TypeOK, Loading("cache")
  PROVE  \E n \in 1 .. 8 :
           /\ Head(load.todo) = CacheSteps[n]
           /\ RestoreBehind(load.todo, n)
           /\ n < 8 => /\ Tail(load.todo) # <<>>
                       /\ Tail(load.todo) = SubSeq(CacheSteps, n + 1, Len(CacheSteps))
                       /\ RestoreBehind(Tail(load.todo), n + 1)
           /\ n = 8 => Tail(load.todo) = <<>>
<1>1. Len(CacheSteps) = 8 /\ CacheSteps \in Seq(StepNames)
  BY RestoreTable
<1>2. PICK n \in 1 .. Len(CacheSteps) : load.todo = SubSeq(CacheSteps, n, Len(CacheSteps))
  BY DEF TypeOK, Loading
<1>3. /\ Head(load.todo) = CacheSteps[n]
      /\ Tail(load.todo) = SubSeq(CacheSteps, n + 1, Len(CacheSteps))
  BY <1>1, <1>2, RestOf, ZenonT(30)
<1>4. RestoreBehind(load.todo, n)
  BY <1>1, <1>2, RestoreDone, Zenon DEF RestoreBehind
<1>5. ASSUME n < 8
      PROVE  Tail(load.todo) # <<>> /\ RestoreBehind(Tail(load.todo), n + 1)
  <2>1. n + 1 \in 1 .. 8 /\ n + 1 \in 1 .. Len(CacheSteps)
    BY <1>1, <1>5
  <2>2. Tail(load.todo) # <<>>
    BY <1>1, <1>3, <2>1, RestOf, Zenon
  <2>. QED BY <1>3, <2>1, <2>2, RestoreDone, Zenon DEF RestoreBehind
<1>6. n = 8 => Tail(load.todo) = <<>>
  BY <1>1, <1>2, RestOf, Zenon
<1>. QED BY <1>1, <1>3, <1>4, <1>5, <1>6

\* What TypeOK says of the load under way.
LoadType ==
  /\ load \in [from: {"source", "cache"}, todo: Seq(StepNames)]
  /\ LET steps == IF load.from = "source" THEN SourceSteps ELSE CacheSteps
     IN  load.todo = <<>>
         \/ \E n \in 1 .. Len(steps) : load.todo = SubSeq(steps, n, Len(steps))

LEMMA StepLoad ==
  ASSUME TypeOK, NEW name, Step(name)
  PROVE  /\ load'.from = load.from /\ load'.todo = Tail(load.todo)
         /\ load.todo # <<>> /\ LoadType'
<1>1. load'.from = load.from /\ load'.todo = Tail(load.todo) /\ load.todo # <<>>
  BY DEF Step, TypeOK
<1>2. load' \in [from: {"source", "cache"}, todo: Seq(StepNames)]
  <2>1. Tail(load.todo) \in Seq(StepNames)
    BY <1>1, HeadTailProperties DEF TypeOK, StepNames
  <2>. QED BY <2>1 DEF Step, TypeOK, StepNames
<1>3. CASE load.from = "source"
  <2>1. PICK n \in 1 .. K + 9 :
          /\ n < K + 9 => Tail(load.todo) = SubSeq(SourceSteps, n + 1, Len(SourceSteps))
          /\ n = K + 9 => Tail(load.todo) = <<>>
    BY <1>1, <1>3, SourcePosition DEF Loading
  <2>2. CASE n < K + 9
    <3>1. n + 1 \in 1 .. Len(SourceSteps)
      BY <2>2, SourceTable, LayerFacts
    <3>. QED BY <1>1, <1>2, <1>3, <2>1, <2>2, <3>1 DEF LoadType
  <2>3. CASE n = K + 9
    BY <1>1, <1>2, <2>1, <2>3 DEF LoadType
  <2>. QED BY <2>2, <2>3, LayerFacts
<1>4. CASE load.from = "cache"
  <2>1. PICK n \in 1 .. 8 :
          /\ n < 8 => Tail(load.todo) = SubSeq(CacheSteps, n + 1, Len(CacheSteps))
          /\ n = 8 => Tail(load.todo) = <<>>
    BY <1>1, <1>4, RestorePosition DEF Loading
  <2>2. CASE n < 8
    <3>1. n + 1 \in 1 .. Len(CacheSteps)
      BY <2>2, RestoreTable
    <3>. QED BY <1>1, <1>2, <1>4, <2>1, <2>2, <3>1 DEF LoadType
  <2>3. CASE n = 8
    BY <1>1, <1>2, <2>1, <2>3 DEF LoadType
  <2>. QED BY <2>2, <2>3
<1>. QED BY <1>1, <1>2, <1>3, <1>4 DEF TypeOK

\* And what it says of the rest.
RestType ==
  /\ file \in 1 .. MaxVersion
  /\ cache = None \/ cache \in [stamp: Versions, data: Data, missed: SUBSET Pieces]
  /\ process \in {"down", "booting", "serving"}
  /\ live \in Data /\ missed \in SUBSET Pieces
  /\ stamp \in Versions
  /\ reloading \in BOOLEAN /\ failed \in BOOLEAN
  /\ request \in [at: {"none", "gate0", "match", "candidates", "rcl", "rclIndex", "civic"},
                  service: Services \cup {None}, overlapped: BOOLEAN,
                  boundaries: SUBSET (Layers \X Versions), ssap: Versions, rcl: Versions]

LEMMA TypeSplit ==
  /\ TypeOK <=> LoadType /\ RestType
  /\ LoadType' /\ RestType' => TypeOK'
BY DEF TypeOK, LoadType, RestType, StepNames

\* A step in the middle of a load changes nothing that is asked of a worker
\* between loads, or of the load of the other kind.
LEMMA BusyStep ==
  ASSUME ReloadInv, NEW name, Step(name), Tail(load.todo) # <<>>,
         UNCHANGED <<cache, reloading>>
  PROVE  /\ CacheWhole' /\ DerivedFromLayers' /\ ServingInv' /\ RequestInv'
         /\ load.from = "source" => RestoreInv'
         /\ load.from = "cache" => SourceInv'
<1>1. /\ load'.from = load.from /\ load'.todo # <<>> /\ load.todo # <<>>
  BY StepLoad DEF ReloadInv
<1>2. UNCHANGED <<file, process, stamp, failed, request>>
  BY DEF Step
<1>3. CacheWhole'
  BY DEF ReloadInv, CacheWhole, Whole, ReadOnce, ReadsOf
<1>4. DerivedFromLayers' /\ ~Settled' /\ ~Settled
  BY <1>1 DEF DerivedFromLayers, Settled
<1>5. RequestInv'
  BY <1>2, <1>4 DEF ReloadInv, RequestInv
<1>6. ServingInv'
  BY <1>1, <1>2 DEF ReloadInv, ServingInv
<1>7. load.from = "source" => RestoreInv'
  BY <1>1 DEF RestoreInv, Loading
<1>8. load.from = "cache" => SourceInv'
  BY <1>1 DEF SourceInv, Loading
<1>. QED BY <1>3, <1>4, <1>5, <1>6, <1>7, <1>8

-----------------------------------------------------------------------------
\* The steps of a load from the source.
LEMMA SourceStep ==
  ASSUME TypeOK, NEW name, name # "over", Step(name), load.from = "source"
  PROVE  \E n \in 1 .. K + 8 :
           /\ n \in 1 .. K + 9 /\ SourceSteps[n] = name
           /\ Behind(load.todo, n) /\ Behind(load'.todo, n + 1)
           /\ Tail(load.todo) # <<>> /\ Loading("source") /\ Loading("source")'
<1>1. load'.from = load.from /\ load'.todo = Tail(load.todo) /\ load.todo # <<>>
  BY StepLoad
<1>2. PICK n \in 1 .. K + 9 :
        /\ Head(load.todo) = SourceSteps[n]
        /\ Behind(load.todo, n)
        /\ n < K + 9 => Tail(load.todo) # <<>> /\ Behind(Tail(load.todo), n + 1)
  BY <1>1, SourcePosition DEF Loading
<1>3. SourceSteps[n] = name /\ n # K + 9
  BY <1>2, SourceNames DEF Step
<1>4. n \in 1 .. K + 8 /\ n < K + 9
  BY <1>3, LayerFacts
<1>. QED BY <1>1, <1>2, <1>3, <1>4 DEF Loading

LEMMA OnlyFromSource ==
  ASSUME TypeOK, NEW name \in {"clear", "save"} \cup Layers, Step(name)
  PROVE  load.from = "source"
<1>1. CASE load.from = "cache"
  <2>1. PICK n \in 1 .. 8 : name = CacheSteps[n]
    BY <1>1, StepLoad, RestorePosition DEF Step, Loading
  <2>2. name \in FixedSteps \ {"clear", "save"}
    BY <2>1, RestoreNames
  <2>. QED BY <2>2, LayerFacts
<1>. QED BY <1>1 DEF TypeOK

\* What a step of a load from the source has to show.
LEMMA SourceObligation ==
  ASSUME ReloadInv, NEW name, Step(name), Tail(load.todo) # <<>>, load.from = "source",
         UNCHANGED <<cache, reloading>>, live' \in Data, missed' \in SUBSET Pieces,
         SourceInv'
  PROVE  ReloadInv'
<1>1. LoadType' /\ UNCHANGED <<file, process, stamp, failed, request>>
  BY StepLoad DEF ReloadInv, Step
<1>2. TypeOK'
  BY <1>1, TypeSplit DEF ReloadInv, RestType
<1>. QED BY <1>2, BusyStep DEF ReloadInv

LEMMA RecordsInv ==
  ASSUME ReloadInv, NEW layer \in {"ssap", "rcl"}, ReadRecords(layer) PROVE ReloadInv'
<1>1. TypeOK /\ Step(layer) /\ load.from = "source" /\ layer # "over"
  BY DEF ReloadInv, ReadRecords
<1>2. PICK n \in 1 .. K + 8 :
        /\ n \in 1 .. K + 9 /\ SourceSteps[n] = layer
        /\ Behind(load.todo, n) /\ Behind(load'.todo, n + 1)
        /\ Tail(load.todo) # <<>> /\ Loading("source") /\ Loading("source")'
  BY <1>1, SourceStep
<1>3. n \in {1, 2} /\ K \in Nat
  BY <1>2, SourceNames, LayerFacts
<1>4. live' \in Data /\ missed' \in SUBSET Pieces
  <2>1. file \in Versions
    BY <1>1, GisReloadAssumption DEF TypeOK, Versions
  <2>2. live \in Data /\ missed \in SUBSET Pieces
    BY <1>1 DEF TypeOK
  <2>3. live' = live \/ live' = [live EXCEPT ![layer] = file]
    BY DEF ReadRecords, Put
  <2>4. missed' = missed \/ missed' = missed \cup {layer}
    BY DEF ReadRecords, Miss
  <2>5. live' \in Data
    <3>1. CASE layer = "ssap"
      BY <2>1, <2>2, <2>3, <3>1 DEF Data
    <3>2. CASE layer = "rcl"
      BY <2>1, <2>2, <2>3, <3>2 DEF Data
    <3>. QED BY <3>1, <3>2
  <2>. QED BY <2>2, <2>4, <2>5 DEF Pieces
<1>5. \A other \in Layers : ~Done(other)' /\ other \notin missed' /\ ~Done("clear")'
  <2>1. TAKE other \in Layers
  <2>2. PICK i \in 1 .. K : other = BoundaryLayers[i]
    BY LayerFacts
  <2>3. ~Done(other) /\ ~Done(other)' /\ ~Done("clear")'
    BY <1>2, <1>3, <2>2 DEF Behind, Done
  <2>4. other \notin missed
    BY <1>2, <2>3 DEF ReloadInv, SourceInv
  <2>5. other # layer
    BY LayerFacts DEF FixedSteps
  <2>. QED BY <2>3, <2>4, <2>5 DEF ReadRecords, Miss
<1>6. /\ ~Done("geodetic")' /\ ~Done("civic")' /\ ~Done("ssapIndex")'
      /\ ~Done("rclIndex")' /\ ~Done("save")' /\ ~Done("save")
  BY <1>2, <1>3 DEF Behind, Done
<1>7. UNCHANGED <<cache, stamp, reloading>>
  BY DEF ReadRecords, Step
<1>8. SourceInv'
  BY <1>2, <1>5, <1>6, <1>7 DEF ReloadInv, SourceInv
<1>. QED BY <1>1, <1>2, <1>4, <1>7, <1>8, SourceObligation

LEMMA ClearInv ==
  ASSUME ReloadInv, ClearBoundaries PROVE ReloadInv'
<1>1. TypeOK /\ Step("clear") /\ load.from = "source"
  BY OnlyFromSource DEF ReloadInv, ClearBoundaries
<1>2. PICK n \in 1 .. K + 8 :
        /\ n \in 1 .. K + 9 /\ SourceSteps[n] = "clear"
        /\ Behind(load.todo, n) /\ Behind(load'.todo, n + 1)
        /\ Tail(load.todo) # <<>> /\ Loading("source") /\ Loading("source")'
  BY <1>1, SourceStep
<1>3. n = 3 /\ K \in Nat
  BY <1>2, SourceNames, LayerFacts
<1>4. live' \in Data /\ missed' \in SUBSET Pieces /\ live'.boundaries = {}
  BY <1>1 DEF ClearBoundaries, Put, TypeOK, Data
<1>5. \A other \in Layers : ~Done(other)' /\ other \notin missed' /\ ReadsOf(live, other)' = {}
  <2>1. TAKE other \in Layers
  <2>2. PICK i \in 1 .. K : other = BoundaryLayers[i]
    BY LayerFacts
  <2>3. ~Done(other) /\ ~Done(other)'
    BY <1>2, <1>3, <2>2 DEF Behind, Done
  <2>4. other \notin missed
    BY <1>2, <2>3 DEF ReloadInv, SourceInv
  <2>. QED BY <1>4, <2>3, <2>4 DEF ClearBoundaries, ReadsOf
<1>6. /\ ~Done("geodetic")' /\ ~Done("civic")' /\ ~Done("ssapIndex")'
      /\ ~Done("rclIndex")' /\ ~Done("save")' /\ ~Done("save")
  BY <1>2, <1>3 DEF Behind, Done
<1>7. UNCHANGED <<cache, stamp, reloading>>
  BY DEF ClearBoundaries, Step
<1>8. SourceInv'
  BY <1>2, <1>5, <1>6, <1>7 DEF ReloadInv, SourceInv
<1>. QED BY <1>1, <1>2, <1>4, <1>7, <1>8, SourceObligation

LEMMA BoundariesInv ==
  ASSUME ReloadInv, NEW layer \in Layers, ReadBoundaries(layer) PROVE ReloadInv'
<1>1. TypeOK /\ Step(layer) /\ load.from = "source" /\ layer # "over"
  BY OnlyFromSource, LayerFacts DEF ReloadInv, ReadBoundaries, FixedSteps
<1>2. PICK n \in 1 .. K + 8 :
        /\ n \in 1 .. K + 9 /\ SourceSteps[n] = layer
        /\ Behind(load.todo, n) /\ Behind(load'.todo, n + 1)
        /\ Tail(load.todo) # <<>> /\ Loading("source") /\ Loading("source")'
  BY <1>1, SourceStep
<1>3. PICK p \in 1 .. K : layer = BoundaryLayers[p] /\ n = 3 + p /\ K \in Nat
  <2>1. PICK p \in 1 .. K : layer = BoundaryLayers[p]
    BY LayerFacts
  <2>2. n = 3 + p
    BY <1>2, <2>1, SourceNames
  <2>. QED BY <2>1, <2>2, LayerFacts
<1>4. file \in Versions
  BY <1>1, GisReloadAssumption DEF TypeOK, Versions
<1>5. live' \in Data /\ missed' \in SUBSET Pieces
  BY <1>1, <1>4 DEF ReadBoundaries, Miss, Put, TypeOK, Data, Pieces
<1>6. Done("clear") /\ Done("clear")' /\ ~Done(layer) /\ Done(layer)'
  BY <1>2, <1>3 DEF Behind, Done
<1>7. layer \notin missed /\ ReadsOf(live, layer) = {}
  BY <1>2, <1>6 DEF ReloadInv, SourceInv
<1>8. ReadOnce(live, missed, layer)'
  <2>1. CASE /\ Put("boundaries", live.boundaries \cup {<<layer, file>>})
             /\ UNCHANGED <<missed, budget>>
    <3>1. live'.boundaries = live.boundaries \cup {<<layer, file>>}
      BY <1>1, <2>1 DEF Put, TypeOK, Data
    <3>2. ReadsOf(live', layer) = {file}
      BY <1>4, <1>7, <3>1 DEF ReadsOf
    <3>. QED BY <1>4, <1>7, <2>1, <3>2 DEF ReadOnce
  <2>2. CASE Miss(layer) /\ UNCHANGED live
    BY <1>7, <2>2 DEF Miss, ReadOnce, ReadsOf
  <2>. QED BY <2>1, <2>2 DEF ReadBoundaries
<1>9. \A other \in Layers \ {layer} :
        /\ Done(other)' <=> Done(other)
        /\ ReadsOf(live, other)' = ReadsOf(live, other)
        /\ other \in missed' <=> other \in missed
  <2>1. TAKE other \in Layers \ {layer}
  <2>2. PICK i \in 1 .. K : other = BoundaryLayers[i]
    BY LayerFacts
  <2>3. Done(other)' <=> Done(other)
    BY <1>2, <1>3, <2>2 DEF Behind, Done
  <2>4. CASE /\ Put("boundaries", live.boundaries \cup {<<layer, file>>})
             /\ UNCHANGED <<missed, budget>>
    <3>1. live'.boundaries = live.boundaries \cup {<<layer, file>>}
      BY <1>1, <2>4 DEF Put, TypeOK, Data
    <3>. QED BY <2>3, <2>4, <3>1 DEF ReadsOf
  <2>5. CASE Miss(layer) /\ UNCHANGED live
    BY <2>3, <2>5 DEF Miss, ReadsOf
  <2>. QED BY <2>4, <2>5 DEF ReadBoundaries
<1>10. \A other \in Layers :
         IF Done(other)' THEN ReadOnce(live, missed, other)'
         ELSE other \notin missed' /\ (Done("clear")' => ReadsOf(live, other)' = {})
  <2>1. TAKE other \in Layers
  <2>2. CASE other = layer
    BY <1>6, <1>8, <2>2
  <2>3. CASE other # layer
    BY <1>2, <1>6, <1>9, <2>3 DEF ReloadInv, SourceInv, ReadOnce
  <2>. QED BY <2>2, <2>3
<1>11. /\ ~Done("geodetic")' /\ ~Done("civic")' /\ ~Done("ssapIndex")'
       /\ ~Done("rclIndex")' /\ ~Done("save")' /\ ~Done("save")
  BY <1>2, <1>3 DEF Behind, Done
<1>12. UNCHANGED <<cache, stamp, reloading>>
  BY DEF ReadBoundaries, Step
<1>13. SourceInv'
  BY <1>2, <1>10, <1>11, <1>12 DEF ReloadInv, SourceInv
<1>. QED BY <1>1, <1>2, <1>5, <1>12, <1>13, SourceObligation

\* Deriving leaves the layers as they are.
LEMMA SameLayers ==
  ASSUME live'.boundaries = live.boundaries, UNCHANGED missed
  PROVE  \A other \in Layers : /\ ReadOnce(live, missed, other)' <=> ReadOnce(live, missed, other)
                              /\ ReadsOf(live, other)' = ReadsOf(live, other)
BY DEF ReadOnce, ReadsOf

LEMMA DeriveInv ==
  ASSUME ReloadInv, NEW piece \in DOMAIN Derived, Derive(piece), load.from = "source"
  PROVE  ReloadInv'
<1>1. /\ TypeOK /\ Step(piece) /\ piece # "over"
      /\ piece \in {"geodetic", "civic", "ssapIndex", "rclIndex"}
  BY DEF ReloadInv, Derive, Derived
<1>2. PICK n \in 1 .. K + 8 :
        /\ n \in 1 .. K + 9 /\ SourceSteps[n] = piece
        /\ Behind(load.todo, n) /\ Behind(load'.todo, n + 1)
        /\ Tail(load.todo) # <<>> /\ Loading("source") /\ Loading("source")'
  BY <1>1, SourceStep
<1>3. /\ K \in Nat
      /\ piece = "geodetic" => n = K + 4
      /\ piece = "civic" => n = K + 5
      /\ piece = "ssapIndex" => n = K + 6
      /\ piece = "rclIndex" => n = K + 7
  BY <1>2, SourceNames, LayerFacts
<1>4. /\ live' \in Data /\ live'.ssap = live.ssap /\ live'.rcl = live.rcl
      /\ live'.boundaries = live.boundaries
      /\ live'.geodetic = IF piece = "geodetic" THEN live.boundaries ELSE live.geodetic
      /\ live'.civic = IF piece = "civic" THEN <<live.rcl, live.boundaries>> ELSE live.civic
      /\ live'.ssapIndex = IF piece = "ssapIndex" THEN live.ssap ELSE live.ssapIndex
      /\ live'.rclIndex = IF piece = "rclIndex" THEN live.rcl ELSE live.rclIndex
  BY <1>1 DEF Derive, Put, Derived, TypeOK, Data
<1>5. UNCHANGED <<cache, missed, stamp, reloading>>
  BY DEF Derive, Step
<1>6. \A other \in Layers : Done(other) /\ Done(other)'
  <2>1. TAKE other \in Layers
  <2>2. PICK i \in 1 .. K : other = BoundaryLayers[i]
    BY LayerFacts
  <2>3. n > 3 + i /\ n + 1 > 3 + i
    BY <1>1, <1>3
  <2>. QED BY <1>2, <2>2, <2>3 DEF Behind, Done
<1>7. /\ Done("geodetic")' => piece = "geodetic" \/ Done("geodetic")
      /\ Done("civic")' => piece = "civic" \/ Done("civic")
      /\ Done("ssapIndex")' => piece = "ssapIndex" \/ Done("ssapIndex")
      /\ Done("rclIndex")' => piece = "rclIndex" \/ Done("rclIndex")
      /\ ~Done("save")' /\ ~Done("save")
  BY <1>1, <1>2, <1>3 DEF Behind, Done
<1>8. \A other \in Layers : ReadOnce(live, missed, other)'
  BY <1>2, <1>4, <1>5, <1>6, SameLayers DEF ReloadInv, SourceInv
<1>9. SourceInv'
  BY <1>2, <1>4, <1>5, <1>6, <1>7, <1>8 DEF ReloadInv, SourceInv
<1>10. missed' \in SUBSET Pieces
  BY <1>1, <1>5 DEF TypeOK
<1>. QED BY <1>1, <1>2, <1>4, <1>5, <1>9, <1>10, SourceObligation

\* A save is made of a load that is whole.
LEMMA SaveInv ==
  ASSUME ReloadInv, Save PROVE ReloadInv'
<1>1. TypeOK /\ Step("save") /\ load.from = "source"
  BY OnlyFromSource DEF ReloadInv, Save
<1>2. PICK n \in 1 .. K + 8 :
        /\ n \in 1 .. K + 9 /\ SourceSteps[n] = "save"
        /\ Behind(load.todo, n) /\ Behind(load'.todo, n + 1)
        /\ Tail(load.todo) # <<>> /\ Loading("source") /\ Loading("source")'
  BY <1>1, SourceStep
<1>3. n = K + 8 /\ K \in Nat
  BY <1>2, SourceNames, LayerFacts
<1>4. /\ UNCHANGED <<file, process, live, missed, stamp, reloading, failed, request>>
      /\ cache' = [stamp |-> stamp, data |-> live, missed |-> missed]
  BY DEF Save, Step
<1>5. \A other \in Layers : Done(other) /\ Done(other)'
  <2>1. TAKE other \in Layers
  <2>2. PICK i \in 1 .. K : other = BoundaryLayers[i]
    BY LayerFacts
  <2>3. n > 3 + i /\ n + 1 > 3 + i
    BY <1>3
  <2>. QED BY <1>2, <2>2, <2>3 DEF Behind, Done
<1>6. /\ Done("geodetic") /\ Done("civic") /\ Done("ssapIndex") /\ Done("rclIndex")
      /\ Done("save")'
  BY <1>2, <1>3 DEF Behind, Done
<1>7. Whole(live, missed) /\ Indexed(live)
  BY <1>2, <1>5, <1>6 DEF ReloadInv, SourceInv, Whole, Indexed
<1>8. CacheWhole'
  BY <1>4, <1>7 DEF CacheWhole, Whole, ReadOnce, ReadsOf
<1>9. SourceInv'
  BY <1>4, <1>5, <1>6, <1>7, SameLayers DEF SourceInv, Whole, Indexed
<1>10. load'.todo # <<>> /\ load.todo # <<>> /\ load'.from = "source" /\ LoadType'
  BY <1>1, <1>2, StepLoad
<1>11. DerivedFromLayers' /\ ~Settled' /\ ~Settled
  BY <1>10 DEF DerivedFromLayers, Settled
<1>12. RequestInv'
  BY <1>4, <1>11 DEF ReloadInv, RequestInv
<1>13. ServingInv'
  BY <1>4, <1>10 DEF ReloadInv, ServingInv
<1>14. RestoreInv'
  BY <1>10 DEF RestoreInv, Loading
<1>15. cache' \in [stamp: Versions, data: Data, missed: SUBSET Pieces]
  BY <1>1, <1>4 DEF TypeOK
<1>16. TypeOK'
  BY <1>1, <1>4, <1>10, <1>15, TypeSplit DEF RestType
<1>. QED BY <1>8, <1>9, <1>11, <1>12, <1>13, <1>14, <1>16 DEF ReloadInv

-----------------------------------------------------------------------------
\* The steps of a load from the cache.
LEMMA RestoreStep ==
  ASSUME TypeOK, NEW name, name # "over", Step(name), load.from = "cache"
  PROVE  \E n \in 1 .. 7 :
           /\ n \in 1 .. 8 /\ CacheSteps[n] = name
           /\ RestoreBehind(load.todo, n) /\ RestoreBehind(load'.todo, n + 1)
           /\ Tail(load.todo) # <<>> /\ Loading("cache") /\ Loading("cache")'
<1>1. load'.from = load.from /\ load'.todo = Tail(load.todo) /\ load.todo # <<>>
  BY StepLoad
<1>2. PICK n \in 1 .. 8 :
        /\ Head(load.todo) = CacheSteps[n]
        /\ RestoreBehind(load.todo, n)
        /\ n < 8 => Tail(load.todo) # <<>> /\ RestoreBehind(Tail(load.todo), n + 1)
  BY <1>1, RestorePosition DEF Loading
<1>3. CacheSteps[n] = name /\ n # 8
  BY <1>2, RestoreNames DEF Step
<1>4. n \in 1 .. 7 /\ n < 8
  BY <1>3
<1>. QED BY <1>1, <1>2, <1>3, <1>4 DEF Loading

LEMMA RestoreObligation ==
  ASSUME ReloadInv, NEW name, Step(name), Tail(load.todo) # <<>>, load.from = "cache",
         UNCHANGED <<cache, reloading, missed>>, live' \in Data, RestoreInv'
  PROVE  ReloadInv'
<1>1. LoadType' /\ UNCHANGED <<file, process, stamp, failed, request>>
  BY StepLoad DEF ReloadInv, Step
<1>2. TypeOK'
  BY <1>1, TypeSplit DEF ReloadInv, RestType
<1>. QED BY <1>2, BusyStep DEF ReloadInv

CachedPieces == {"ssap", "rcl", "boundaries", "civic", "geodetic"}

LEMMA RestorePieceInv ==
  ASSUME ReloadInv, NEW piece \in CachedPieces, Restore(piece) PROVE ReloadInv'
<1>1. TypeOK /\ Step(piece) /\ load.from = "cache" /\ piece # "over"
  BY DEF ReloadInv, Restore, CachedPieces
<1>2. PICK n \in 1 .. 7 :
        /\ n \in 1 .. 8 /\ CacheSteps[n] = piece
        /\ RestoreBehind(load.todo, n) /\ RestoreBehind(load'.todo, n + 1)
        /\ Tail(load.todo) # <<>> /\ Loading("cache") /\ Loading("cache")'
  BY <1>1, RestoreStep
<1>3. /\ piece = "ssap" => n = 1
      /\ piece = "rcl" => n = 2
      /\ piece = "boundaries" => n = 3
      /\ piece = "civic" => n = 4
      /\ piece = "geodetic" => n = 5
      /\ n <= 5
  BY <1>2, RestoreNames DEF CachedPieces
<1>4. UNCHANGED <<cache, reloading, missed, process, stamp>>
  BY DEF Restore, Step
<1>5. cache # None /\ cache \in [stamp: Versions, data: Data, missed: SUBSET Pieces]
  BY <1>1, <1>2 DEF ReloadInv, RestoreInv, TypeOK
<1>6. live' = [live EXCEPT ![piece] = cache.data[piece]] /\ live \in Data /\ cache.data \in Data
  BY <1>1, <1>5 DEF Restore, Put, TypeOK
<1>7. /\ live' \in Data
      /\ \A other \in CachedPieces :
           live'[other] = IF other = piece THEN cache.data[other] ELSE live[other]
  BY <1>6 DEF Data, CachedPieces
<1>8. \A other \in CachedPieces : Done(other)' => other = piece \/ Done(other)
  BY <1>2, <1>3 DEF RestoreBehind, Done, CachedPieces
<1>9. ~Done("ssapIndex")' /\ ~Done("rclIndex")'
  BY <1>2, <1>3 DEF RestoreBehind, Done
<1>10. RestoreInv'
  BY <1>2, <1>4, <1>7, <1>8, <1>9 DEF ReloadInv, RestoreInv, CachedPieces
<1>. QED BY <1>1, <1>2, <1>4, <1>7, <1>10, RestoreObligation

LEMMA RestoreIndexInv ==
  ASSUME ReloadInv, NEW piece \in DOMAIN Derived, Derive(piece), load.from = "cache"
  PROVE  ReloadInv'
<1>1. TypeOK /\ Step(piece) /\ piece # "over" /\ piece \in {"ssapIndex", "rclIndex"}
  BY DEF ReloadInv, Derive, Derived
<1>2. PICK n \in 1 .. 7 :
        /\ n \in 1 .. 8 /\ CacheSteps[n] = piece
        /\ RestoreBehind(load.todo, n) /\ RestoreBehind(load'.todo, n + 1)
        /\ Tail(load.todo) # <<>> /\ Loading("cache") /\ Loading("cache")'
  BY <1>1, RestoreStep
<1>3. (piece = "ssapIndex" => n = 6) /\ (piece = "rclIndex" => n = 7)
  BY <1>2, RestoreNames
<1>4. UNCHANGED <<cache, reloading, missed, process, stamp>>
  BY DEF Derive, Step
<1>5. /\ live' \in Data
      /\ live'.ssapIndex = IF piece = "ssapIndex" THEN live.ssap ELSE live.ssapIndex
      /\ live'.rclIndex = IF piece = "rclIndex" THEN live.rcl ELSE live.rclIndex
      /\ \A other \in CachedPieces : live'[other] = live[other]
  BY <1>1 DEF Derive, Put, Derived, TypeOK, Data, CachedPieces
<1>6. \A other \in CachedPieces : Done(other)
  BY <1>1, <1>2, <1>3 DEF RestoreBehind, Done, CachedPieces
<1>7. /\ Done("ssapIndex")' => piece = "ssapIndex" \/ Done("ssapIndex")
      /\ Done("rclIndex")' => piece = "rclIndex" \/ Done("rclIndex")
  BY <1>1, <1>2, <1>3 DEF RestoreBehind, Done
<1>8. live'.ssap = live.ssap /\ live'.rcl = live.rcl
  BY <1>5 DEF CachedPieces
<1>9. \A other \in CachedPieces : live'[other] = cache.data[other]
  BY <1>2, <1>5, <1>6 DEF ReloadInv, RestoreInv, CachedPieces
<1>10. RestoreInv'
  BY <1>2, <1>4, <1>5, <1>7, <1>8, <1>9 DEF ReloadInv, RestoreInv, CachedPieces
<1>. QED BY <1>1, <1>2, <1>4, <1>5, <1>10, RestoreObligation

-----------------------------------------------------------------------------
\* The end of a load.
LEMMA StopLoad ==
  ASSUME TypeOK, load' = [load EXCEPT !.todo = <<>>]
  PROVE  load'.todo = <<>> /\ LoadType'
<1>1. load'.todo = <<>> /\ load' \in [from: {"source", "cache"}, todo: Seq(StepNames)]
  BY EmptySeq DEF TypeOK, StepNames
<1>. QED BY <1>1 DEF LoadType

LEMMA OverInv ==
  ASSUME ReloadInv, Over PROVE ReloadInv'
<1>1. TypeOK /\ load.todo # <<>> /\ Head(load.todo) = "over"
  BY DEF ReloadInv, Over
<1>2. /\ load' = [load EXCEPT !.todo = <<>>] /\ process' = "serving" /\ reloading' = FALSE
      /\ UNCHANGED <<file, cache, live, missed, stamp, failed, request>>
  BY DEF Over
<1>3. load'.todo = <<>> /\ LoadType'
  BY <1>1, <1>2, StopLoad
<1>4. TypeOK'
  BY <1>1, <1>2, <1>3, TypeSplit DEF RestType
<1>5. Whole(live, missed) /\ Indexed(live) /\ (cache # None => cache.stamp = stamp)
  <2>1. CASE load.from = "source"
    <3>1. PICK n \in 1 .. K + 9 : SourceSteps[n] = "over" /\ Behind(load.todo, n)
      BY <1>1, <2>1, SourcePosition DEF Loading
    <3>2. n = K + 9 /\ K \in Nat
      BY <3>1, SourceNames, LayerFacts
    <3>3. \A other \in Layers : Done(other)
      <4>1. TAKE other \in Layers
      <4>2. PICK i \in 1 .. K : other = BoundaryLayers[i]
        BY LayerFacts
      <4>3. n > 3 + i
        BY <3>2
      <4>. QED BY <3>1, <4>2, <4>3 DEF Behind, Done
    <3>4. /\ Done("geodetic") /\ Done("civic") /\ Done("ssapIndex") /\ Done("rclIndex")
          /\ Done("save")
      BY <3>1, <3>2 DEF Behind, Done
    <3>. QED BY <1>1, <2>1, <3>3, <3>4 DEF ReloadInv, SourceInv, Loading, Whole, Indexed
  <2>2. CASE load.from = "cache"
    <3>1. PICK n \in 1 .. 8 : CacheSteps[n] = "over" /\ RestoreBehind(load.todo, n)
      BY <1>1, <2>2, RestorePosition DEF Loading
    <3>2. n = 8
      BY <3>1, RestoreNames
    <3>3. /\ \A other \in CachedPieces : Done(other)
          /\ Done("ssapIndex") /\ Done("rclIndex")
      BY <3>1, <3>2 DEF RestoreBehind, Done, CachedPieces
    <3>4. /\ cache # None /\ cache.stamp = stamp /\ missed = cache.missed
          /\ \A other \in CachedPieces : live[other] = cache.data[other]
          /\ Indexed(live)
      BY <1>1, <2>2, <3>3 DEF ReloadInv, RestoreInv, Loading, CachedPieces, Indexed
    <3>5. /\ live.boundaries = cache.data.boundaries /\ live.rcl = cache.data.rcl
          /\ live.civic = cache.data.civic /\ live.geodetic = cache.data.geodetic
      BY <3>4 DEF CachedPieces
    <3>6. Whole(cache.data, cache.missed)
      BY <3>4 DEF ReloadInv, CacheWhole
    <3>. QED BY <3>4, <3>5, <3>6 DEF Whole, ReadOnce, ReadsOf
  <2>. QED BY <1>1, <2>1, <2>2 DEF TypeOK
<1>6. Whole(live, missed)' /\ Indexed(live)'
  BY <1>2, <1>5 DEF Whole, ReadOnce, ReadsOf, Indexed
<1>7. ~failed
  BY <1>1 DEF ReloadInv, ServingInv
<1>8. CacheWhole'
  BY <1>2 DEF ReloadInv, CacheWhole, Whole, ReadOnce, ReadsOf
<1>9. DerivedFromLayers'
  BY <1>2, <1>6 DEF DerivedFromLayers
<1>10. SourceInv' /\ RestoreInv'
  BY <1>3 DEF SourceInv, RestoreInv, Loading
<1>11. ServingInv'
  BY <1>2, <1>3, <1>5, <1>7 DEF ReloadInv, ServingInv
<1>12. RequestInv'
  <2>1. ~Settled
    BY <1>1 DEF Settled
  <2>. QED BY <1>2, <2>1 DEF ReloadInv, RequestInv
<1>. QED BY <1>4, <1>8, <1>9, <1>10, <1>11, <1>12 DEF ReloadInv

\* A load that raises leaves a worker that was booting down, and one that was
\* serving with a cache older than the file.
LEMMA RaiseInv ==
  ASSUME ReloadInv, Raise PROVE ReloadInv'
<1>1. TypeOK /\ load.from = "source" /\ load.todo # <<>>
      /\ Head(load.todo) \in {"geodetic", "civic", "save"}
  BY DEF ReloadInv, Raise
<1>2. /\ load' = [load EXCEPT !.todo = <<>>] /\ failed' = TRUE
      /\ UNCHANGED <<file, cache, live, missed, request>>
      /\ process' \in {"down", process} /\ (process = "booting" => process' = "down")
      /\ stamp' \in {0, stamp} /\ reloading' \in BOOLEAN
  BY <1>1 DEF Raise, TypeOK
<1>3. load'.todo = <<>> /\ LoadType'
  BY <1>1, <1>2, StopLoad
<1>4. stamp' \in Versions /\ stamp' <= file /\ stamp <= file
  <2>1. file \in Nat /\ stamp \in Versions /\ 0 \in Versions /\ stamp <= file /\ 0 <= file
    BY <1>1, GisReloadAssumption DEF ReloadInv, ServingInv, TypeOK, Versions
  <2>. QED BY <1>2, <2>1
<1>5. TypeOK'
  BY <1>1, <1>2, <1>3, <1>4, TypeSplit DEF RestType
<1>6. PICK n \in 1 .. K + 9 : SourceSteps[n] \in {"geodetic", "civic", "save"} /\ Behind(load.todo, n)
  BY <1>1, SourcePosition DEF Loading
<1>7. n <= K + 8
  BY <1>6, SourceNames, LayerFacts
<1>8. ~Done("save")
  BY <1>6, <1>7, LayerFacts DEF Behind, Done
<1>9. cache # None => cache.stamp < file
  BY SMTT(30), <1>1, <1>4, <1>8, GisReloadAssumption DEF ReloadInv, SourceInv, Loading, TypeOK, Versions
<1>10. CacheWhole'
  BY <1>2 DEF ReloadInv, CacheWhole, Whole, ReadOnce, ReadsOf
<1>11. DerivedFromLayers' /\ ~Settled'
  BY <1>2 DEF DerivedFromLayers, Settled
<1>12. SourceInv' /\ RestoreInv'
  BY <1>3 DEF SourceInv, RestoreInv, Loading
<1>13. ServingInv'
  BY <1>2, <1>3, <1>4, <1>9 DEF ReloadInv, ServingInv
<1>14. RequestInv'
  <2>1. ~Settled
    BY <1>1 DEF Settled
  <2>. QED BY <1>2, <2>1 DEF ReloadInv, RequestInv
<1>. QED BY <1>5, <1>10, <1>11, <1>12, <1>13, <1>14 DEF ReloadInv

-----------------------------------------------------------------------------
\* The beginning of a load.
LEMMA BeginLoad ==
  ASSUME ReloadInv, Begin, UNCHANGED <<file, cache>>, live' \in Data,
         load.todo = <<>>, process' # "down",
         process' = "serving" => /\ process = "serving" /\ stamp # file /\ reloading'
                                 /\ UNCHANGED live
  PROVE  /\ LoadType' /\ load'.todo # <<>> /\ stamp' \in Versions /\ failed' = FALSE
         /\ missed' \in SUBSET Pieces
         /\ CacheWhole' /\ DerivedFromLayers' /\ ServingInv' /\ ~Settled'
         /\ process' \in {"booting", "serving"} => SourceInv' /\ RestoreInv'
<1>1. TypeOK /\ stamp' = file /\ failed' = FALSE
  BY DEF ReloadInv, Begin
<1>2. stamp' \in Versions
  BY <1>1, GisReloadAssumption DEF TypeOK, Versions
<1>3. CacheWhole'
  BY DEF ReloadInv, CacheWhole, Whole, ReadOnce, ReadsOf
<1>4. CASE cache # None /\ cache.stamp = file
  <2>1. load' = [from |-> "cache", todo |-> CacheSteps] /\ missed' = cache.missed
    BY <1>4 DEF Begin
  <2>2. CacheSteps = SubSeq(CacheSteps, 1, Len(CacheSteps)) /\ CacheSteps # <<>>
    BY RestoreTable, SubSeqFull, EmptySeq, Zenon DEF CacheSteps
  <2>3. 1 \in 1 .. Len(CacheSteps) /\ 1 \in 1 .. 8
    BY RestoreTable
  <2>4. LoadType' /\ load'.todo # <<>>
    BY <2>1, <2>2, <2>3, RestoreTable DEF LoadType
  <2>5. process' # "serving"
    BY <1>4, GisReloadAssumption, <1>1 DEF ReloadInv, ServingInv, TypeOK, Versions
  <2>6. RestoreBehind(CacheSteps, 1)
    BY <2>2, <2>3, RestoreDone, Zenon DEF RestoreBehind
  <2>7. process' \in {"booting", "serving"} => RestoreInv'
    BY <1>1, <1>4, <2>1, <2>5, <2>6 DEF RestoreInv, RestoreBehind, Done
  <2>8. SourceInv'
    BY <2>1 DEF SourceInv, Loading
  <2>9. DerivedFromLayers' /\ ~Settled'
    BY <2>4 DEF DerivedFromLayers, Settled
  <2>10. ServingInv'
    BY <1>1, <2>4, <2>5, <1>4, GisReloadAssumption DEF ServingInv, TypeOK, Versions
  <2>11. missed' \in SUBSET Pieces
    BY <1>1, <1>4, <2>1 DEF TypeOK
  <2>. QED BY <1>1, <1>2, <1>3, <2>4, <2>7, <2>8, <2>9, <2>10, <2>11
<1>5. CASE ~(cache # None /\ cache.stamp = file)
  <2>1. load' = [from |-> "source", todo |-> SourceSteps] /\ missed' = {}
    BY <1>5 DEF Begin
  <2>2. SourceSteps = SubSeq(SourceSteps, 1, Len(SourceSteps)) /\ SourceSteps # <<>>
    BY SourceTable, LayerFacts, SubSeqFull, EmptySeq
  <2>3. 1 \in 1 .. Len(SourceSteps) /\ 1 \in 1 .. K + 9
    BY SourceTable, LayerFacts
  <2>4. LoadType' /\ load'.todo # <<>>
    BY <2>1, <2>2, <2>3, SourceTable DEF LoadType
  <2>5. Behind(SourceSteps, 1)
    BY <2>2, <2>3, SourceDone, Zenon DEF Behind
  <2>6. \A other \in Layers : other \in ToSet(SourceSteps)
    <3>1. TAKE other \in Layers
    <3>2. PICK i \in 1 .. K : other = BoundaryLayers[i]
      BY LayerFacts
    <3>. QED BY <2>5, <3>2 DEF Behind
  <2>7. /\ "clear" \in ToSet(SourceSteps) /\ "geodetic" \in ToSet(SourceSteps)
        /\ "civic" \in ToSet(SourceSteps) /\ "ssapIndex" \in ToSet(SourceSteps)
        /\ "rclIndex" \in ToSet(SourceSteps) /\ "save" \in ToSet(SourceSteps)
    BY <2>5, LayerFacts DEF Behind
  <2>8. cache # None => cache.stamp < file
    BY <1>1, <1>5, GisReloadAssumption DEF ReloadInv, ServingInv, TypeOK, Versions
  <2>9. SourceInv'
    BY <1>1, <2>1, <2>6, <2>7, <2>8 DEF SourceInv, Done
  <2>10. RestoreInv'
    BY <2>1 DEF RestoreInv, Loading
  <2>11. DerivedFromLayers' /\ ~Settled'
    BY <2>4 DEF DerivedFromLayers, Settled
  <2>12. ServingInv'
    BY <1>1, <2>4, <2>8, GisReloadAssumption DEF ReloadInv, ServingInv, TypeOK, Versions
  <2>. QED BY <1>1, <1>2, <1>3, <2>1, <2>4, <2>9, <2>10, <2>11, <2>12
<1>. QED BY <1>4, <1>5

LEMMA BootInv ==
  ASSUME ReloadInv, Boot PROVE ReloadInv'
<1>1. TypeOK /\ process = "down" /\ load.todo = <<>>
  BY DEF ReloadInv, Boot, ServingInv
<1>2. /\ process' = "booting" /\ live' = NoData /\ reloading' = FALSE
      /\ Begin /\ UNCHANGED <<file, cache, request, budget>>
  BY DEF Boot
<1>3. live' \in Data
  BY <1>2, GisReloadAssumption DEF Data, NoData, Versions
<1>4. /\ LoadType' /\ load'.todo # <<>> /\ stamp' \in Versions /\ failed' = FALSE
      /\ missed' \in SUBSET Pieces
      /\ CacheWhole' /\ DerivedFromLayers' /\ ServingInv' /\ SourceInv' /\ RestoreInv'
  BY <1>1, <1>2, <1>3, BeginLoad
<1>5. TypeOK'
  BY <1>1, <1>2, <1>3, <1>4, TypeSplit DEF RestType
<1>6. RequestInv'
  <2>1. ~Settled
    BY <1>1 DEF Settled
  <2>. QED BY <1>2, <2>1 DEF ReloadInv, RequestInv
<1>. QED BY <1>4, <1>5, <1>6 DEF ReloadInv

LEMMA BeginReloadInv ==
  ASSUME ReloadInv, Reload PROVE ReloadInv'
<1>1. TypeOK /\ process = "serving" /\ load.todo = <<>> /\ stamp # file
  BY DEF ReloadInv, Reload
<1>2. /\ reloading' = TRUE /\ Begin /\ UNCHANGED <<file, cache, process, live>>
      /\ request' = [request EXCEPT !.overlapped = (request.at # "none")]
  BY DEF Reload
<1>3. live' \in Data
  BY <1>1, <1>2 DEF TypeOK
<1>4. /\ LoadType' /\ load'.todo # <<>> /\ stamp' \in Versions /\ failed' = FALSE
      /\ missed' \in SUBSET Pieces
      /\ CacheWhole' /\ DerivedFromLayers' /\ ServingInv' /\ SourceInv' /\ RestoreInv'
  BY <1>1, <1>2, <1>3, BeginLoad
<1>5. TypeOK'
  BY <1>1, <1>2, <1>3, <1>4, TypeSplit DEF RestType
<1>6. RequestInv'
  BY <1>1, <1>2 DEF RequestInv, TypeOK
<1>. QED BY <1>4, <1>5, <1>6 DEF ReloadInv

-----------------------------------------------------------------------------
\* What leaves the data and the load alone.
LEMMA SameData ==
  ASSUME ReloadInv, UNCHANGED <<cache, live, missed, load, stamp, process, failed, reloading>>
  PROVE  /\ LoadType' /\ CacheWhole' /\ DerivedFromLayers' /\ SourceInv' /\ RestoreInv'
         /\ Settled' <=> Settled
<1>1. LoadType'
  BY TypeSplit DEF ReloadInv, LoadType
<1>2. CacheWhole'
  BY DEF ReloadInv, CacheWhole, Whole, ReadOnce, ReadsOf
<1>3. DerivedFromLayers' /\ (Settled' <=> Settled)
  BY DEF ReloadInv, DerivedFromLayers, Settled, Whole, Indexed, ReadOnce, ReadsOf
<1>4. SourceInv'
  BY DEF ReloadInv, SourceInv, Loading, Done, ReadOnce, ReadsOf
<1>5. RestoreInv'
  BY DEF ReloadInv, RestoreInv, Loading, Done
<1>. QED BY <1>1, <1>2, <1>3, <1>4, <1>5

LEMMA RequestStepInv ==
  ASSUME ReloadInv, Request PROVE ReloadInv'
<1>1. TypeOK /\ DerivedFromLayers /\ ServingInv /\ RequestInv
  BY DEF ReloadInv
<1>2. Still
  BY DEF Request, Ask, Gate0, MatchBoundaries, Candidates, Answer
<1>3. /\ LoadType' /\ CacheWhole' /\ DerivedFromLayers' /\ SourceInv' /\ RestoreInv'
      /\ Settled' <=> Settled
  BY <1>2, SameData DEF Still
<1>4. ServingInv'
  BY <1>1, <1>2 DEF ServingInv, Still
<1>5. request' \in [at: {"none", "gate0", "match", "candidates", "rcl", "rclIndex", "civic"},
                   service: Services \cup {None}, overlapped: BOOLEAN,
                   boundaries: SUBSET (Layers \X Versions), ssap: Versions, rcl: Versions]
  <2>1. /\ live.boundaries \in SUBSET (Layers \X Versions) /\ live.ssap \in Versions
        /\ live.rcl \in Versions /\ live.ssapIndex \in Versions /\ live.rclIndex \in Versions
        /\ failed \in BOOLEAN /\ 0 \in Versions
    BY <1>1, GisReloadAssumption DEF TypeOK, Data, Versions
  <2>2. request \in [at: {"none", "gate0", "match", "candidates", "rcl", "rclIndex", "civic"},
                    service: Services \cup {None}, overlapped: BOOLEAN,
                    boundaries: SUBSET (Layers \X Versions), ssap: Versions, rcl: Versions]
    BY <1>1 DEF TypeOK
  <2>3. CASE Ask
    <3>1. PICK service \in Services :
            request' = [request EXCEPT !.at = "gate0", !.service = service,
                                       !.overlapped = failed]
      BY <2>3 DEF Ask
    <3>. QED BY <2>1, <2>2, <3>1
  <2>4. CASE Gate0 \/ Answer
    <3>1. NoRequest \in [at: {"none", "gate0", "match", "candidates", "rcl", "rclIndex",
                              "civic"},
                         service: Services \cup {None}, overlapped: BOOLEAN,
                         boundaries: SUBSET (Layers \X Versions),
                         ssap: Versions, rcl: Versions]
      BY <2>1 DEF NoRequest
    <3>2. request' = NoRequest \/ request' = [request EXCEPT !.at = "match"]
      BY <2>4 DEF Gate0, Answer
    <3>. QED BY <2>2, <3>1, <3>2
  <2>5. CASE MatchBoundaries
    <3>1. Active \in SUBSET (Layers \X Versions)
      BY <2>1 DEF Active
    <3>. QED BY <2>1, <2>2, <2>5, <3>1 DEF MatchBoundaries
  <2>6. CASE Candidates
    <3>1. request.at \in {"rcl", "rclIndex"} => live[request.at] \in Versions
      BY <2>1
    <3>2. CASE request' = [request EXCEPT !.ssap = live.ssapIndex, !.at = "rclIndex"]
      BY <2>1, <2>2, <3>2
    <3>3. CASE request' = [request EXCEPT !.ssap = live.ssap, !.at = "rcl"]
      BY <2>1, <2>2, <3>3
    <3>4. CASE /\ request.at \in {"rcl", "rclIndex"}
               /\ request' = [request EXCEPT !.rcl = live[request.at], !.at = "civic"]
      BY <2>1, <2>2, <3>1, <3>4
    <3>. QED BY <2>6, <3>2, <3>3, <3>4 DEF Candidates
  <2>. QED BY <2>3, <2>4, <2>5, <2>6 DEF Request
<1>6. TypeOK'
  BY <1>1, <1>2, <1>3, <1>5, TypeSplit DEF RestType, Still
<1>7. RequestInv'
  <2>1. CASE Ask
    <3>1. /\ process = "serving" /\ ~reloading
          /\ \E service \in Services :
               request' = [request EXCEPT !.at = "gate0", !.service = service,
                                          !.overlapped = failed]
      BY <2>1 DEF Ask
    <3>2. request'.at = "gate0" /\ request'.overlapped = failed
      BY <1>1, <3>1 DEF TypeOK
    <3>3. ~failed => Settled
      BY <1>1, <3>1 DEF ServingInv, Settled
    <3>. QED BY <1>3, <3>2, <3>3 DEF RequestInv
  <2>2. CASE Gate0
    BY <1>1, <1>2, <1>3, <2>2 DEF Gate0, RequestInv, TypeOK, NoRequest, Still
  <2>3. CASE MatchBoundaries
    <3>1. /\ request.at = "match" /\ request'.at = "candidates"
          /\ request'.overlapped = request.overlapped
          /\ request'.service = request.service /\ request'.boundaries = Active
      BY <1>1, <2>3 DEF MatchBoundaries, TypeOK
    <3>2. Active' = Active
      BY <1>2, <3>1 DEF Active, Still
    <3>. QED BY <1>1, <1>3, <3>1, <3>2 DEF RequestInv
  <2>4. CASE Candidates
    <3>1. Settled => live.ssapIndex = live.ssap /\ live.rclIndex = live.rcl
      BY <1>1 DEF DerivedFromLayers, Indexed
    <3>2. /\ UNCHANGED live
          /\ request.at \in {"candidates", "rcl", "rclIndex"}
          /\ request'.overlapped = request.overlapped
          /\ request'.service = request.service
          /\ request'.boundaries = request.boundaries
          /\ CASE request.at = "candidates" ->
                    \/ request'.at = "rclIndex" /\ request'.ssap = live.ssapIndex
                    \/ request'.at = "rcl" /\ request'.ssap = live.ssap
               [] OTHER -> /\ request'.at = "civic" /\ request'.ssap = request.ssap
                           /\ request'.rcl = live[request.at]
      BY ZenonT(30), <1>1, <1>2, <2>4 DEF Candidates, TypeOK, Still
    <3>3. Active' = Active
      BY <3>2 DEF Active
    <3>4. request.at # "none" /\ request.at \notin {"gate0", "match"}
      BY <3>2
    <3>5. request'.overlapped \/ Settled
      BY <1>1, <3>2, <3>4 DEF RequestInv
    <3>6. Settled => live.rcl = live[request.at] \/ request.at = "candidates"
      BY <3>1, <3>2
    <3>. QED BY <1>1, <1>3, <3>1, <3>2, <3>3, <3>4, <3>5, <3>6 DEF RequestInv
  <2>5. CASE Answer
    BY <2>5 DEF Answer, RequestInv, NoRequest
  <2>. QED BY <2>1, <2>2, <2>3, <2>4, <2>5 DEF Request
<1>. QED BY <1>3, <1>4, <1>6, <1>7 DEF ReloadInv

LEMMA ReplaceInv ==
  ASSUME ReloadInv, Replace PROVE ReloadInv'
<1>1. TypeOK /\ ServingInv /\ RequestInv
  BY DEF ReloadInv
<1>2. /\ file' = file + 1 /\ file' \in 1 .. MaxVersion
      /\ UNCHANGED <<cache, process, live, missed, load, stamp, reloading, failed,
                     element, request, budget>>
  BY <1>1, GisReloadAssumption DEF Replace, TypeOK
<1>3. /\ LoadType' /\ CacheWhole' /\ DerivedFromLayers' /\ SourceInv' /\ RestoreInv'
      /\ Settled' <=> Settled
  BY <1>2, SameData
<1>4. TypeOK'
  BY <1>1, <1>2, <1>3, TypeSplit DEF RestType
<1>5. ServingInv'
  <2>1. file \in Int /\ stamp \in Int /\ (cache # None => cache.stamp \in Int)
    BY <1>1, GisReloadAssumption DEF TypeOK, Versions
  <2>. QED BY <1>1, <1>2, <2>1 DEF ServingInv
<1>6. RequestInv'
  BY <1>1, <1>2, <1>3 DEF RequestInv, Active
<1>. QED BY <1>3, <1>4, <1>5, <1>6 DEF ReloadInv

LEMMA CrashInv ==
  ASSUME ReloadInv, Crash PROVE ReloadInv'
<1>1. TypeOK /\ ServingInv
  BY DEF ReloadInv
<1>2. /\ process' = "down" /\ load' = [load EXCEPT !.todo = <<>>] /\ request' = NoRequest
      /\ UNCHANGED <<file, cache, live, missed, stamp, reloading, failed, element>>
  BY DEF Crash
<1>3. load'.todo = <<>> /\ LoadType'
  BY <1>1, <1>2, StopLoad
<1>4. TypeOK'
  <2>1. 0 \in Versions
    BY GisReloadAssumption DEF Versions
  <2>. QED BY <1>1, <1>2, <1>3, <2>1, TypeSplit DEF RestType, NoRequest
<1>5. CacheWhole'
  BY <1>2 DEF ReloadInv, CacheWhole, Whole, ReadOnce, ReadsOf
<1>6. DerivedFromLayers'
  BY <1>2 DEF DerivedFromLayers, Settled
<1>7. SourceInv' /\ RestoreInv'
  BY <1>3 DEF SourceInv, RestoreInv, Loading
<1>8. ServingInv'
  BY <1>1, <1>2, <1>3 DEF ServingInv
<1>9. RequestInv'
  BY <1>2 DEF RequestInv, NoRequest
<1>. QED BY <1>4, <1>5, <1>6, <1>7, <1>8, <1>9 DEF ReloadInv

LEMMA InitInv == Init => ReloadInv
<1>. SUFFICES ASSUME Init PROVE ReloadInv
  OBVIOUS
<1>1. 0 \in Versions /\ MaxVersion \in Nat \ {0}
  BY GisReloadAssumption DEF Versions
<1>2. TypeOK
  <2>1. load \in [from: {"source", "cache"}, todo: Seq(StepNames)] /\ load.todo = <<>>
    BY EmptySeq DEF Init
  <2>2. LoadType
    BY <2>1 DEF LoadType
  <2>3. NoData \in Data /\ file \in 1 .. MaxVersion
    BY <1>1 DEF NoData, Data, Init
  <2>4. RestType
    BY <1>1, <2>3 DEF Init, RestType, NoRequest
  <2>. QED BY <2>2, <2>4, TypeSplit
<1>3. load.todo = <<>> /\ process = "down" /\ request.at = "none" /\ cache = None
      /\ stamp = 0 /\ file = 1
  BY DEF Init, NoRequest
<1>. QED
  BY <1>2, <1>3 DEF ReloadInv, CacheWhole, DerivedFromLayers, Settled, SourceInv, RestoreInv,
     Loading, ServingInv, RequestInv

LEMMA NextInv == ReloadInv /\ [Next]_vars => ReloadInv'
<1>. SUFFICES ASSUME ReloadInv, [Next]_vars PROVE ReloadInv'
  OBVIOUS
<1>1. CASE UNCHANGED vars
  <2>1. /\ LoadType' /\ CacheWhole' /\ DerivedFromLayers' /\ SourceInv' /\ RestoreInv'
        /\ Settled' <=> Settled
    BY <1>1, SameData DEF vars
  <2>2. TypeOK'
    BY <1>1, <2>1, TypeSplit DEF vars, RestType, ReloadInv
  <2>3. ServingInv' /\ RequestInv'
    BY <1>1, <2>1 DEF vars, ReloadInv, ServingInv, RequestInv, Active
  <2>. QED BY <2>1, <2>2, <2>3 DEF ReloadInv
<1>2. CASE Load
  <2>1. ASSUME NEW piece \in DOMAIN Derived, Derive(piece) PROVE ReloadInv'
    <3>1. load.from \in {"source", "cache"}
      BY DEF ReloadInv, TypeOK
    <3>. QED BY <2>1, <3>1, DeriveInv, RestoreIndexInv
  <2>. QED
    BY <1>2, <2>1, RecordsInv, ClearInv, BoundariesInv, RestorePieceInv, SaveInv, OverInv,
       RaiseInv DEF Load, CachedPieces
<1>. QED
  BY <1>1, <1>2, BootInv, BeginReloadInv, RequestStepInv, ReplaceInv, CrashInv DEF Next

-----------------------------------------------------------------------------
\* However loads from the source and from the cache, crashes, failures,
\* replacements of the GeoPackage and requests follow one another, a load half
\* way has done what the steps behind it say, and what is saved is whole.
THEOREM ReloadInvariant == Spec => []ReloadInv
<1>. QED BY InitInv, NextInv, PTL DEF Spec

\* Between loads the coverage and the index a worker answers from belong to the
\* records it holds, for any layers and any history of the cache.
THEOREM CoverageBelongsToRecords == Spec => []DerivedFromLayers
<1>1. ReloadInv => DerivedFromLayers
  BY DEF ReloadInv
<1>. QED BY <1>1, ReloadInvariant, PTL

\* A findService no reload overtakes reads everything from one load, and is told
\* "service not implemented" only when every boundary layer of that load was
\* read without an active boundary for its service, or could not be read.
THEOREM RequestsReadOneLoad == Spec => OneLoad
<1>1. ASSUME ReloadInv, [Next]_vars
      PROVE  /\ Answer /\ ~request.overlapped =>
                  /\ request.boundaries = Active
                  /\ request.ssap = live.ssap /\ request.rcl = live.rcl
                  /\ Whole(live, missed)
             /\ Gate0 /\ ~request.overlapped /\ request'.at = "none" =>
                  \A layer \in Layers : Lacks(layer, request.service)
  <2>1. ASSUME request.at # "none", ~request.overlapped PROVE Whole(live, missed)
    BY <1>1, <2>1 DEF ReloadInv, RequestInv, DerivedFromLayers
  <2>2. ASSUME Answer, ~request.overlapped
        PROVE  /\ request.boundaries = Active
               /\ request.ssap = live.ssap /\ request.rcl = live.rcl
               /\ Whole(live, missed)
    BY <1>1, <2>1, <2>2 DEF Answer, ReloadInv, RequestInv
  <2>3. ASSUME Gate0, ~request.overlapped, request'.at = "none", NEW layer \in Layers
        PROVE  Lacks(layer, request.service)
    <3>1. ReadOnce(live, missed, layer)
      BY <2>1, <2>3 DEF Gate0, Whole
    <3>2. Active = {}
      <4>1. request \in [at: {"none", "gate0", "match", "candidates", "rcl", "rclIndex", "civic"},
                         service: Services \cup {None}, overlapped: BOOLEAN,
                         boundaries: SUBSET (Layers \X Versions), ssap: Versions, rcl: Versions]
        BY <1>1 DEF ReloadInv, TypeOK
      <4>. QED BY <2>3, <4>1 DEF Gate0
    <3>3. ASSUME NEW v \in Versions, ReadsOf(live, layer) = {v}
          PROVE  request.service \notin Serves[<<layer, v>>]
      <4>1. <<layer, v>> \in live.boundaries
        BY <3>3 DEF ReadsOf
      <4>. QED BY <3>2, <4>1 DEF Active
    <3>. QED BY <3>1, <3>3 DEF ReadOnce, Lacks
  <2>. QED BY <2>2, <2>3
<1>. QED BY <1>1, ReloadInvariant, PTL DEF Spec, OneLoad
=============================================================================

------------------------ MODULE CoverageStoreProofs ------------------------
(***************************************************************************)
(* Theorems about CoverageStore, for any number of workers, any requests   *)
(* and provisioning files, and whichever faults are enabled: the lists it  *)
(* edits, the writers' invariant, and that it implements CoverageLedger.   *)
(***************************************************************************)
EXTENDS CoverageStore, SequenceTheorems, WellFoundedInduction, TLAPS

(***************************************************************************)
(* Facts about the edits of a coverage list.                               *)
(***************************************************************************)
\* A nonempty set of positions has a first one: Min returns a member.
LEMMA MinOfPositions ==
  ASSUME NEW I, I \subseteq Nat, I # {}
  PROVE  Min(I) \in I /\ \A y \in I : Min(I) <= y
<1>1. PICK m \in I : \A y \in I : <<y, m>> \notin OpToRel(<, Nat)
  BY NatLessThanWellFounded, WFMin
<1>2. \A y \in I : m <= y
  <2>1. TAKE y \in I
  <2>2. y \in Nat /\ m \in Nat
    OBVIOUS
  <2>3. ~(y < m)
    BY <1>1, <2>2 DEF OpToRel
  <2>. QED BY <2>2, <2>3
<1>. QED BY <1>2 DEF Min

\* A lookup answers 0 or a position of the list whose entry matches.
LEMMA KeyIndexRange ==
  ASSUME NEW l \in Lists, NEW e \in Entry
  PROVE  /\ KeyIndex(l, e) \in 0 .. Len(l)
         /\ KeyIndex(l, e) # 0 => SameKey(l[KeyIndex(l, e)], e)
<1>. DEFINE I == {i \in 1 .. Len(l) : SameKey(l[i], e)}
<1>1. KeyIndex(l, e) = IF I # {} THEN Min(I) ELSE 0
  BY DEF KeyIndex, SelectInSeq
<1>2. Len(l) \in Nat
  BY LenProperties DEF Lists
<1>3. CASE I = {}
  BY <1>1, <1>2, <1>3
<1>4. CASE I # {}
  <2>1. I \subseteq Nat /\ I \subseteq 1 .. Len(l)
    BY <1>2
  <2>2. Min(I) \in I
    <3> HIDE DEF I
    <3>. QED BY <1>4, <2>1, MinOfPositions
  <2>. QED BY <1>1, <1>2, <1>4, <2>1, <2>2
<1>. QED BY <1>3, <1>4

LEMMA SourceIdIndexRange ==
  ASSUME NEW l \in Lists, NEW e \in Entry
  PROVE  /\ SourceIdIndex(l, e) \in 0 .. Len(l)
         /\ SourceIdIndex(l, e) # 0
              => l[SourceIdIndex(l, e)].source_id = e.source_id
<1>. DEFINE I == {i \in 1 .. Len(l) : l[i].source_id = e.source_id}
<1>1. SourceIdIndex(l, e) = IF I # {} THEN Min(I) ELSE 0
  BY DEF SourceIdIndex, SelectInSeq
<1>2. Len(l) \in Nat
  BY LenProperties DEF Lists
<1>3. CASE I = {}
  BY <1>1, <1>2, <1>3
<1>4. CASE I # {}
  <2>1. I \subseteq Nat /\ I \subseteq 1 .. Len(l)
    BY <1>2
  <2>2. Min(I) \in I
    <3> HIDE DEF I
    <3>. QED BY <1>4, <2>1, MinOfPositions
  <2>. QED BY <1>1, <1>2, <1>4, <2>1, <2>2
<1>. QED BY <1>3, <1>4

\* A lookup that answers 0 has seen no match.
LEMMA KeyIndexNone ==
  ASSUME NEW l \in Lists, NEW e \in Entry, KeyIndex(l, e) = 0
  PROVE  \A i \in 1 .. Len(l) : ~SameKey(l[i], e)
<1>. DEFINE I == {i \in 1 .. Len(l) : SameKey(l[i], e)}
<1>1. KeyIndex(l, e) = IF I # {} THEN Min(I) ELSE 0
  BY DEF KeyIndex, SelectInSeq
<1>2. I \subseteq Nat /\ 0 \notin I
  BY LenProperties DEF Lists
<1>3. I = {}
  <2>1. CASE I # {}
    <3> HIDE DEF I
    <3>. QED BY <1>1, <1>2, <2>1, MinOfPositions
  <2>. QED BY <2>1
<1>. QED BY <1>3

LEMMA SourceIdIndexNone ==
  ASSUME NEW l \in Lists, NEW e \in Entry, SourceIdIndex(l, e) = 0
  PROVE  \A i \in 1 .. Len(l) : l[i].source_id # e.source_id
<1>. DEFINE I == {i \in 1 .. Len(l) : l[i].source_id = e.source_id}
<1>1. SourceIdIndex(l, e) = IF I # {} THEN Min(I) ELSE 0
  BY DEF SourceIdIndex, SelectInSeq
<1>2. I \subseteq Nat /\ 0 \notin I
  BY LenProperties DEF Lists
<1>3. I = {}
  <2>1. CASE I # {}
    <3> HIDE DEF I
    <3>. QED BY <1>1, <1>2, <2>1, MinOfPositions
  <2>. QED BY <2>1
<1>. QED BY <1>3

LEMMA ReplaceAtType ==
  ASSUME NEW l \in Lists, NEW i \in 1 .. Len(l), NEW e \in Entry
  PROVE  ReplaceAt(l, i, e) \in Lists
BY ExceptSeq DEF Lists, ReplaceAt

LEMMA RemoveAtType ==
  ASSUME NEW l \in Lists, NEW i \in 1 .. Len(l)
  PROVE  RemoveAt(l, i) \in Lists
<1>1. /\ Len(l) \in Nat
      /\ \A k \in 1 .. Len(l) : l[k] \in Entry
  BY LenProperties, ElementOfSeq DEF Lists
<1>2. SubSeq(l, 1, i-1) \in Lists
  <2>1. \A k \in 1 .. i-1 : l[k] \in Entry
    BY <1>1
  <2>2. i - 1 \in Int /\ 1 \in Int
    BY <1>1
  <2>. QED BY <2>1, <2>2, SubSeqProperties DEF Lists
<1>3. SubSeq(l, i+1, Len(l)) \in Lists
  <2>1. \A k \in i+1 .. Len(l) : l[k] \in Entry
    BY <1>1
  <2>2. i + 1 \in Int /\ Len(l) \in Int
    BY <1>1
  <2>. QED BY <2>1, <2>2, SubSeqProperties DEF Lists
<1>. QED BY <1>2, <1>3, ConcatProperties DEF Lists, RemoveAt

\* What the three primitive edits leave at each position.
LEMMA AppendElements ==
  ASSUME NEW l \in Lists, NEW e \in Entry
  PROVE  /\ Len(l) \in Nat /\ DOMAIN l = 1 .. Len(l)
         /\ DOMAIN Append(l, e) = 1 .. Len(l) + 1
         /\ \A k \in 1 .. Len(l) : Append(l, e)[k] = l[k]
         /\ Append(l, e)[Len(l) + 1] = e
<1>1. Append(l, e) \in Lists /\ Len(Append(l, e)) = Len(l) + 1
  BY AppendProperties DEF Lists
<1>. QED BY <1>1, AppendProperties, LenProperties DEF Lists

LEMMA ReplaceAtElements ==
  ASSUME NEW l \in Lists, NEW i \in 1 .. Len(l), NEW e \in Entry
  PROVE  /\ DOMAIN ReplaceAt(l, i, e) = 1 .. Len(l)
         /\ \A k \in 1 .. Len(l) : ReplaceAt(l, i, e)[k] = IF k = i THEN e ELSE l[k]
<1>1. DOMAIN l = 1 .. Len(l)
  BY LenProperties DEF Lists
<1>. QED BY <1>1 DEF ReplaceAt

LEMMA RemoveAtElements ==
  ASSUME NEW l \in Lists, NEW i \in 1 .. Len(l)
  PROVE  /\ Len(l) \in Nat
         /\ DOMAIN RemoveAt(l, i) = 1 .. Len(l) - 1
         /\ \A k \in 1 .. Len(l) - 1 :
              RemoveAt(l, i)[k] = IF k < i THEN l[k] ELSE l[k + 1]
<1>. DEFINE a == SubSeq(l, 1, i-1)
            b == SubSeq(l, i+1, Len(l))
<1>1. Len(l) \in Nat
  BY LenProperties DEF Lists
<1>2. \A k \in 1 .. Len(l) : l[k] \in Entry
  BY ElementOfSeq DEF Lists
<1>3. a \in Lists /\ Len(a) = i - 1 /\ \A k \in 1 .. i - 1 : a[k] = l[k]
  <2>1. \A k \in 1 .. i-1 : l[k] \in Entry
    BY <1>1, <1>2
  <2>2. i - 1 \in Int /\ 1 \in Int
    BY <1>1
  <2>3. /\ a \in Lists /\ Len(a) = IF 1 <= i - 1 THEN (i - 1) - 1 + 1 ELSE 0
        /\ \A k \in 1 .. (i - 1) - 1 + 1 : a[k] = l[1 + k - 1]
    BY <2>1, <2>2, SubSeqProperties DEF Lists
  <2>. QED BY <1>1, <2>3
<1>4. b \in Lists /\ Len(b) = Len(l) - i /\ \A k \in 1 .. Len(l) - i : b[k] = l[i + k]
  <2>1. \A k \in i+1 .. Len(l) : l[k] \in Entry
    BY <1>1, <1>2
  <2>2. i + 1 \in Int /\ Len(l) \in Int
    BY <1>1
  <2>3. /\ b \in Lists /\ Len(b) = IF i + 1 <= Len(l) THEN Len(l) - (i + 1) + 1 ELSE 0
        /\ \A k \in 1 .. Len(l) - (i + 1) + 1 : b[k] = l[(i + 1) + k - 1]
    BY <2>1, <2>2, SubSeqProperties DEF Lists
  <2>. QED BY <1>1, <2>3
<1>. HIDE DEF a, b
<1>5. /\ a \o b \in Lists /\ Len(a \o b) = Len(a) + Len(b)
      /\ \A k \in 1 .. Len(a) + Len(b) :
           (a \o b)[k] = IF k <= Len(a) THEN a[k] ELSE b[k - Len(a)]
  BY <1>3, <1>4, ConcatProperties DEF Lists
<1>6. Len(a) + Len(b) = Len(l) - 1
  BY <1>1, <1>3, <1>4
<1>7. ASSUME NEW k \in 1 .. Len(l) - 1
      PROVE  (a \o b)[k] = IF k < i THEN l[k] ELSE l[k + 1]
  <2>1. CASE k < i
    <3>1. k \in 1 .. i - 1 /\ k <= Len(a) /\ k \in 1 .. Len(a) + Len(b)
      BY <1>1, <1>3, <1>6, <2>1
    <3>2. (a \o b)[k] = a[k]
      BY <1>5, <3>1
    <3>. QED BY <1>3, <2>1, <3>1, <3>2
  <2>2. CASE ~(k < i)
    <3>1. PICK j \in 1 .. Len(l) - i : j = k - (i - 1) /\ i + j = k + 1
      BY <1>1, <2>2
    <3>2. ~(k <= Len(a)) /\ k - Len(a) = j /\ k \in 1 .. Len(a) + Len(b)
      BY <1>1, <1>3, <1>6, <2>2, <3>1
    <3>3. (a \o b)[k] = b[j]
      BY <1>5, <3>2
    <3>. QED BY <1>4, <2>2, <3>1, <3>3
  <2>. QED BY <2>1, <2>2
<1>8. RemoveAt(l, i) = a \o b
  BY DEF RemoveAt, a, b
<1>9. DOMAIN (a \o b) = 1 .. Len(l) - 1
  BY <1>5, <1>6, LenProperties DEF Lists
<1>. QED BY <1>1, <1>7, <1>8, <1>9

\* Upserts and deletes keep the keys of a list apart.
LEMMA SyncKeepsKeys ==
  ASSUME NEW l \in Lists, UniqueKeys(l), NEW op \in SyncOperation
  PROVE  UniqueKeys(ApplyOp(l, op))
<1>. DEFINE e == op.entry
            i == KeyIndex(l, e)
<1>1. e \in Entry /\ op.kind \in {"upsert", "delete"}
  BY DEF SyncOperation
<1>2. Len(l) \in Nat /\ DOMAIN l = 1 .. Len(l)
  BY LenProperties DEF Lists
<1>3. i \in 0 .. Len(l) /\ (i # 0 => SameKey(l[i], e))
  BY <1>1, KeyIndexRange
<1>4. CASE op.kind = "upsert" /\ i = 0
  <2>1. ApplyOp(l, op) = Append(l, e)
    BY <1>4 DEF ApplyOp, Upsert
  <2>2. \A k \in 1 .. Len(l) : ~SameKey(l[k], e)
    BY <1>1, <1>4, KeyIndexNone
  <2>. HIDE DEF e
  <2>3. \A j, k \in 1 .. Len(l) + 1 :
          SameKey(Append(l, e)[j], Append(l, e)[k]) => j = k
    <3>1. TAKE j, k \in 1 .. Len(l) + 1
    <3>2. (j \in 1 .. Len(l) \/ j = Len(l) + 1) /\ (k \in 1 .. Len(l) \/ k = Len(l) + 1)
      BY <1>2
    <3>. QED BY <1>1, <1>2, <2>2, <3>2, AppendElements DEF UniqueKeys, SameKey
  <2>. QED BY <1>1, <2>1, <2>3, AppendElements DEF UniqueKeys
<1>5. CASE op.kind = "upsert" /\ i # 0
  <2>1. ApplyOp(l, op) \in {l, ReplaceAt(l, i, e)}
    BY <1>5 DEF ApplyOp, Upsert
  <2>2. i \in 1 .. Len(l)
    BY <1>2, <1>3, <1>5
  <2>. HIDE DEF e, i
  <2>3. UniqueKeys(ReplaceAt(l, i, e))
    BY <1>1, <1>2, <1>3, <2>2, ReplaceAtElements DEF UniqueKeys, SameKey
  <2>. QED BY <2>1, <2>3
<1>6. CASE op.kind = "delete"
  <2>1. ApplyOp(l, op) = IF i = 0 THEN l ELSE RemoveAt(l, i)
    BY <1>6 DEF ApplyOp, Delete
  <2>2. CASE i # 0
    <3>1. i \in 1 .. Len(l)
      BY <1>2, <1>3, <2>2
    <3>. HIDE DEF i
    <3>2. \A j, k \in 1 .. Len(l) - 1 :
            SameKey(RemoveAt(l, i)[j], RemoveAt(l, i)[k]) => j = k
      <4>1. TAKE j, k \in 1 .. Len(l) - 1
      <4>2. \E p, q \in 1 .. Len(l) : /\ RemoveAt(l, i)[j] = l[p] /\ RemoveAt(l, i)[k] = l[q]
                                     /\ (p = q => j = k)
        <5>1. j \in 1 .. Len(l) /\ j + 1 \in 1 .. Len(l) /\ k \in 1 .. Len(l) /\ k + 1 \in 1 .. Len(l)
          BY <1>2
        <5>2. /\ RemoveAt(l, i)[j] = IF j < i THEN l[j] ELSE l[j + 1]
              /\ RemoveAt(l, i)[k] = IF k < i THEN l[k] ELSE l[k + 1]
          BY <3>1, RemoveAtElements
        <5>. DEFINE p == IF j < i THEN j ELSE j + 1
                    q == IF k < i THEN k ELSE k + 1
        <5>3. p \in 1 .. Len(l) /\ q \in 1 .. Len(l)
          BY <5>1
        <5>4. RemoveAt(l, i)[j] = l[p] /\ RemoveAt(l, i)[k] = l[q]
          BY <5>2
        <5>5. p = q => j = k
          BY <1>2, <3>1
        <5>. QED BY <5>3, <5>4, <5>5
      <4>3. SameKey(RemoveAt(l, i)[j], RemoveAt(l, i)[k]) => j = k
        <5>1. PICK p, q \in 1 .. Len(l) : /\ RemoveAt(l, i)[j] = l[p]
                                          /\ RemoveAt(l, i)[k] = l[q]
                                          /\ (p = q => j = k)
          BY <4>2
        <5>2. SameKey(l[p], l[q]) => p = q
          BY <1>2 DEF UniqueKeys
        <5>. QED BY <5>1, <5>2
      <4>. QED BY <4>3
    <3>. QED BY <2>1, <2>2, <3>1, <3>2, RemoveAtElements DEF UniqueKeys
  <2>. QED BY <2>1, <2>2
<1>. QED BY <1>1, <1>4, <1>5, <1>6

\* Every edit of a list of entries gives a list of entries.
LEMMA ApplyOpType ==
  ASSUME NEW l \in Lists, NEW op \in Operation
  PROVE  ApplyOp(l, op) \in Lists
<1>. DEFINE e == op.entry
<1>1. e \in Entry /\ op.kind \in {"upsert", "delete", "assert"}
  BY DEF Operation
<1>2. Append(l, e) \in Lists
  BY <1>1, AppendProperties DEF Lists
<1>3. Len(l) \in Nat
  BY LenProperties DEF Lists
<1>4. CASE op.kind = "upsert"
  <2>1. KeyIndex(l, e) \in 0 .. Len(l)
    BY <1>1, KeyIndexRange
  <2>2. KeyIndex(l, e) # 0 => ReplaceAt(l, KeyIndex(l, e), e) \in Lists
    BY <1>1, <1>3, <2>1, ReplaceAtType
  <2>3. Upsert(l, e) \in Lists
    BY <1>2, <2>2 DEF Upsert
  <2>. QED BY <1>4, <2>3 DEF ApplyOp
<1>5. CASE op.kind = "delete"
  <2>1. KeyIndex(l, e) \in 0 .. Len(l)
    BY <1>1, KeyIndexRange
  <2>2. KeyIndex(l, e) # 0 => RemoveAt(l, KeyIndex(l, e)) \in Lists
    BY <1>3, <2>1, RemoveAtType
  <2>3. Delete(l, e) \in Lists
    BY <2>2 DEF Delete
  <2>. QED BY <1>5, <2>3 DEF ApplyOp
<1>6. CASE op.kind = "assert"
  <2>1. SourceIdIndex(l, e) \in 0 .. Len(l)
    BY <1>1, SourceIdIndexRange
  <2>2. SourceIdIndex(l, e) # 0
          => ReplaceAt(l, SourceIdIndex(l, e), e) \in Lists
    BY <1>1, <1>3, <2>1, ReplaceAtType
  <2>3. Supersede(l, e) \in Lists
    BY <1>2, <2>2 DEF Supersede
  <2>. QED BY <1>6, <2>3 DEF ApplyOp
<1>. QED BY <1>1, <1>4, <1>5, <1>6

\* A provisioning file's entries make a program of edits.
LEMMA AssertsType ==
  ASSUME NEW l \in Lists
  PROVE  Asserts(l) \in Programs
<1>1. Len(l) \in Nat /\ DOMAIN l = 1 .. Len(l)
  BY LenProperties DEF Lists
<1>2. \A i \in 1 .. Len(l) : l[i] \in Entry
  BY ElementOfSeq DEF Lists
<1>3. \A i \in 1 .. Len(l) : [kind |-> "assert", entry |-> l[i]] \in Operation
  BY <1>2 DEF Operation
<1>4. [i \in 1 .. Len(l) |-> [kind |-> "assert", entry |-> l[i]]] \in Programs
  BY <1>1, <1>3, SeqDef DEF Programs
<1>. QED BY <1>1, <1>4 DEF Asserts

(***************************************************************************)
(* The writers' invariant.                                                 *)
(***************************************************************************)
\* The three threads of every worker are threads, and are told apart.
LEMMA ThreadFacts ==
  /\ \A w \in Workers : {Loop(w), Watch(w), Gis(w)} \subseteq Threads
  /\ \A v, w \in Workers :
       /\ Loop(v) = Loop(w) <=> v = w
       /\ Watch(v) = Watch(w) <=> v = w
       /\ Gis(v) = Gis(w) <=> v = w
       /\ Loop(v) # Watch(w) /\ Loop(v) # Gis(w) /\ Watch(v) # Gis(w)
BY DEF Threads, Loop, Watch, Gis

LEMMA EmptyTypes == <<>> \in Lists /\ <<>> \in Programs
BY EmptySeq DEF Lists, Programs

LEMMA RequestTypes == Requests \subseteq Programs
<1>1. SyncOperation \subseteq Operation
  BY DEF SyncOperation, Operation
<1>. QED BY <1>1, CoverageAssumption, SeqMonotonic DEF Programs

LEMMA AppliedTypes ==
  ASSUME NEW l \in Lists, NEW p \in Programs, p # <<>>
  PROVE  ApplyOp(l, Head(p)) \in Lists /\ Tail(p) \in Programs
<1>1. Head(p) \in Operation /\ Tail(p) \in Programs
  BY HeadTailProperties DEF Programs
<1>. QED BY <1>1, ApplyOpType

-----------------------------------------------------------------------------
LEMMA InitType == Init => TypeOK
BY EmptyTypes DEF Init, TypeOK, Places, Threads

LEMMA ReadType ==
  ASSUME TypeOK, NEW content \in ReadOutcomes PROVE content \in Lists
BY EmptyTypes DEF TypeOK, ReadOutcomes

\* Setting a thread's program counter, or its list and program, keeps types.
LEMMA GotoType ==
  ASSUME TypeOK, NEW t \in Threads, NEW place \in Places, Goto(t, place)
  PROVE  pc' \in [Threads -> Places]
BY DEF TypeOK, Goto

LEMMA WorkType ==
  ASSUME TypeOK, NEW t \in Threads, NEW l \in Lists, NEW p \in Programs,
         Work(t, l, p)
  PROVE  list' \in [Threads -> Lists] /\ todo' \in [Threads -> Programs]
BY DEF TypeOK, Work

LEMMA NextType == TypeOK /\ TmpInv /\ [Next]_vars => TypeOK'
<1>. SUFFICES ASSUME TypeOK, TmpInv, [Next]_vars PROVE TypeOK'
  OBVIOUS
<1>. USE CoverageAssumption
<1>1. CASE UNCHANGED vars
  BY <1>1 DEF TypeOK, vars
<1>2. ASSUME NEW t \in Threads, Edit(t) PROVE TypeOK'
  <2>1. list[t] \in Lists /\ todo[t] \in Programs /\ todo[t] # <<>>
    BY <1>2 DEF Edit, TypeOK
  <2>2. list' \in [Threads -> Lists] /\ todo' \in [Threads -> Programs]
    BY <1>2, <2>1, AppliedTypes, WorkType DEF Edit
  <2>. QED BY <1>2, <2>2 DEF Edit, TypeOK, file, counters
<1>3. ASSUME NEW w \in Workers PROVE Loop(w) \in Threads /\ Watch(w) \in Threads /\ Gis(w) \in Threads
  BY <1>3, ThreadFacts
<1>4. ASSUME NEW w \in Workers, Boot(w) PROVE TypeOK'
  <2>1. PICK content \in ReadOutcomes, ams \in IF RootAMS THEN AmsFiles ELSE {<<>>} :
          /\ mem' = [mem EXCEPT ![w] = content]
          /\ prov' = [prov EXCEPT ![w] = ams]
          /\ Work(Loop(w), content, Asserts(ams))
    BY <1>4 DEF Boot
  <2>2. content \in Lists /\ ams \in Lists
    BY <2>1, ReadType, EmptyTypes
  <2>3. list' \in [Threads -> Lists] /\ todo' \in [Threads -> Programs]
    BY <1>3, <2>1, <2>2, AssertsType, WorkType
  <2>4. pc' \in [Threads -> Places]
    BY <1>4 DEF Boot, TypeOK, Places
  <2>5. mem' \in [Workers -> Lists] /\ prov' \in [Workers -> Lists]
    BY <2>1, <2>2 DEF TypeOK
  <2>6. boots' \in Nat /\ UNCHANGED <<disk, mtime, tmp, lock, baseline, writes, reloads>>
    BY <1>4 DEF Boot, TypeOK, file
  <2>. QED BY <2>3, <2>4, <2>5, <2>6 DEF TypeOK
<1>5. ASSUME NEW w \in Workers, FinishBoot(w) PROVE TypeOK'
  <2>1. list[Loop(w)] \in Lists
    BY <1>3 DEF TypeOK
  <2>2. list' \in [Threads -> Lists] /\ todo' \in [Threads -> Programs]
    BY <1>3, <1>5, EmptyTypes, WorkType DEF FinishBoot
  <2>3. pc' \in [Threads -> Places]
    BY <1>5 DEF FinishBoot, TypeOK, Places
  <2>. QED BY <1>5, <2>1, <2>2, <2>3 DEF FinishBoot, TypeOK, file, counters
<1>6. ASSUME NEW w \in Workers, Crash(w) PROVE TypeOK'
  BY <1>6, EmptyTypes DEF Crash, TypeOK, Places, file, counters
<1>7. ASSUME NEW w \in Workers, Request(w) PROVE TypeOK'
  <2>1. PICK program \in Programs : Work(Loop(w), <<>>, program)
    BY <1>7, RequestTypes DEF Request
  <2>2. list' \in [Threads -> Lists] /\ todo' \in [Threads -> Programs]
    BY <1>3, <2>1, EmptyTypes, WorkType
  <2>3. pc' \in [Threads -> Places]
    BY <1>3, <1>7, GotoType DEF Request, Places
  <2>. QED BY <1>7, <2>2, <2>3 DEF Request, TypeOK, file
<1>8. ASSUME NEW w \in Workers, LockFile(w) PROVE TypeOK'
  BY <1>3, <1>8, GotoType DEF LockFile, TypeOK, file, counters, Places
<1>9. ASSUME NEW w \in Workers, ReadFile(w) PROVE TypeOK'
  BY <1>3, <1>9, GotoType, ReadType DEF ReadFile, TypeOK, file, counters, Places
<1>10. ASSUME NEW w \in Workers, Abort(w) PROVE TypeOK'
  BY <1>3, <1>10, GotoType DEF Abort, TypeOK, file, counters, Places
<1>11. ASSUME NEW w \in Workers, Reassert(w) PROVE TypeOK'
  <2>1. Asserts(prov[w]) \in Programs
    BY AssertsType DEF TypeOK
  <2>. QED BY <1>3, <1>11, <2>1, GotoType DEF Reassert, TypeOK, file, counters, Places
<1>12. ASSUME NEW w \in Workers, WriteTmp(w) PROVE TypeOK'
  BY <1>3, <1>12, GotoType DEF WriteTmp, TypeOK, counters, Places
<1>13. ASSUME NEW w \in Workers, SaveFails(w) PROVE TypeOK'
  BY <1>3, <1>13, GotoType DEF SaveFails, TypeOK, counters, Places
<1>14. ASSUME NEW w \in Workers, Publish(w) PROVE TypeOK'
  BY <1>3, <1>14, GotoType DEF Publish, TypeOK, file, counters, Places
<1>15. ASSUME NEW w \in Workers, Unlock(w) PROVE TypeOK'
  <2>1. list' \in [Threads -> Lists] /\ todo' \in [Threads -> Programs]
    BY <1>3, <1>15, EmptyTypes, WorkType DEF Unlock
  <2>. QED BY <1>3, <1>15, <2>1, GotoType DEF Unlock, TypeOK, file, counters, Places
<1>16. ASSUME NEW w \in Workers, WatchBegin(w) \/ WatchPoll(w) PROVE TypeOK'
  BY <1>3, <1>16, GotoType DEF WatchBegin, WatchPoll, TypeOK, file, counters, Places
<1>17. ASSUME NEW w \in Workers, WatchRead(w) PROVE TypeOK'
  <2>1. PICK content \in ReadOutcomes :
          Work(Watch(w), content, IF RootAMS THEN Asserts(prov[w]) ELSE <<>>)
    BY <1>17 DEF WatchRead
  <2>2. content \in Lists /\ Asserts(prov[w]) \in Programs
    BY <2>1, ReadType, AssertsType DEF TypeOK
  <2>3. list' \in [Threads -> Lists] /\ todo' \in [Threads -> Programs]
    <3>1. CASE RootAMS
      BY <1>3, <2>1, <2>2, <3>1, WorkType
    <3>2. CASE ~RootAMS
      BY <1>3, <2>1, <2>2, <3>2, EmptyTypes, WorkType
    <3>. QED BY <3>1, <3>2
  <2>. QED BY <1>3, <1>17, <2>3, GotoType DEF WatchRead, TypeOK, file, counters, Places
<1>18. ASSUME NEW w \in Workers, GisReload(w) PROVE TypeOK'
  <2>1. PICK ams \in AmsFiles \ {<<>>} :
          /\ prov' = [prov EXCEPT ![w] = ams]
          /\ Work(Gis(w), mem[w], Asserts(ams))
    BY <1>18 DEF GisReload
  <2>2. ams \in Lists /\ mem[w] \in Lists /\ Asserts(ams) \in Programs
    BY <2>1, AssertsType DEF TypeOK
  <2>3. list' \in [Threads -> Lists] /\ todo' \in [Threads -> Programs]
    BY <1>3, <2>1, <2>2, WorkType
  <2>. QED BY <1>3, <1>18, <2>1, <2>2, <2>3, GotoType DEF GisReload, TypeOK, file, Places
<1>19. ASSUME NEW w \in Workers, NEW t \in Threads, PublishMerged(w, t) PROVE TypeOK'
  <2>1. list' \in [Threads -> Lists] /\ todo' \in [Threads -> Programs]
    BY <1>19, EmptyTypes, WorkType DEF PublishMerged
  <2>2. list[t] \in Lists
    BY DEF TypeOK
  <2>. QED BY <1>19, <2>1, <2>2, GotoType DEF PublishMerged, TypeOK, file, counters, Places
<1>20. ASSUME NEW w \in Workers, Replace(w) PROVE TypeOK'
  <2>1. tmp \in Lists
    BY <1>3, <1>20 DEF Replace, TmpInv, TypeOK
  <2>2. mtime' \in Nat
    BY <1>20 DEF Replace, TypeOK
  <2>. QED BY <1>3, <1>20, <2>1, <2>2, GotoType DEF Replace, TypeOK, counters, Places
<1>. QED
  BY <1>1, <1>2, <1>3, <1>4, <1>5, <1>6, <1>7, <1>8, <1>9, <1>10, <1>11, <1>12,
     <1>13, <1>14, <1>15, <1>16, <1>17, <1>18, <1>19, <1>20
  DEF Next, Write, WatchStep, GisStep

-----------------------------------------------------------------------------
\* The steps of a worker's loop thread, by what they do to the lock: every
\* other step leaves the lock, the temporary file and every loop's place and
\* private list alone.
LoopStep(w) ==
  \/ Boot(w) \/ FinishBoot(w) \/ Crash(w) \/ Request(w) \/ LockFile(w) \/ Write(w)

LEMMA NextSplit ==
  ASSUME Next
  PROVE  \E w \in Workers : \/ LoopStep(w)
                            \/ WatchStep(w) \/ GisReload(w) \/ GisStep(w)
BY DEF Next, LoopStep

\* Steps of the watcher and GIS threads do not touch the writers' state.
LEMMA OtherThreads ==
  ASSUME TypeOK, NEW w \in Workers,
         WatchStep(w) \/ GisReload(w) \/ GisStep(w)
  PROVE  /\ UNCHANGED <<disk, tmp, lock>>
         /\ \A v \in Workers : /\ pc'[Loop(v)] = pc[Loop(v)]
                              /\ list'[Loop(v)] = list[Loop(v)]
                              /\ todo'[Loop(v)] = todo[Loop(v)]
         /\ \A v \in Workers : prov'[v] = prov[v] \/ prov'[v] \in AmsFiles
<1>. USE ThreadFacts DEF TypeOK, Goto, Work, file
<1>1. CASE WatchBegin(w) \/ WatchPoll(w)
  BY <1>1 DEF WatchBegin, WatchPoll
<1>2. CASE WatchRead(w)
  BY <1>2 DEF WatchRead
<1>3. CASE Edit(Watch(w)) \/ Edit(Gis(w))
  BY <1>3 DEF Edit
<1>4. CASE PublishMerged(w, Watch(w)) \/ PublishMerged(w, Gis(w))
  BY <1>4 DEF PublishMerged
<1>5. CASE GisReload(w)
  BY <1>5 DEF GisReload
<1>. QED BY <1>1, <1>2, <1>3, <1>4, <1>5 DEF WatchStep, GisStep

\* A step of one worker's loop leaves the other workers' loops as they are.
LEMMA OtherLoops ==
  ASSUME TypeOK, NEW w \in Workers, LoopStep(w)
  PROVE  \A v \in Workers \ {w} :
           /\ pc'[Loop(v)] = pc[Loop(v)]
           /\ list'[Loop(v)] = list[Loop(v)]
           /\ todo'[Loop(v)] = todo[Loop(v)]
           /\ prov'[v] = prov[v]
<1>. USE ThreadFacts DEF TypeOK, Goto, Work
<1>1. CASE Boot(w)
  BY <1>1 DEF Boot
<1>2. CASE FinishBoot(w)
  BY <1>2 DEF FinishBoot
<1>3. CASE Crash(w)
  <2>1. \A v \in Workers \ {w} : Loop(v) \in Threads /\ Loop(v)[1] # w
    BY DEF Loop, Threads
  <2>. QED BY <1>3, <2>1 DEF Crash
<1>4. CASE Request(w) \/ LockFile(w) \/ ReadFile(w) \/ Edit(Loop(w)) \/ Abort(w)
  BY <1>4 DEF Request, LockFile, ReadFile, Edit, Abort
<1>5. CASE Reassert(w) \/ WriteTmp(w) \/ Replace(w) \/ SaveFails(w) \/ Publish(w) \/ Unlock(w)
  BY <1>5 DEF Reassert, WriteTmp, Replace, SaveFails, Publish, Unlock
<1>. QED BY <1>1, <1>2, <1>3, <1>4, <1>5 DEF LoopStep, Write

-----------------------------------------------------------------------------
\* What each step of worker w's loop does to the writers' invariant, seen from
\* w itself and from the other workers.
LoopEffect(w) ==
  /\ pc'[Loop(w)] \in Locked <=> lock' = w
  /\ \A v \in Workers \ {w} : lock' = v <=> lock = v
  /\ tmp' # tmp => pc[Loop(w)] \in Locked
  /\ pc'[Loop(w)] = "replace" => tmp' = list'[Loop(w)] /\ todo'[Loop(w)] = <<>>
  /\ pc'[Loop(w)] \in {"wait", "read"} => todo'[Loop(w)] \in Requests
  /\ RootAMS /\ pc'[Loop(w)] # "down" => prov'[w] \in AmsFiles

LEMMA LoopEffects ==
  ASSUME WriterInv, NEW w \in Workers, LoopStep(w)
  PROVE  LoopEffect(w)
<1>. USE CoverageAssumption
         DEF WriterInv, TypeOK, LockInv, TmpInv, ProgramInv, LoopEffect, Goto, Work,
             Locked, file, counters
<1>1. Loop(w) \in Threads
  BY ThreadFacts
<1>2. Gis(w) # Loop(w) /\ Watch(w) # Loop(w)
  BY ThreadFacts
<1>3. CASE Boot(w)
  BY <1>1, <1>2, <1>3 DEF Boot
<1>4. CASE FinishBoot(w)
  BY <1>1, <1>2, <1>4 DEF FinishBoot
<1>5. CASE Crash(w)
  <2>1. pc'[Loop(w)] = "down"
    BY <1>1, <1>5 DEF Crash, Loop
  <2>. QED BY <1>5, <2>1 DEF Crash
<1>6. CASE Request(w)
  BY <1>1, <1>6 DEF Request
<1>7. CASE LockFile(w)
  BY <1>1, <1>7 DEF LockFile
<1>8. CASE ReadFile(w)
  BY <1>1, <1>8 DEF ReadFile
<1>9. CASE Edit(Loop(w))
  BY <1>1, <1>9 DEF Edit
<1>10. CASE Abort(w)
  BY <1>1, <1>10 DEF Abort
<1>11. CASE Reassert(w)
  BY <1>1, <1>11 DEF Reassert
<1>12. CASE WriteTmp(w)
  BY <1>1, <1>12 DEF WriteTmp
<1>13. CASE Replace(w)
  BY <1>1, <1>13 DEF Replace
<1>14. CASE SaveFails(w)
  BY <1>1, <1>14 DEF SaveFails
<1>15. CASE Publish(w)
  BY <1>1, <1>15 DEF Publish
<1>16. CASE Unlock(w)
  BY <1>1, <1>16 DEF Unlock
<1>. QED
  BY <1>3, <1>4, <1>5, <1>6, <1>7, <1>8, <1>9, <1>10, <1>11, <1>12, <1>13, <1>14,
     <1>15, <1>16 DEF LoopStep, Write

LEMMA LoopInv ==
  ASSUME WriterInv, NEW w \in Workers, LoopStep(w)
  PROVE  LockInv' /\ TmpInv' /\ ProgramInv'
<1>1. LoopEffect(w)
  BY LoopEffects
<1>2. \A v \in Workers \ {w} :
        /\ pc'[Loop(v)] = pc[Loop(v)] /\ list'[Loop(v)] = list[Loop(v)]
        /\ todo'[Loop(v)] = todo[Loop(v)] /\ prov'[v] = prov[v]
  BY OtherLoops DEF WriterInv
<1>3. LockInv'
  BY <1>1, <1>2 DEF WriterInv, LockInv, LoopEffect
<1>4. TmpInv'
  <2>1. ASSUME NEW v \in Workers \ {w}, pc[Loop(v)] = "replace" PROVE tmp' = tmp
    BY <1>1, <2>1 DEF WriterInv, LockInv, LoopEffect, Locked
  <2>. QED BY <1>1, <1>2, <2>1 DEF WriterInv, TmpInv, LoopEffect
<1>5. ProgramInv'
  BY <1>1, <1>2 DEF WriterInv, ProgramInv, LoopEffect
<1>. QED BY <1>3, <1>4, <1>5

LEMMA InitInv == Init => WriterInv
<1>. SUFFICES ASSUME Init PROVE WriterInv
  OBVIOUS
<1>1. \A w \in Workers : /\ pc[Loop(w)] \in {"down", "idle"}
                         /\ RootAMS => pc[Loop(w)] = "down"
  BY CoverageAssumption DEF Init, Loop, Threads
<1>. QED
  BY <1>1, InitType, CoverageAssumption
  DEF WriterInv, LockInv, TmpInv, ProgramInv, Init, Locked

LEMMA NextInv == WriterInv /\ [Next]_vars => WriterInv'
<1>. SUFFICES ASSUME WriterInv, [Next]_vars PROVE WriterInv'
  OBVIOUS
<1>1. TypeOK'
  BY NextType DEF WriterInv
<1>2. CASE UNCHANGED vars
  BY <1>1, <1>2 DEF WriterInv, LockInv, TmpInv, ProgramInv, vars
<1>3. ASSUME NEW w \in Workers, LoopStep(w) PROVE WriterInv'
  BY <1>1, <1>3, LoopInv DEF WriterInv
<1>4. ASSUME NEW w \in Workers, WatchStep(w) \/ GisReload(w) \/ GisStep(w)
      PROVE  WriterInv'
  <2>1. /\ UNCHANGED <<disk, tmp, lock>>
        /\ \A v \in Workers : /\ pc'[Loop(v)] = pc[Loop(v)]
                             /\ list'[Loop(v)] = list[Loop(v)]
                             /\ todo'[Loop(v)] = todo[Loop(v)]
        /\ \A v \in Workers : prov'[v] = prov[v] \/ prov'[v] \in AmsFiles
    BY <1>4, OtherThreads DEF WriterInv
  <2>. QED BY <1>1, <2>1 DEF WriterInv, LockInv, TmpInv, ProgramInv
<1>. QED BY <1>2, <1>3, <1>4, NextSplit

\* At most one worker is ever between taking and giving back the coverage
\* file's lock, the temporary file a writer renames is the list it made, and
\* variables keep their types: the inductive invariant of _with_coverage_write.
THEOREM WriterInvariant == Spec => []WriterInv
<1>. QED BY InitInv, NextInv, PTL DEF Spec

\* The coverage store's variables keep their types, and the flock has one
\* owner, in every reachable state of any number of workers.
THEOREM TypeCorrect == Spec => []TypeOK
<1>1. WriterInv => TypeOK
  BY DEF WriterInv
<1>. QED BY <1>1, WriterInvariant, PTL

(***************************************************************************)
(* CoverageStore implements CoverageLedger: every step of the workers is a *)
(* step of the serial ledger or leaves it alone.  The argument needs the   *)
(* writers' invariant: because only the lock's owner is in the critical    *)
(* section, its private list is the open transaction; because the file it  *)
(* renames is that list with nothing left to do, a rename is a commit.     *)
(***************************************************************************)
\* The ledger's edits are the store's.
LEMMA LedgerKeyIndex ==
  ASSUME NEW l, NEW e PROVE Ledger!KeyIndex(l, e) = KeyIndex(l, e)
BY DEF Ledger!KeyIndex, KeyIndex, Ledger!SelectInSeq, SelectInSeq,
       Ledger!SameKey, SameKey, Ledger!Min, Min

LEMMA LedgerSourceIdIndex ==
  ASSUME NEW l, NEW e PROVE Ledger!SourceIdIndex(l, e) = SourceIdIndex(l, e)
BY DEF Ledger!SourceIdIndex, SourceIdIndex, Ledger!SelectInSeq, SelectInSeq,
       Ledger!Min, Min

LEMMA LedgerEdits ==
  ASSUME NEW l, NEW op
  PROVE  /\ Ledger!ApplyOp(l, op) = ApplyOp(l, op)
         /\ Ledger!Raises(l, op) <=> Raises(l, op)
BY LedgerKeyIndex, LedgerSourceIdIndex
DEF Ledger!ApplyOp, ApplyOp, Ledger!Upsert, Upsert, Ledger!Delete, Delete,
    Ledger!Supersede, Supersede, Ledger!ReplaceAt, ReplaceAt, Ledger!RemoveAt,
    RemoveAt, Ledger!Raises, Raises, Ledger!Orderable, Orderable

LEMMA LedgerAsserts == ASSUME NEW f PROVE Ledger!Asserts(f) = Asserts(f)
BY DEF Ledger!Asserts, Asserts

-----------------------------------------------------------------------------
\* The transaction that worker w's private state stands for.
TxnOf(w) == [copy |-> list[Loop(w)], left |-> todo[Loop(w)]]

\* With the writers' invariant, the open transaction is the one of whichever
\* worker is in the critical section, and is told apart from none at all.
TxnView ==
  \A w \in Workers : /\ lock = w /\ InTxn(w) => CurrentTxn = TxnOf(w)
                     /\ lock = w /\ ~InTxn(w) => CurrentTxn = NoTxn
                     /\ lock = Nobody => CurrentTxn = NoTxn
                     /\ TxnOf(w) # NoTxn

LEMMA TxnFacts == WriterInv => TxnView
<1>. SUFFICES ASSUME WriterInv, NEW w \in Workers
              PROVE  /\ lock = w /\ InTxn(w) => CurrentTxn = TxnOf(w)
                     /\ lock = w /\ ~InTxn(w) => CurrentTxn = NoTxn
                     /\ lock = Nobody => CurrentTxn = NoTxn
                     /\ TxnOf(w) # NoTxn
  BY DEF TxnView
<1>1. list[Loop(w)] \in Lists /\ list[Loop(w)] # NoFile
  BY ThreadFacts, CoverageAssumption DEF WriterInv, TypeOK
<1>2. TxnOf(w).copy # NoTxn.copy
  BY <1>1 DEF TxnOf, NoTxn
<1>. QED BY <1>2, CoverageAssumption DEF CurrentTxn, TxnOf

\* A step that leaves the lock's owner, that owner's loop and the file alone
\* leaves the ledger alone.
LEMMA LedgerStutters ==
  ASSUME WriterInv, lock' = lock, disk' = disk,
         \A v \in Workers : lock = v =>
            /\ pc'[Loop(v)] = pc[Loop(v)]
            /\ list'[Loop(v)] = list[Loop(v)]
            /\ todo'[Loop(v)] = todo[Loop(v)]
  PROVE  UNCHANGED Ledger!ledgerVars
<1>1. lock \in Workers \cup {Nobody}
  BY DEF WriterInv, TypeOK
<1>2. CurrentTxn' = CurrentTxn
  BY <1>1, CoverageAssumption DEF CurrentTxn, InTxn, NoTxn
<1>. QED BY <1>2 DEF Ledger!ledgerVars

\* A step of a loop that neither holds nor gets the lock.
LEMMA OutsideStep ==
  ASSUME WriterInv, NEW w \in Workers, LoopStep(w), lock # w, lock' # w
  PROVE  UNCHANGED Ledger!ledgerVars
<1>1. /\ pc[Loop(w)] \notin Locked
      /\ lock' \in Workers \cup {Nobody} /\ lock \in Workers \cup {Nobody}
  <2>1. TypeOK'
    BY NextType DEF WriterInv, Next, LoopStep
  <2>. QED BY <2>1 DEF WriterInv, LockInv, TypeOK
<1>2. lock' = lock
  BY <1>1, LoopEffects DEF LoopEffect
<1>3. disk' = disk
  BY <1>1 DEF LoopStep, Write, Boot, FinishBoot, Crash, Request, LockFile, ReadFile,
     Edit, Abort, Reassert, WriteTmp, Replace, SaveFails, Publish, Unlock, Locked,
     file
<1>. QED
  BY <1>2, <1>3, LedgerStutters, OtherLoops DEF WriterInv

\* A step of the loop that holds the lock, or takes it.
LEMMA InsideStep ==
  ASSUME WriterInv, WriterInv', NEW w \in Workers, LoopStep(w), lock = w \/ lock' = w
  PROVE  [Ledger!Next]_(Ledger!ledgerVars)
<1>. USE CoverageAssumption
<1>1. Loop(w) \in Threads
  BY ThreadFacts
<1>2. TypeOK /\ LockInv /\ TmpInv /\ ProgramInv
  BY DEF WriterInv
<1>3. /\ lock = w /\ InTxn(w) => CurrentTxn = TxnOf(w)
      /\ lock = w /\ ~InTxn(w) => CurrentTxn = NoTxn
      /\ lock = Nobody => CurrentTxn = NoTxn
      /\ TxnOf(w) # NoTxn
  BY TxnFacts DEF TxnView
<1>4. /\ lock' = w /\ InTxn(w)' => CurrentTxn' = TxnOf(w)'
      /\ lock' = w /\ ~InTxn(w)' => CurrentTxn' = NoTxn
      /\ lock' = Nobody => CurrentTxn' = NoTxn
      /\ TxnOf(w)' # NoTxn
  <2>1. TxnView'
    BY TxnFacts, PTL
  <2>2. NoTxn' = NoTxn
    BY DEF NoTxn
  <2>. QED BY <2>1, <2>2 DEF TxnView
<1>. DEFINE Stutter == UNCHANGED Ledger!ledgerVars
<1>5. ASSUME Boot(w) \/ FinishBoot(w) \/ Request(w) PROVE FALSE
  BY <1>2, <1>5 DEF Boot, FinishBoot, Request, LockInv, Locked
<1>6. CASE LockFile(w)
  <2>1. Stutter
    BY <1>1, <1>2, <1>3, <1>4, <1>6
    DEF LockFile, Goto, TypeOK, InTxn, file, Ledger!ledgerVars
  <2>. QED BY <2>1
<1>7. CASE Crash(w)
  <2>1. lock = w /\ lock' = Nobody /\ disk' = disk
    BY <1>7 DEF Crash, file
  <2>2. CASE InTxn(w)
    <3>1. Ledger!Abandon
      BY <1>3, <1>4, <2>1, <2>2 DEF Ledger!Abandon
    <3>. QED BY <3>1 DEF Ledger!Next
  <2>3. CASE ~InTxn(w)
    BY <1>3, <1>4, <2>1, <2>3 DEF Ledger!ledgerVars
  <2>. QED BY <2>2, <2>3
<1>8. CASE ReadFile(w)
  <2>1. PICK content \in ReadOutcomes : list' = [list EXCEPT ![Loop(w)] = content]
    BY <1>8 DEF ReadFile
  <2>2. lock = w /\ ~InTxn(w) /\ lock' = w /\ InTxn(w)'
    BY <1>1, <1>2, <1>8 DEF ReadFile, LockInv, Locked, InTxn, Goto, TypeOK
  <2>3. TxnOf(w)' = [copy |-> content, left |-> todo[Loop(w)]]
    BY <1>1, <1>2, <1>8, <2>1 DEF ReadFile, TxnOf, TypeOK
  <2>4. disk' = disk
    BY <1>8 DEF ReadFile, file
  <2>5. Ledger!Begin(todo[Loop(w)])
    BY <1>3, <1>4, <2>1, <2>2, <2>3, <2>4 DEF Ledger!Begin, ReadOutcomes
  <2>6. todo[Loop(w)] \in Requests
    BY <1>2, <1>8 DEF ProgramInv, ReadFile
  <2>. QED BY <2>5, <2>6 DEF Ledger!Next
<1>9. CASE Edit(Loop(w))
  <2>1. lock = w /\ InTxn(w) /\ lock' = w /\ InTxn(w)' /\ disk' = disk
    BY <1>2, <1>9 DEF Edit, LockInv, Locked, InTxn, file
  <2>2. TxnOf(w)' = [copy |-> ApplyOp(list[Loop(w)], Head(todo[Loop(w)])),
                     left |-> Tail(todo[Loop(w)])]
    BY <1>1, <1>2, <1>9 DEF Edit, Work, TxnOf, TypeOK
  <2>3. Ledger!Edit
    BY <1>3, <1>4, <1>9, <2>1, <2>2, LedgerEdits DEF Ledger!Edit, Edit, TxnOf
  <2>. QED BY <2>3 DEF Ledger!Next
<1>10. CASE Abort(w)
  <2>1. lock = w /\ InTxn(w) /\ lock' = w /\ ~InTxn(w)' /\ disk' = disk
    BY <1>1, <1>2, <1>10 DEF Abort, LockInv, Locked, InTxn, Goto, TypeOK, file
  <2>2. Ledger!Abandon
    BY <1>3, <1>4, <2>1 DEF Ledger!Abandon
  <2>. QED BY <2>2 DEF Ledger!Next
<1>11. CASE Reassert(w)
  <2>1. lock = w /\ InTxn(w) /\ lock' = w /\ InTxn(w)' /\ disk' = disk
    BY <1>1, <1>2, <1>11 DEF Reassert, LockInv, Locked, InTxn, Goto, TypeOK, file
  <2>2. TxnOf(w)' = [TxnOf(w) EXCEPT !.left = Asserts(prov[w])]
    BY <1>1, <1>2, <1>11 DEF Reassert, TxnOf, TypeOK
  <2>3. Ledger!Provision(prov[w])
    BY <1>3, <1>4, <1>11, <2>1, <2>2, LedgerAsserts
    DEF Ledger!Provision, Reassert, TxnOf
  <2>4. prov[w] \in IF RootAMS THEN AmsFiles ELSE {}
    BY <1>2, <1>11 DEF ProgramInv, Reassert
  <2>. QED BY <2>3, <2>4 DEF Ledger!Next
<1>12. CASE WriteTmp(w)
  <2>1. lock = w /\ InTxn(w) /\ lock' = w /\ InTxn(w)' /\ disk' = disk
    BY <1>1, <1>2, <1>12 DEF WriteTmp, LockInv, Locked, InTxn, Goto, TypeOK
  <2>2. TxnOf(w)' = TxnOf(w)
    BY <1>12 DEF WriteTmp, TxnOf
  <2>. QED BY <1>3, <1>4, <2>1, <2>2 DEF Ledger!ledgerVars
<1>13. CASE Replace(w)
  <2>1. lock = w /\ InTxn(w) /\ lock' = w /\ ~InTxn(w)' /\ disk' = tmp
    BY <1>1, <1>2, <1>13 DEF Replace, LockInv, Locked, InTxn, Goto, TypeOK
  <2>2. tmp = TxnOf(w).copy /\ TxnOf(w).left = <<>>
    BY <1>2, <1>13 DEF Replace, TmpInv, TxnOf
  <2>3. Ledger!Commit
    BY <1>3, <1>4, <2>1, <2>2 DEF Ledger!Commit
  <2>. QED BY <2>3 DEF Ledger!Next
<1>14. CASE SaveFails(w)
  <2>1. lock = w /\ InTxn(w) /\ lock' = w /\ ~InTxn(w)' /\ disk' = disk
    BY <1>1, <1>2, <1>14 DEF SaveFails, LockInv, Locked, InTxn, Goto, TypeOK
  <2>2. Ledger!Abandon
    BY <1>3, <1>4, <2>1 DEF Ledger!Abandon
  <2>. QED BY <2>2 DEF Ledger!Next
<1>15. CASE Publish(w)
  <2>1. lock = w /\ ~InTxn(w) /\ lock' = w /\ ~InTxn(w)' /\ disk' = disk
    BY <1>1, <1>2, <1>15 DEF Publish, LockInv, Locked, InTxn, Goto, TypeOK, file
  <2>. QED BY <1>3, <1>4, <2>1 DEF Ledger!ledgerVars
<1>16. CASE Unlock(w)
  <2>1. lock = w /\ ~InTxn(w) /\ lock' = Nobody /\ disk' = disk
    BY <1>2, <1>16 DEF Unlock, LockInv, Locked, InTxn, file
  <2>. QED BY <1>3, <1>4, <2>1 DEF Ledger!ledgerVars
<1>. QED
  BY <1>5, <1>6, <1>7, <1>8, <1>9, <1>10, <1>11, <1>12, <1>13, <1>14, <1>15, <1>16
  DEF LoopStep, Write

-----------------------------------------------------------------------------
LEMMA LedgerInit == Init => Ledger!Init
<1>. SUFFICES ASSUME Init PROVE Ledger!Init
  OBVIOUS
<1>1. CurrentTxn = NoTxn
  BY DEF Init, CurrentTxn
<1>. QED BY <1>1 DEF Init, Ledger!Init

LEMMA LedgerNext ==
  WriterInv /\ WriterInv' /\ [Next]_vars => [Ledger!Next]_(Ledger!ledgerVars)
<1>. SUFFICES ASSUME WriterInv, WriterInv', [Next]_vars
              PROVE  [Ledger!Next]_(Ledger!ledgerVars)
  OBVIOUS
<1>1. CASE UNCHANGED vars
  BY <1>1, LedgerStutters DEF vars
<1>2. ASSUME NEW w \in Workers, LoopStep(w)
      PROVE  [Ledger!Next]_(Ledger!ledgerVars)
  BY <1>2, OutsideStep, InsideStep
<1>3. ASSUME NEW w \in Workers, WatchStep(w) \/ GisReload(w) \/ GisStep(w)
      PROVE  UNCHANGED Ledger!ledgerVars
  BY <1>3, OtherThreads, LedgerStutters DEF WriterInv
<1>. QED BY <1>1, <1>2, <1>3, NextSplit

\* Whatever the number of workers and wherever they are killed, saves fail or
\* an edit raises, the coverage file evolves as by one whole write at a time.
THEOREM WritesAreSerial == Spec => SerialWrites
<1>. QED
  BY LedgerInit, LedgerNext, WriterInvariant, PTL DEF SerialWrites, Spec, Ledger!Spec

(***************************************************************************)
(* On a node that is not a root AMS the keys of every list stay apart: the *)
(* file, the workers' memories and the private lists only ever move from   *)
(* one to another whole, or change by an upsert or a delete.               *)
(***************************************************************************)
KeysInv ==
  /\ UniqueKeys(disk)
  /\ \A w \in Workers : UniqueKeys(mem[w])
  /\ \A t \in Threads : UniqueKeys(list[t]) /\ todo[t] \in Seq(SyncOperation)

LEMMA EmptyKeys == UniqueKeys(<<>>) /\ <<>> \in Seq(SyncOperation) /\ Asserts(<<>>) = <<>>
BY EmptySeq DEF UniqueKeys, Asserts

LEMMA SyncTail ==
  ASSUME NEW p \in Seq(SyncOperation), p # <<>>
  PROVE  Head(p) \in SyncOperation /\ Tail(p) \in Seq(SyncOperation)
BY HeadTailProperties

LEMMA NextKeys ==
  ASSUME ~RootAMS
  PROVE  WriterInv /\ KeysInv /\ [Next]_vars => KeysInv'
<1>. SUFFICES ASSUME WriterInv, KeysInv, [Next]_vars PROVE KeysInv'
  OBVIOUS
<1>. USE EmptyKeys
<1>1. CASE UNCHANGED vars
  BY <1>1 DEF KeysInv, vars
<1>2. ASSUME NEW content \in ReadOutcomes PROVE UniqueKeys(content)
  BY DEF ReadOutcomes, KeysInv
<1>3. ASSUME NEW w \in Workers
      PROVE  Loop(w) \in Threads /\ Watch(w) \in Threads /\ Gis(w) \in Threads
  BY ThreadFacts
<1>4. ASSUME NEW t \in Threads, Edit(t) PROVE KeysInv'
  <2>1. UniqueKeys(ApplyOp(list[t], Head(todo[t]))) /\ Tail(todo[t]) \in Seq(SyncOperation)
    BY <1>4, SyncTail, SyncKeepsKeys DEF Edit, KeysInv, WriterInv, TypeOK
  <2>. QED BY <1>4, <2>1 DEF Edit, Work, KeysInv, WriterInv, TypeOK, file
<1>5. ASSUME NEW w \in Workers, Boot(w) PROVE KeysInv'
  <2>1. PICK content \in ReadOutcomes :
          mem' = [mem EXCEPT ![w] = content] /\ Work(Loop(w), content, <<>>)
    BY <1>5 DEF Boot
  <2>. QED BY <1>2, <1>5, <2>1 DEF Boot, Work, KeysInv, WriterInv, TypeOK, file
<1>6. ASSUME NEW w \in Workers, FinishBoot(w) PROVE KeysInv'
  BY <1>3, <1>6 DEF FinishBoot, Work, KeysInv, WriterInv, TypeOK, file
<1>7. ASSUME NEW w \in Workers, Crash(w) PROVE KeysInv'
  BY <1>7 DEF Crash, KeysInv, WriterInv, TypeOK, file
<1>8. ASSUME NEW w \in Workers, Request(w) PROVE KeysInv'
  <2>1. PICK program \in Requests : Work(Loop(w), <<>>, program)
    BY <1>8 DEF Request
  <2>2. program \in Seq(SyncOperation)
    BY CoverageAssumption
  <2>. QED BY <1>8, <2>1, <2>2 DEF Request, Work, KeysInv, WriterInv, TypeOK, file
<1>9. ASSUME NEW w \in Workers, ReadFile(w) PROVE KeysInv'
  BY <1>2, <1>9 DEF ReadFile, KeysInv, WriterInv, TypeOK, file
<1>10. ASSUME NEW w \in Workers, Replace(w) PROVE KeysInv'
  BY <1>3, <1>10 DEF Replace, KeysInv, WriterInv, TmpInv
<1>11. ASSUME NEW w \in Workers, Publish(w) PROVE KeysInv'
  BY <1>3, <1>11 DEF Publish, KeysInv, WriterInv, TypeOK, file
<1>12. ASSUME NEW w \in Workers, Unlock(w) PROVE KeysInv'
  BY <1>12 DEF Unlock, Work, KeysInv, WriterInv, TypeOK, file
<1>13. ASSUME NEW w \in Workers, WatchRead(w) PROVE KeysInv'
  <2>1. PICK content \in ReadOutcomes : Work(Watch(w), content, <<>>)
    BY <1>13 DEF WatchRead
  <2>. QED BY <1>2, <1>13, <2>1 DEF WatchRead, Work, KeysInv, WriterInv, TypeOK, file
<1>14. ASSUME NEW w \in Workers, NEW t \in Threads, PublishMerged(w, t) PROVE KeysInv'
  BY <1>14 DEF PublishMerged, Work, KeysInv, WriterInv, TypeOK, file
<1>15. ASSUME NEW w \in Workers,
              \/ LockFile(w) \/ Abort(w) \/ Reassert(w) \/ WriteTmp(w) \/ SaveFails(w)
              \/ WatchBegin(w) \/ WatchPoll(w) \/ GisReload(w)
       PROVE  KeysInv'
  BY <1>15
  DEF LockFile, Abort, Reassert, WriteTmp, SaveFails, WatchBegin, WatchPoll, GisReload,
      KeysInv, file
<1>. QED
  BY <1>1, <1>3, <1>4, <1>5, <1>6, <1>7, <1>8, <1>9, <1>10, <1>11, <1>12, <1>13,
     <1>14, <1>15
  DEF Next, Write, WatchStep, GisStep

\* On a node that is not a root AMS, no list a worker saves or serves from
\* holds two entries with one (source, source_id), whatever its workers do and
\* wherever they fail.
THEOREM KeysStayApart == ASSUME ~RootAMS PROVE Spec => []KeysUnique
<1>1. Init => KeysInv
  BY EmptyKeys DEF Init, KeysInv
<1>2. KeysInv => KeysUnique
  BY DEF KeysInv, KeysUnique
<1>. QED BY <1>1, <1>2, NextKeys, WriterInvariant, PTL DEF Spec

(***************************************************************************)
(* Stamps never regress.  The argument is made on the ledger: while a      *)
(* transaction is open its copy has, for every key of the file, either an  *)
(* entry that is no older, or none at all because the write deleted it and *)
(* then has no upsert of that key left to do.                              *)
(***************************************************************************)
\* A write that deletes a key does not add it again.
NeverReadds(program) ==
  \A i, j \in DOMAIN program :
    i < j /\ program[i].kind = "delete" /\ program[j].kind = "upsert"
      => ~SameKey(program[i].entry, program[j].entry)

NoOlder(base, copy) ==
  \A i \in DOMAIN base, j \in DOMAIN copy :
    SameKey(base[i], copy[j]) => copy[j].last_updated >= base[i].last_updated

\* Every key of base is in the copy, or no upsert of it is left.
Settled(base, copy, left) ==
  \A i \in DOMAIN base :
    \/ \E j \in DOMAIN copy : SameKey(base[i], copy[j])
    \/ \A k \in DOMAIN left :
         left[k].kind = "upsert" => ~SameKey(base[i], left[k].entry)

TxnInv ==
  CurrentTxn # NoTxn =>
    /\ CurrentTxn.copy \in Lists
    /\ CurrentTxn.left \in Seq(SyncOperation)
    /\ NeverReadds(CurrentTxn.left)
    /\ NoOlder(disk, CurrentTxn.copy)
    /\ Settled(disk, CurrentTxn.copy, CurrentTxn.left)

LEMMA TailElements ==
  ASSUME NEW S, NEW p \in Seq(S), p # <<>>
  PROVE  /\ Head(p) \in S /\ Tail(p) \in Seq(S)
         /\ Head(p) = p[1] /\ 1 \in DOMAIN p
         /\ \A k \in DOMAIN Tail(p) : k \in Nat /\ k + 1 \in DOMAIN p /\ Tail(p)[k] = p[k + 1]
<1>1. Len(p) \in Nat \ {0} /\ DOMAIN p = 1 .. Len(p)
  BY LenProperties, EmptySeq
<1>2. Tail(p) \in Seq(S) /\ Len(Tail(p)) = Len(p) - 1 /\ Head(p) \in S
  BY HeadTailProperties
<1>3. DOMAIN Tail(p) = 1 .. Len(p) - 1
  BY <1>2, LenProperties
<1>4. \A k \in 1 .. Len(p) - 1 : Tail(p)[k] = p[k + 1]
  BY <1>1, HeadTailProperties
<1>. QED BY <1>1, <1>2, <1>3, <1>4

LEMMA TailNeverReadds ==
  ASSUME NEW p \in Seq(SyncOperation), p # <<>>, NeverReadds(p)
  PROVE  NeverReadds(Tail(p))
<1>. SUFFICES ASSUME NEW i \in DOMAIN Tail(p), NEW j \in DOMAIN Tail(p), i < j,
                     Tail(p)[i].kind = "delete", Tail(p)[j].kind = "upsert"
              PROVE  ~SameKey(Tail(p)[i].entry, Tail(p)[j].entry)
  BY DEF NeverReadds
<1>1. /\ i \in Nat /\ i + 1 \in DOMAIN p /\ Tail(p)[i] = p[i + 1]
      /\ j \in Nat /\ j + 1 \in DOMAIN p /\ Tail(p)[j] = p[j + 1]
  BY TailElements
<1>2. i + 1 < j + 1
  BY <1>1
<1>. QED BY <1>1, <1>2 DEF NeverReadds

\* No edit makes an entry of the copy older than the file's.
LEMMA EditNoOlder ==
  ASSUME NEW base \in Lists, NEW copy \in Lists, NEW left \in Seq(SyncOperation),
         left # <<>>, NoOlder(base, copy), Settled(base, copy, left)
  PROVE  NoOlder(base, ApplyOp(copy, Head(left)))
<1>. DEFINE op == Head(left)
            e == op.entry
            n == KeyIndex(copy, e)
<1>1. op \in SyncOperation /\ op = left[1] /\ 1 \in DOMAIN left
  BY TailElements
<1>2. e \in Entry /\ op.kind \in {"upsert", "delete"}
  BY <1>1 DEF SyncOperation
<1>3. Len(copy) \in Nat /\ DOMAIN copy = 1 .. Len(copy)
  BY LenProperties DEF Lists
<1>4. n \in 0 .. Len(copy) /\ (n # 0 => SameKey(copy[n], e))
  BY <1>2, KeyIndexRange
<1>5. /\ \A i \in DOMAIN base : base[i].last_updated \in Nat
      /\ \A j \in DOMAIN copy : copy[j].last_updated \in Nat
      /\ e.last_updated \in Nat
  <2>1. /\ \A i \in DOMAIN base : base[i] \in Entry
        /\ \A j \in DOMAIN copy : copy[j] \in Entry
    BY LenProperties, ElementOfSeq DEF Lists
  <2>. QED BY <1>2, <2>1, StampsAssumption DEF Entry
<1>6. CASE op.kind = "upsert" /\ n = 0
  <2>1. ApplyOp(copy, op) = Append(copy, e)
    BY <1>6 DEF ApplyOp, Upsert
  <2>2. \A k \in 1 .. Len(copy) : ~SameKey(copy[k], e)
    BY <1>2, <1>6, KeyIndexNone
  <2>3. \A i \in DOMAIN base : ~SameKey(base[i], e)
    BY <1>1, <1>3, <1>6, <2>2 DEF Settled, SameKey
  <2>. HIDE DEF op, e, n
  <2>4. ASSUME NEW i \in DOMAIN base, NEW j \in 1 .. Len(copy) + 1,
               SameKey(base[i], Append(copy, e)[j])
        PROVE  Append(copy, e)[j].last_updated >= base[i].last_updated
    <3>1. CASE j \in 1 .. Len(copy)
      <4>1. Append(copy, e)[j] = copy[j] /\ j \in DOMAIN copy
        BY <1>2, <1>3, <3>1, AppendElements
      <4>. QED BY <2>4, <4>1 DEF NoOlder
    <3>2. CASE j = Len(copy) + 1
      BY <1>2, <2>3, <2>4, <3>2, AppendElements
    <3>. QED BY <1>3, <3>1, <3>2
  <2>5. DOMAIN Append(copy, e) = 1 .. Len(copy) + 1
    BY <1>2, AppendElements
  <2>6. NoOlder(base, Append(copy, e))
    BY <2>4, <2>5 DEF NoOlder
  <2>. QED BY <2>1, <2>6 DEF op
<1>7. CASE op.kind = "upsert" /\ n # 0
  <2>1. n \in 1 .. Len(copy)
    BY <1>3, <1>4, <1>7
  <2>2. CASE ~(e.last_updated > copy[n].last_updated)
    <3>1. ApplyOp(copy, op) = copy
      BY <1>7, <2>2 DEF ApplyOp, Upsert
    <3>. QED BY <3>1
  <2>3. CASE e.last_updated > copy[n].last_updated
    <3>1. ApplyOp(copy, op) = ReplaceAt(copy, n, e)
      BY <1>7, <2>3 DEF ApplyOp, Upsert
    <3>. HIDE DEF op, e, n
    <3>2. ASSUME NEW i \in DOMAIN base, NEW j \in 1 .. Len(copy),
                 SameKey(base[i], ReplaceAt(copy, n, e)[j])
          PROVE  ReplaceAt(copy, n, e)[j].last_updated >= base[i].last_updated
      <4>1. ReplaceAt(copy, n, e)[j] = IF j = n THEN e ELSE copy[j]
        BY <1>2, <2>1, ReplaceAtElements
      <4>2. CASE j = n
        <5>1. SameKey(base[i], copy[n])
          BY <1>4, <1>7, <3>2, <4>1, <4>2 DEF SameKey
        <5>2. copy[n].last_updated >= base[i].last_updated
          BY <1>3, <2>1, <5>1 DEF NoOlder
        <5>. QED BY <1>3, <1>5, <2>1, <2>3, <4>1, <4>2, <5>2
      <4>3. CASE j # n
        BY <1>3, <3>2, <4>1, <4>3 DEF NoOlder
      <4>. QED BY <4>2, <4>3
    <3>. QED BY <1>2, <2>1, <3>1, <3>2, ReplaceAtElements DEF NoOlder, op
  <2>. QED BY <2>2, <2>3
<1>8. CASE op.kind = "delete"
  <2>1. ApplyOp(copy, op) = IF n = 0 THEN copy ELSE RemoveAt(copy, n)
    BY <1>8 DEF ApplyOp, Delete
  <2>2. CASE n = 0
    BY <2>1, <2>2
  <2>3. CASE n # 0
    <3>1. n \in 1 .. Len(copy)
      BY <1>3, <1>4, <2>3
    <3>. HIDE DEF n
    <3>2. \A j \in 1 .. Len(copy) - 1 : \E k \in 1 .. Len(copy) : RemoveAt(copy, n)[j] = copy[k]
      <4>1. TAKE j \in 1 .. Len(copy) - 1
      <4>2. j \in 1 .. Len(copy) /\ j + 1 \in 1 .. Len(copy)
        BY <1>3
      <4>. QED BY <3>1, <4>2, RemoveAtElements
    <3>3. NoOlder(base, RemoveAt(copy, n))
      BY <1>3, <3>1, <3>2, RemoveAtElements DEF NoOlder
    <3>. QED BY <2>1, <2>3, <3>3
  <2>. QED BY <2>2, <2>3
<1>. QED BY <1>2, <1>6, <1>7, <1>8

\* An edit leaves every entry of the list in place, updated or not, except the
\* one it deletes.
LEMMA EditKeeps ==
  ASSUME NEW l \in Lists, NEW op \in SyncOperation, NEW j \in DOMAIN l
  PROVE  \/ \E k \in DOMAIN ApplyOp(l, op) : SameKey(ApplyOp(l, op)[k], l[j])
         \/ op.kind = "delete" /\ SameKey(l[j], op.entry)
<1>. DEFINE e == op.entry
            n == KeyIndex(l, e)
<1>1. e \in Entry /\ op.kind \in {"upsert", "delete"}
  BY DEF SyncOperation
<1>2. Len(l) \in Nat /\ DOMAIN l = 1 .. Len(l) /\ j \in 1 .. Len(l)
  BY LenProperties DEF Lists
<1>3. n \in 0 .. Len(l) /\ (n # 0 => SameKey(l[n], e))
  BY <1>1, KeyIndexRange
<1>4. CASE ApplyOp(l, op) = l
  BY <1>4 DEF SameKey
<1>5. CASE ApplyOp(l, op) = Append(l, e)
  <2>1. j \in DOMAIN Append(l, e) /\ Append(l, e)[j] = l[j]
    BY <1>1, <1>2, AppendElements
  <2>. QED BY <1>5, <2>1 DEF SameKey
<1>6. CASE n # 0 /\ ApplyOp(l, op) = ReplaceAt(l, n, e)
  <2>1. n \in 1 .. Len(l)
    BY <1>2, <1>3, <1>6
  <2>. HIDE DEF n, e
  <2>2. /\ j \in DOMAIN ReplaceAt(l, n, e)
        /\ ReplaceAt(l, n, e)[j] = IF j = n THEN e ELSE l[j]
    BY <1>1, <1>2, <2>1, ReplaceAtElements
  <2>3. SameKey(ReplaceAt(l, n, e)[j], l[j])
    BY <1>3, <1>6, <2>2 DEF SameKey
  <2>. QED BY <1>6, <2>2, <2>3
<1>7. CASE op.kind = "delete" /\ n # 0 /\ ApplyOp(l, op) = RemoveAt(l, n)
  <2>1. n \in 1 .. Len(l)
    BY <1>2, <1>3, <1>7
  <2>2. CASE j = n
    BY <1>3, <1>7, <2>2
  <2>3. CASE j # n
    <3>. DEFINE k == IF j < n THEN j ELSE j - 1
    <3>1. k \in 1 .. Len(l) - 1 /\ (IF k < n THEN k ELSE k + 1) = j
      BY <1>2, <2>1, <2>3
    <3>. HIDE DEF n, k
    <3>2. k \in DOMAIN RemoveAt(l, n) /\ RemoveAt(l, n)[k] = l[j]
      BY <2>1, <3>1, RemoveAtElements
    <3>. QED BY <1>7, <3>2 DEF SameKey
  <2>. QED BY <2>2, <2>3
<1>8. \/ ApplyOp(l, op) = l
      \/ ApplyOp(l, op) = Append(l, e)
      \/ n # 0 /\ ApplyOp(l, op) = ReplaceAt(l, n, e)
      \/ op.kind = "delete" /\ n # 0 /\ ApplyOp(l, op) = RemoveAt(l, n)
  <2>1. CASE op.kind = "upsert"
    BY <2>1 DEF ApplyOp, Upsert
  <2>2. CASE op.kind = "delete"
    BY <2>2 DEF ApplyOp, Delete
  <2>. QED BY <1>1, <2>1, <2>2
<1>. QED BY <1>4, <1>5, <1>6, <1>7, <1>8

LEMMA EditSettled ==
  ASSUME NEW base \in Lists, NEW copy \in Lists, NEW left \in Seq(SyncOperation),
         left # <<>>, NeverReadds(left), Settled(base, copy, left)
  PROVE  Settled(base, ApplyOp(copy, Head(left)), Tail(left))
<1>. DEFINE new == ApplyOp(copy, Head(left))
<1>. SUFFICES ASSUME NEW i \in DOMAIN base
              PROVE  \/ \E k \in DOMAIN new : SameKey(base[i], new[k])
                     \/ \A k \in DOMAIN Tail(left) :
                          Tail(left)[k].kind = "upsert"
                            => ~SameKey(base[i], Tail(left)[k].entry)
  BY DEF Settled
<1>1. /\ Head(left) \in SyncOperation /\ Head(left) = left[1] /\ 1 \in DOMAIN left
      /\ \A k \in DOMAIN Tail(left) :
           k \in Nat /\ k + 1 \in DOMAIN left /\ Tail(left)[k] = left[k + 1]
  BY TailElements
<1>2. ASSUME NEW j \in DOMAIN copy, SameKey(base[i], copy[j])
      PROVE  \/ \E k \in DOMAIN new : SameKey(base[i], new[k])
             \/ Head(left).kind = "delete" /\ SameKey(base[i], Head(left).entry)
  <2>. HIDE DEF new
  <2>1. \/ \E k \in DOMAIN new : SameKey(new[k], copy[j])
        \/ Head(left).kind = "delete" /\ SameKey(copy[j], Head(left).entry)
    BY <1>1, EditKeeps DEF new
  <2>. QED BY <1>2, <2>1 DEF SameKey
<1>3. CASE Head(left).kind = "delete" /\ SameKey(base[i], Head(left).entry)
  <2>1. ASSUME NEW k \in DOMAIN Tail(left), Tail(left)[k].kind = "upsert"
        PROVE  ~SameKey(base[i], Tail(left)[k].entry)
    <3>1. k + 1 \in DOMAIN left /\ Tail(left)[k] = left[k + 1] /\ 1 < k + 1
      BY <1>1, <2>1 DEF Settled
    <3>2. ~SameKey(left[1].entry, left[k + 1].entry)
      BY <1>1, <1>3, <2>1, <3>1 DEF NeverReadds
    <3>. QED BY <1>1, <1>3, <3>1, <3>2 DEF SameKey
  <2>. QED BY <2>1
<1>4. CASE \A k \in DOMAIN left : left[k].kind = "upsert" => ~SameKey(base[i], left[k].entry)
  <2>1. ASSUME NEW k \in DOMAIN Tail(left), Tail(left)[k].kind = "upsert"
        PROVE  ~SameKey(base[i], Tail(left)[k].entry)
    BY <1>1, <1>4, <2>1
  <2>. QED BY <2>1
<1>. QED BY <1>2, <1>3, <1>4 DEF Settled

LEMMA NextTxn ==
  ASSUME ~RootAMS, ~ReadErrors, \A program \in Requests : NeverReadds(program)
  PROVE  /\ TypeOK /\ KeysInv /\ TxnInv /\ [Ledger!Next]_(Ledger!ledgerVars) => TxnInv'
         /\ TypeOK /\ KeysInv /\ TxnInv /\ [Ledger!Next]_(Ledger!ledgerVars)
              => disk' = disk \/ NoOlder(disk, disk')
<1>. SUFFICES ASSUME TypeOK, KeysInv, TxnInv, [Ledger!Next]_(Ledger!ledgerVars)
              PROVE  TxnInv' /\ (disk' = disk \/ NoOlder(disk, disk'))
  OBVIOUS
<1>0. NoTxn' = NoTxn
  BY DEF NoTxn
<1>1. CASE UNCHANGED Ledger!ledgerVars
  BY <1>0, <1>1 DEF TxnInv, Ledger!ledgerVars
<1>2. ASSUME NEW program \in Requests, Ledger!Begin(program)
      PROVE  TxnInv' /\ disk' = disk
  <2>1. CurrentTxn' = [copy |-> disk, left |-> program] /\ disk' = disk
    BY <1>2 DEF Ledger!Begin
  <2>2. disk \in Lists /\ UniqueKeys(disk) /\ program \in Seq(SyncOperation)
    BY CoverageAssumption DEF TypeOK, KeysInv
  <2>3. NoOlder(disk, disk) /\ Settled(disk, disk, program)
    <3>1. \A i \in DOMAIN disk : disk[i].last_updated \in Nat
      <4>1. \A i \in DOMAIN disk : disk[i] \in Entry
        BY <2>2, LenProperties, ElementOfSeq DEF Lists
      <4>. QED BY <4>1, StampsAssumption DEF Entry
    <3>. QED BY <2>2, <3>1 DEF NoOlder, Settled, UniqueKeys, SameKey
  <2>. QED BY <2>1, <2>2, <2>3 DEF TxnInv
<1>3. CASE Ledger!Edit
  <2>. DEFINE copy == CurrentTxn.copy
              left == CurrentTxn.left
  <2>1. /\ CurrentTxn # NoTxn /\ left # <<>> /\ disk' = disk
        /\ CurrentTxn' = [copy |-> ApplyOp(copy, Head(left)), left |-> Tail(left)]
    BY <1>3, LedgerEdits DEF Ledger!Edit
  <2>2. /\ disk \in Lists /\ copy \in Lists /\ left \in Seq(SyncOperation)
        /\ NeverReadds(left) /\ NoOlder(disk, copy) /\ Settled(disk, copy, left)
    BY <2>1 DEF TypeOK, TxnInv
  <2>. HIDE DEF copy, left
  <2>3. Head(left) \in Operation
    BY <2>1, <2>2, SyncTail DEF SyncOperation, Operation
  <2>4. /\ ApplyOp(copy, Head(left)) \in Lists /\ Tail(left) \in Seq(SyncOperation)
        /\ NeverReadds(Tail(left))
    BY <2>1, <2>2, <2>3, ApplyOpType, SyncTail, TailNeverReadds
  <2>5. NoOlder(disk, ApplyOp(copy, Head(left)))
    BY <2>1, <2>2, EditNoOlder
  <2>6. Settled(disk, ApplyOp(copy, Head(left)), Tail(left))
    BY <2>1, <2>2, EditSettled
  <2>. QED BY <2>1, <2>4, <2>5, <2>6 DEF TxnInv
<1>4. CASE Ledger!Commit
  <2>1. CurrentTxn # NoTxn /\ disk' = CurrentTxn.copy /\ CurrentTxn' = NoTxn
    BY <1>4 DEF Ledger!Commit
  <2>. QED BY <1>0, <2>1 DEF TxnInv
<1>5. CASE Ledger!Abandon
  BY <1>0, <1>5 DEF Ledger!Abandon, TxnInv
<1>. QED BY <1>1, <1>2, <1>3, <1>4, <1>5 DEF Ledger!Next

\* On a node that is not a root AMS, whose coverage file can be read, an entry
\* of the file is never replaced by an older one, in whatever order the workers
\* receive its versions and wherever they are killed, as long as no write
\* deletes a key and adds it again.
THEOREM StampsOnlyGrow ==
  ASSUME ~RootAMS, ~ReadErrors, \A program \in Requests : NeverReadds(program)
  PROVE  Spec => StampsNeverRegress
<1>1. Init => KeysInv
  BY EmptyKeys DEF Init, KeysInv
<1>2. Init => TxnInv
  BY DEF Init, TxnInv, CurrentTxn
<1>3. WriterInv => TypeOK
  BY DEF WriterInv
<1>4. TypeOK /\ KeysInv /\ TxnInv /\ [Ledger!Next]_(Ledger!ledgerVars)
        => [\A i \in DOMAIN disk, j \in DOMAIN disk' :
              SameKey(disk[i], disk'[j])
                => disk'[j].last_updated >= disk[i].last_updated]_disk
  BY NextTxn DEF NoOlder
<1>. QED
  BY <1>1, <1>2, <1>3, <1>4, NextKeys, NextTxn, LedgerNext, WriterInvariant, PTL
  DEF Spec, StampsNeverRegress

(***************************************************************************)
(* Provisioning stays in memory on a root AMS: a thread that merges the    *)
(* provisioning file f has, for each entry of f, either put it in its list *)
(* or still to do so, and no list is published before nothing is left.     *)
(* Asserting one entry must not displace another, which is what distinct   *)
(* source_ids give.                                                        *)
(***************************************************************************)
DistinctIds(f) == \A i, j \in DOMAIN f : f[i].source_id = f[j].source_id => i = j

Holds(l, e) == \E j \in DOMAIN l : l[j] = e
Provisioned(f, l) == \A i \in DOMAIN f : Holds(l, f[i])
AssertOp(e) == [kind |-> "assert", entry |-> e]
Asserting(f, l, p) ==
  /\ \A k \in DOMAIN p : \E i \in DOMAIN f : p[k] = AssertOp(f[i])
  /\ \A i \in DOMAIN f : Holds(l, f[i]) \/ \E k \in DOMAIN p : p[k] = AssertOp(f[i])

ProvisionInv(f) ==
  /\ \A w \in Workers :
       /\ \A t \in {Loop(w), Watch(w), Gis(w)} : pc[t] # "down" => prov[w] = f
       /\ pc[Loop(w)] \in {"replace", "publish"} => Provisioned(f, list[Loop(w)])
       /\ Serving(w) => Provisioned(f, mem[w])
  /\ \A t \in Threads :
       pc[t] \in {"boot", "reassert", "merge"} => Asserting(f, list[t], todo[t])

LEMMA SupersedeHolds ==
  ASSUME NEW l \in Lists, NEW e \in Entry
  PROVE  /\ Holds(Supersede(l, e), e)
         /\ \A d \in Entry : Holds(l, d) /\ d.source_id # e.source_id
                               => Holds(Supersede(l, e), d)
<1>. DEFINE n == SourceIdIndex(l, e)
<1>1. Len(l) \in Nat /\ DOMAIN l = 1 .. Len(l)
  BY LenProperties DEF Lists
<1>2. n \in 0 .. Len(l) /\ (n # 0 => l[n].source_id = e.source_id)
  BY SourceIdIndexRange
<1>3. CASE n = 0
  <2>1. Supersede(l, e) = Append(l, e)
    BY <1>3 DEF Supersede
  <2>. QED BY <1>1, <2>1, AppendElements DEF Holds
<1>4. CASE n # 0
  <2>1. Supersede(l, e) = ReplaceAt(l, n, e)
    BY <1>4 DEF Supersede
  <2>2. n \in 1 .. Len(l)
    BY <1>1, <1>2, <1>4
  <2>. HIDE DEF n
  <2>3. DOMAIN ReplaceAt(l, n, e) = 1 .. Len(l)
    BY <2>2, ReplaceAtElements
  <2>4. Holds(ReplaceAt(l, n, e), e)
    BY <2>2, <2>3, ReplaceAtElements DEF Holds
  <2>5. ASSUME NEW d \in Entry, NEW j \in DOMAIN l, l[j] = d, d.source_id # e.source_id
        PROVE  Holds(ReplaceAt(l, n, e), d)
    <3>1. j # n
      BY <1>2, <1>4, <2>5
    <3>. QED BY <1>1, <2>2, <2>3, <2>5, <3>1, ReplaceAtElements DEF Holds
  <2>. QED BY <2>1, <2>4, <2>5 DEF Holds
<1>. QED BY <1>3, <1>4

LEMMA AssertsAll ==
  ASSUME NEW f \in Lists, NEW l
  PROVE  Asserting(f, l, Asserts(f))
<1>1. DOMAIN Asserts(f) = DOMAIN f
  BY DEF Asserts
<1>2. \A i \in DOMAIN f : Asserts(f)[i] = AssertOp(f[i])
  BY DEF Asserts, AssertOp
<1>. QED BY <1>1, <1>2 DEF Asserting

LEMMA AssertingDone ==
  ASSUME NEW f, NEW l, Asserting(f, l, <<>>) PROVE Provisioned(f, l)
BY EmptySeq DEF Asserting, Provisioned

LEMMA AssertingEdit ==
  ASSUME NEW f \in Lists, DistinctIds(f), NEW l \in Lists, NEW p \in Programs,
         p # <<>>, Asserting(f, l, p)
  PROVE  Asserting(f, ApplyOp(l, Head(p)), Tail(p))
<1>1. /\ Head(p) = p[1] /\ 1 \in DOMAIN p
      /\ \A k \in DOMAIN Tail(p) : k + 1 \in DOMAIN p /\ Tail(p)[k] = p[k + 1]
      /\ \A k \in DOMAIN p : k = 1 \/ (k - 1 \in DOMAIN Tail(p) /\ Tail(p)[k - 1] = p[k])
  <2>1. /\ Head(p) = p[1] /\ 1 \in DOMAIN p
        /\ \A k \in DOMAIN Tail(p) : k \in Nat /\ k + 1 \in DOMAIN p /\ Tail(p)[k] = p[k + 1]
    BY TailElements DEF Programs
  <2>2. DOMAIN p = 1 .. Len(p) /\ DOMAIN Tail(p) = 1 .. Len(p) - 1 /\ Len(p) \in Nat
    BY HeadTailProperties, LenProperties DEF Programs
  <2>3. ASSUME NEW k \in DOMAIN p, k # 1
        PROVE  k - 1 \in DOMAIN Tail(p) /\ Tail(p)[k - 1] = p[k]
    <3>1. k - 1 \in DOMAIN Tail(p) /\ (k - 1) + 1 = k
      BY <2>2, <2>3
    <3>. QED BY <2>1, <3>1
  <2>. QED BY <2>1, <2>3
<1>2. PICK m \in DOMAIN f : p[1] = AssertOp(f[m])
  BY <1>1 DEF Asserting
<1>3. \A i \in DOMAIN f : f[i] \in Entry
  BY LenProperties, ElementOfSeq DEF Lists
<1>4. ApplyOp(l, Head(p)) = Supersede(l, f[m])
  BY <1>1, <1>2 DEF ApplyOp, AssertOp
<1>5. \A k \in DOMAIN Tail(p) : \E i \in DOMAIN f : Tail(p)[k] = AssertOp(f[i])
  BY <1>1 DEF Asserting
<1>6. ASSUME NEW i \in DOMAIN f
      PROVE  Holds(Supersede(l, f[m]), f[i]) \/ \E k \in DOMAIN Tail(p) : Tail(p)[k] = AssertOp(f[i])
  <2>1. CASE i = m
    BY <1>3, <2>1, SupersedeHolds
  <2>2. CASE i # m /\ Holds(l, f[i])
    <3>1. f[i].source_id # f[m].source_id
      BY <2>2 DEF DistinctIds
    <3>. QED BY <1>3, <2>2, <3>1, SupersedeHolds
  <2>3. CASE i # m /\ ~Holds(l, f[i])
    <3>1. PICK k \in DOMAIN p : p[k] = AssertOp(f[i])
      BY <2>3 DEF Asserting
    <3>2. AssertOp(f[i]).entry.source_id # AssertOp(f[m]).entry.source_id
      BY <2>3 DEF AssertOp, DistinctIds
    <3>3. k # 1
      BY <1>2, <3>1, <3>2
    <3>. QED BY <1>1, <3>1, <3>3
  <2>. QED BY <2>1, <2>2, <2>3
<1>. QED BY <1>4, <1>5, <1>6 DEF Asserting

LEMMA NextProvision ==
  ASSUME RootAMS, NEW f \in Lists, AmsFiles = {f}, DistinctIds(f)
  PROVE  WriterInv /\ ProvisionInv(f) /\ [Next]_vars => ProvisionInv(f)'
<1>. SUFFICES ASSUME WriterInv, ProvisionInv(f), [Next]_vars PROVE ProvisionInv(f)'
  OBVIOUS
<1>. USE ThreadFacts DEF ProvisionInv, Serving
<1>1. CASE UNCHANGED vars
  BY <1>1 DEF vars
<1>2. TypeOK
  BY DEF WriterInv
<1>3. ASSUME NEW t \in Threads, Edit(t) PROVE ProvisionInv(f)'
  <2>1. pc[t] # "apply" => Asserting(f, list'[t], todo'[t])
    BY <1>2, <1>3, AssertingEdit DEF Edit, Work, TypeOK
  <2>. QED BY <1>2, <1>3, <2>1 DEF Edit, Work, TypeOK
<1>4. ASSUME NEW w \in Workers, Boot(w) PROVE ProvisionInv(f)'
  <2>1. PICK content \in ReadOutcomes :
          /\ mem' = [mem EXCEPT ![w] = content]
          /\ prov' = [prov EXCEPT ![w] = f]
          /\ Work(Loop(w), content, Asserts(f))
    BY <1>4 DEF Boot
  <2>2. Asserting(f, content, Asserts(f))
    BY AssertsAll
  <2>3. /\ pc'[Loop(w)] = "boot" /\ pc'[Gis(w)] = "sleep" /\ pc[Loop(w)] = "down"
        /\ \A t \in Threads \ {Loop(w), Gis(w)} : pc'[t] = pc[t]
    BY <1>2, <1>4 DEF Boot, TypeOK
  <2>4. /\ list'[Loop(w)] = content /\ todo'[Loop(w)] = Asserts(f)
        /\ \A t \in Threads \ {Loop(w)} : list'[t] = list[t] /\ todo'[t] = todo[t]
    BY <1>2, <2>1 DEF Work, TypeOK
  <2>5. /\ prov'[w] = f
        /\ \A v \in Workers \ {w} : prov'[v] = prov[v] /\ mem'[v] = mem[v]
    BY <1>2, <2>1 DEF TypeOK
  <2>6. \A t \in Threads :
          pc'[t] \in {"boot", "reassert", "merge"} => Asserting(f, list'[t], todo'[t])
    BY <2>2, <2>3, <2>4
  <2>7. \A v \in Workers :
          /\ \A t \in {Loop(v), Watch(v), Gis(v)} : pc'[t] # "down" => prov'[v] = f
          /\ pc'[Loop(v)] \in {"replace", "publish"} => Provisioned(f, list'[Loop(v)])
          /\ pc'[Loop(v)] \notin {"down", "boot"} => Provisioned(f, mem'[v])
    <3>1. TAKE v \in Workers
    <3>2. Loop(v) \in Threads /\ Watch(v) \in Threads /\ Gis(v) \in Threads
      OBVIOUS
    <3>3. CASE v = w
      BY <2>3, <2>4, <2>5, <3>2, <3>3
    <3>4. CASE v # w
      BY <2>3, <2>4, <2>5, <3>2, <3>4
    <3>. QED BY <3>3, <3>4
  <2>. QED BY <2>6, <2>7
<1>5. ASSUME NEW w \in Workers, FinishBoot(w) PROVE ProvisionInv(f)'
  <2>1. Provisioned(f, list[Loop(w)])
    BY <1>5, AssertingDone DEF FinishBoot
  <2>2. /\ pc'[Loop(w)] = "idle" /\ pc'[Watch(w)] = "begin" /\ pc[Loop(w)] = "boot"
        /\ \A t \in Threads \ {Loop(w), Watch(w)} : pc'[t] = pc[t]
    BY <1>2, <1>5 DEF FinishBoot, TypeOK
  <2>3. /\ mem'[w] = list[Loop(w)] /\ \A v \in Workers \ {w} : mem'[v] = mem[v]
        /\ \A t \in Threads \ {Loop(w)} : list'[t] = list[t] /\ todo'[t] = todo[t]
        /\ prov' = prov
    BY <1>2, <1>5 DEF FinishBoot, Work, TypeOK
  <2>4. \A t \in Threads :
          pc'[t] \in {"boot", "reassert", "merge"} => Asserting(f, list'[t], todo'[t])
    BY <2>2, <2>3
  <2>5. \A v \in Workers :
          /\ \A t \in {Loop(v), Watch(v), Gis(v)} : pc'[t] # "down" => prov'[v] = f
          /\ pc'[Loop(v)] \in {"replace", "publish"} => Provisioned(f, list'[Loop(v)])
          /\ pc'[Loop(v)] \notin {"down", "boot"} => Provisioned(f, mem'[v])
    <3>1. TAKE v \in Workers
    <3>2. Loop(v) \in Threads /\ Watch(v) \in Threads /\ Gis(v) \in Threads
      OBVIOUS
    <3>3. CASE v = w
      BY <2>1, <2>2, <2>3, <3>2, <3>3
    <3>4. CASE v # w
      BY <2>1, <2>2, <2>3, <3>2, <3>4
    <3>. QED BY <3>3, <3>4
  <2>. QED BY <2>4, <2>5
<1>6. ASSUME NEW w \in Workers, Crash(w) PROVE ProvisionInv(f)'
  <2>1. \A v \in Workers : Loop(v)[1] = v /\ Watch(v)[1] = v /\ Gis(v)[1] = v
    BY DEF Loop, Watch, Gis
  <2>. QED BY <1>2, <1>6, <2>1 DEF Crash, TypeOK
<1>7. ASSUME NEW w \in Workers, Request(w) PROVE ProvisionInv(f)'
  BY <1>2, <1>7 DEF Request, Goto, Work, TypeOK
<1>8. ASSUME NEW w \in Workers, LockFile(w) \/ ReadFile(w) \/ Abort(w) PROVE ProvisionInv(f)'
  BY <1>2, <1>8 DEF LockFile, ReadFile, Abort, Goto, TypeOK
<1>9. ASSUME NEW w \in Workers, Reassert(w) PROVE ProvisionInv(f)'
  <2>1. todo' = [todo EXCEPT ![Loop(w)] = Asserts(f)]
    BY <1>2, <1>9 DEF Reassert
  <2>2. Asserting(f, list[Loop(w)], Asserts(f))
    BY AssertsAll
  <2>. QED BY <1>2, <1>9, <2>1, <2>2 DEF Reassert, Goto, TypeOK
<1>10. ASSUME NEW w \in Workers, WriteTmp(w) PROVE ProvisionInv(f)'
  <2>1. Provisioned(f, list[Loop(w)])
    BY <1>10, AssertingDone DEF WriteTmp
  <2>. QED BY <1>2, <1>10, <2>1 DEF WriteTmp, Goto, TypeOK
<1>11. ASSUME NEW w \in Workers, Replace(w) \/ SaveFails(w) PROVE ProvisionInv(f)'
  BY <1>2, <1>11 DEF Replace, SaveFails, Goto, TypeOK
<1>12. ASSUME NEW w \in Workers, Publish(w) PROVE ProvisionInv(f)'
  BY <1>2, <1>12 DEF Publish, Goto, TypeOK
<1>13. ASSUME NEW w \in Workers, Unlock(w) PROVE ProvisionInv(f)'
  BY <1>2, <1>13 DEF Unlock, Goto, Work, TypeOK
<1>14. ASSUME NEW w \in Workers, WatchBegin(w) \/ WatchPoll(w) PROVE ProvisionInv(f)'
  BY <1>2, <1>14 DEF WatchBegin, WatchPoll, Goto, TypeOK
<1>15. ASSUME NEW w \in Workers, WatchRead(w) PROVE ProvisionInv(f)'
  <2>1. PICK content \in ReadOutcomes : Work(Watch(w), content, Asserts(f))
    BY <1>2, <1>15 DEF WatchRead
  <2>2. Asserting(f, content, Asserts(f))
    BY AssertsAll
  <2>. QED BY <1>2, <1>15, <2>1, <2>2 DEF WatchRead, Goto, Work, TypeOK
<1>16. ASSUME NEW w \in Workers, GisReload(w) PROVE ProvisionInv(f)'
  <2>1. prov' = [prov EXCEPT ![w] = f] /\ Work(Gis(w), mem[w], Asserts(f))
    BY <1>16 DEF GisReload
  <2>2. Asserting(f, mem[w], Asserts(f))
    BY AssertsAll
  <2>. QED BY <1>2, <1>16, <2>1, <2>2 DEF GisReload, Goto, Work, TypeOK
<1>17. ASSUME NEW w \in Workers, NEW t \in {Watch(w), Gis(w)}, PublishMerged(w, t)
       PROVE  ProvisionInv(f)'
  <2>1. Provisioned(f, list[t])
    BY <1>17, AssertingDone DEF PublishMerged
  <2>. QED BY <1>2, <1>17, <2>1 DEF PublishMerged, Goto, Work, TypeOK
<1>. QED
  BY <1>1, <1>3, <1>4, <1>5, <1>6, <1>7, <1>8, <1>9, <1>10, <1>11, <1>12, <1>13,
     <1>14, <1>15, <1>16, <1>17
  DEF Next, Write, WatchStep, GisStep

\* On a root AMS whose provisioning file is valid, unchanging and gives each
\* of its entries a source_id of its own, every entry of that file is in the
\* memory of every serving worker, whatever children delete or overwrite, and
\* whichever reads and saves of the coverage file fail.
THEOREM ProvisioningStays ==
  ASSUME RootAMS, NEW f \in Lists, AmsFiles = {f}, DistinctIds(f)
  PROVE  Spec => []ProvisioningInMemory
<1>1. Init => ProvisionInv(f)
  <2>1. RootAMS => Up0 = {}
    BY CoverageAssumption
  <2>. QED BY <2>1, ThreadFacts DEF Init, ProvisionInv, Serving
<1>2. ProvisionInv(f) => ProvisioningInMemory
  <2>. SUFFICES ASSUME ProvisionInv(f), NEW w \in Workers, Serving(w)
                PROVE  ToSet(prov[w]) \subseteq ToSet(mem[w])
    BY DEF ProvisioningInMemory
  <2>1. prov[w] = f /\ Provisioned(f, mem[w])
    BY DEF ProvisionInv, Serving
  <2>. QED BY <2>1 DEF Provisioned, Holds, ToSet
<1>. QED BY <1>1, <1>2, NextProvision, WriterInvariant, PTL DEF Spec

(***************************************************************************)
(* A stale memory is noticed.  Publishing right after a save, the writer   *)
(* publishes what the file holds; the watcher's list is what the file held *)
(* at the mtime it last saw; so a memory that differs from the file comes  *)
(* with a mtime the watcher has not seen.                                  *)
(***************************************************************************)
MemoryInv ==
  \A w \in Workers :
    /\ pc[Loop(w)] # "boot"
    /\ pc[Watch(w)] \in {"down", "sleep", "read", "merge"}
    /\ pc[Gis(w)] \in {"down", "sleep"}
    /\ baseline[w] <= mtime
    /\ pc[Loop(w)] = "publish" => list[Loop(w)] = disk
    /\ pc[Watch(w)] = "merge" => todo[Watch(w)] = <<>>
    /\ pc[Watch(w)] = "merge" /\ baseline[w] = mtime => list[Watch(w)] = disk
    /\ pc[Watch(w)] = "sleep" /\ baseline[w] = mtime => mem[w] = disk

LEMMA NextMemory ==
  ASSUME ~RootAMS, ~ReadErrors, ~SaveErrors, ~CoarseMtime, MaxBoots = 0
  PROVE  WriterInv /\ MemoryInv /\ [Next]_vars => MemoryInv'
<1>. SUFFICES ASSUME WriterInv, MemoryInv, [Next]_vars PROVE MemoryInv'
  OBVIOUS
<1>. USE ThreadFacts DEF MemoryInv, file
<1>1. CASE UNCHANGED vars
  BY <1>1 DEF vars
<1>2. TypeOK /\ LockInv /\ TmpInv
  BY DEF WriterInv
<1>3. ReadOutcomes = {disk}
  BY DEF ReadOutcomes
<1>4. ASSUME NEW w \in Workers, Edit(Loop(w)) PROVE MemoryInv'
  BY <1>2, <1>4 DEF Edit, Work, TypeOK
<1>5. ASSUME NEW w \in Workers PROVE ~Edit(Watch(w)) /\ ~Edit(Gis(w))
  BY DEF Edit
<1>6. ASSUME NEW w \in Workers PROVE ~Boot(w) /\ ~FinishBoot(w) /\ ~Reassert(w) /\ ~WatchBegin(w)
  <2>1. ~(boots < MaxBoots)
    BY <1>2 DEF TypeOK
  <2>. QED BY <2>1 DEF Boot, FinishBoot, Reassert, WatchBegin
<1>7. ASSUME NEW w \in Workers
      PROVE  ~SaveFails(w) /\ ~GisReload(w) /\ ~PublishMerged(w, Gis(w))
  BY DEF SaveFails, GisReload, PublishMerged
<1>8. ASSUME NEW w \in Workers, Crash(w) PROVE MemoryInv'
  <2>1. \A v \in Workers : Loop(v)[1] = v /\ Watch(v)[1] = v /\ Gis(v)[1] = v
    BY DEF Loop, Watch, Gis
  <2>2. \A v \in Workers : baseline'[v] = IF v = w THEN 0 ELSE baseline[v]
    BY <1>2, <1>8 DEF Crash, TypeOK
  <2>. QED BY <1>2, <1>8, <2>1, <2>2 DEF Crash, TypeOK
<1>9. ASSUME NEW w \in Workers, Request(w) \/ Unlock(w) PROVE MemoryInv'
  BY <1>2, <1>9 DEF Request, Unlock, Goto, Work, TypeOK
<1>10. ASSUME NEW w \in Workers, LockFile(w) \/ ReadFile(w) \/ Abort(w) PROVE MemoryInv'
  BY <1>2, <1>10 DEF LockFile, ReadFile, Abort, Goto, TypeOK
<1>11. ASSUME NEW w \in Workers, WriteTmp(w) PROVE MemoryInv'
  BY <1>2, <1>11 DEF WriteTmp, Goto, TypeOK
<1>12. ASSUME NEW w \in Workers, Replace(w) PROVE MemoryInv'
  <2>1. mtime' = mtime + 1 /\ disk' = list[Loop(w)]
    BY <1>2, <1>12 DEF Replace, TmpInv
  <2>2. \A v \in Workers : baseline'[v] = baseline[v] /\ baseline[v] \in Nat
    BY <1>2, <1>12 DEF Replace, TypeOK
  <2>3. \A v \in Workers : baseline'[v] <= mtime' /\ baseline'[v] # mtime'
    BY <1>2, <2>1, <2>2 DEF TypeOK
  <2>4. /\ \A t \in Threads : pc'[t] = IF t = Loop(w) THEN "publish" ELSE pc[t]
        /\ list' = list /\ todo' = todo
    BY <1>2, <1>12 DEF Replace, Goto, TypeOK
  <2>5. \A v \in Workers \ {w} : pc[Loop(v)] # "publish"
    BY <1>2, <1>12 DEF LockInv, Locked, Replace
  <2>. QED BY <2>1, <2>3, <2>4, <2>5
<1>13. ASSUME NEW w \in Workers, Publish(w) PROVE MemoryInv'
  BY <1>2, <1>13 DEF Publish, Goto, TypeOK
<1>14. ASSUME NEW w \in Workers, WatchPoll(w) PROVE MemoryInv'
  <2>1. \A v \in Workers : baseline'[v] <= mtime
    BY <1>2, <1>14 DEF WatchPoll, TypeOK
  <2>. QED BY <1>2, <1>14, <2>1 DEF WatchPoll, Goto, TypeOK
<1>15. ASSUME NEW w \in Workers, WatchRead(w) PROVE MemoryInv'
  <2>1. Work(Watch(w), disk, <<>>)
    BY <1>3, <1>15 DEF WatchRead
  <2>. QED BY <1>2, <1>15, <2>1 DEF WatchRead, Goto, Work, TypeOK
<1>16. ASSUME NEW w \in Workers, PublishMerged(w, Watch(w)) PROVE MemoryInv'
  <2>1. /\ pc[Watch(w)] = "merge" /\ pc'[Watch(w)] = "sleep"
        /\ \A t \in Threads \ {Watch(w)} : pc'[t] = pc[t] /\ list'[t] = list[t]
        /\ \A v \in Workers \ {w} : list'[Watch(v)] = list[Watch(v)]
                                  /\ todo'[Watch(v)] = todo[Watch(v)]
    BY <1>2, <1>16 DEF PublishMerged, Goto, Work, TypeOK
  <2>2. /\ mem'[w] = list[Watch(w)] /\ \A v \in Workers \ {w} : mem'[v] = mem[v]
        /\ UNCHANGED <<disk, mtime, baseline>>
    BY <1>2, <1>16 DEF PublishMerged, TypeOK
  <2>. QED BY <2>1, <2>2
<1>. QED
  BY <1>1, <1>4, <1>5, <1>6, <1>7, <1>8, <1>9, <1>10, <1>11, <1>12, <1>13, <1>14,
     <1>15, <1>16
  DEF Next, Write, WatchStep, GisStep

\* Workers that run from before the first write, on a node that is not a root
\* AMS, with a coverage file that can be read and written and whose mtime moves
\* at every save: a memory that differs from the file belongs to a worker whose
\* watcher will see it at its next poll.
THEOREM StaleIsNoticed ==
  ASSUME ~RootAMS, ~ReadErrors, ~SaveErrors, ~CoarseMtime,
         Up0 = Workers, MaxBoots = 0
  PROVE  Spec => []StaleMemoryIsNoticed
<1>1. Init => MemoryInv
  <2>. SUFFICES ASSUME Init, NEW w \in Workers
                PROVE  /\ pc[Loop(w)] = "idle" /\ pc[Watch(w)] = "sleep"
                       /\ pc[Gis(w)] = "sleep"
    BY DEF Init, MemoryInv
  <2>1. Loop(w)[1] = w /\ Watch(w)[1] = w /\ Gis(w)[1] = w
        /\ Loop(w)[2] = "loop" /\ Watch(w)[2] = "watch" /\ Gis(w)[2] = "gis"
    BY DEF Loop, Watch, Gis
  <2>. QED BY <2>1, ThreadFacts DEF Init
<1>2. MemoryInv => StaleMemoryIsNoticed
  BY DEF MemoryInv, StaleMemoryIsNoticed
<1>. QED BY <1>1, <1>2, NextMemory, WriterInvariant, PTL DEF Spec
=============================================================================

---------------------- MODULE FederationRoutingProofs ----------------------
(***************************************************************************)
(* Every findService query ends and every answer tells its way, for any    *)
(* number of servers, any parents and coverage entries, URIs shared or     *)
(* not, and any faults.  In a sound federation without faults the answer   *)
(* comes from the one node that has the location, whichever node is asked: *)
(* a query climbs from parent to parent until it meets the way down, and   *)
(* never comes back to a server.                                           *)
(***************************************************************************)
EXTENDS FederationRouting, FiniteSetTheorems, TLAPS

\* A server that handed a query on was not in the query's path.
LoopFree ==
  Finding =>
    \A i \in 1 .. Len(hops) :
      Forwarded(i) => \A k \in hops[i].head .. i - 1 : Own(k) # Own(i)

\* A server waits for the next hop, which is of the same request.
WaitsForNext ==
  \A i \in 1 .. Len(hops) : hops[i].state = "waiting" => Forwarded(i)

RoutingInv == RouteInv /\ LoopFree /\ WaitsForNext /\ PathTellsRoute

Blank(type, target) ==
  [type |-> type, by |-> None, target |-> target, path |-> <<>>]

\* What a hop is, but for its state and reply, which change later.
SameWay(H) ==
  /\ H \in Seq(HopType) /\ Len(H) = Len(hops)
  /\ \A k \in 1 .. Len(hops) :
       H[k].node = hops[k].node /\ H[k].via = hops[k].via /\ H[k].head = hops[k].head

\* A server decides for a reply it can make, or for someone to ask.
LEMMA DecisionType ==
  ASSUME TypeOK, NEW n \in Nodes
  PROVE  /\ Decision(n) \in [do: {"reply", "forward"},
                             type: {"none", "answer", "empty", "redirect", "notFound",
                                    "unavailable", "serviceNotImplemented",
                                    "badRequest", "forbidden"},
                             to: Nodes \cup {None, NoWhere}]
         /\ Decision(n).do = "forward" => Decision(n).to \in Nodes \cup {NoWhere}
<1>1. /\ net.parent[n] \in Nodes \cup {None}
      /\ net.match[n] \in Nodes \cup {None, NoServer}
  BY DEF TypeOK, Setup
<1>. DEFINE D == [do: {"reply", "forward"},
                  type: {"none", "answer", "empty", "redirect", "notFound",
                         "unavailable", "serviceNotImplemented", "badRequest", "forbidden"},
                  to: Nodes \cup {None, NoWhere}]
            Good(d) == d \in D /\ (d.do = "forward" => d.to \in Nodes \cup {NoWhere})
<1>2. \A t \in {"answer", "empty", "notFound", "unavailable", "serviceNotImplemented",
               "badRequest", "forbidden"} : Good(Say(t))
  BY DEF Say
<1>3. \A m \in Nodes \cup {NoWhere} : Good(HandTo(m)) /\ Good(RedirectTo(m))
  BY DEF HandTo, RedirectTo
<1>4. ListParent(n) \in Nodes \cup {NoWhere} \/ net.parent[n] \notin Nodes
  BY DEF ListParent
<1>5. ListChild(n) \in Nodes \cup {NoWhere}
  BY DEF ListChild
<1>. HIDE DEF Good
<1>6. Good(GuideFinds(n)) /\ Good(RoutingFinds(n)) /\ Good(GisFinds(n))
  BY <1>2, <1>3 DEF GuideFinds, RoutingFinds, GisFinds
<1>7. Good(GisLists(n)) /\ Good(RoutingLists(n))
  BY <1>2, <1>3, <1>4, <1>5 DEF GisLists, RoutingLists
<1>8. Good(Decision(n))
  BY <1>2, <1>6, <1>7 DEF Decision
<1>9. QED
  BY <1>8 DEF Good

\* A server's own URI ends the way to it.
LEMMA RouteNext ==
  ASSUME NEW h \in Nat \ {0}, NEW i \in Nat \ {0}, h <= i
  PROVE  Append(Route(h, i - 1), Own(i)) = Route(h, i)
BY DEF Route

LEMMA Backwards ==
  ASSUME NEW h \in Nat \ {0}, NEW i \in Nat, NEW k \in h .. i - 1
  PROVE  /\ k - h + 1 \in 1 .. i - 1 - h + 1
         /\ h + (k - h + 1) - 1 = k
OBVIOUS

\* A reply a server makes itself is one, and its path is the way so far.
LEMMA ReplyType ==
  ASSUME TypeOK, ViaTellsRoute, NEW i \in 1 .. Len(hops), NEW type, NEW target,
         Blank(type, target) \in Replies
  PROVE  /\ ReplyOf(i, type, target) \in Replies
         /\ type = "answer" /\ Finding =>
              ReplyOf(i, type, target).path = Route(hops[i].head, i)
<1>1. hops[i] \in HopType /\ Own(i) \in Uris
  <2>1. hops[i] \in HopType /\ net \in Setup
    BY DEF TypeOK
  <2>2. hops[i].node \in Nodes /\ net.uri \in [Nodes -> Uris]
    BY <2>1 DEF HopType, Setup
  <2>3. QED
    BY <2>1, <2>2 DEF Own
<1>2. PathOf(i, type) \in Seq(Uris)
  BY <1>1 DEF PathOf, HopType
<1>3. ReplyOf(i, type, target) \in Replies
  BY <1>1, <1>2 DEF ReplyOf, Replies, Blank, HopType
<1>4. ASSUME type = "answer", Finding PROVE PathOf(i, type) = Route(hops[i].head, i)
  <2>1. hops[i].via = Route(hops[i].head, i - 1) /\ hops[i].head \in 1 .. i
    BY <1>4 DEF ViaTellsRoute
  <2>2. PathOf(i, type) = Append(Route(hops[i].head, i - 1), Own(i))
    BY <1>4, <2>1 DEF PathOf
  <2>3. hops[i].head \in Nat \ {0} /\ i \in Nat \ {0} /\ hops[i].head <= i
    BY <2>1
  <2>4. QED
    BY <2>2, <2>3, RouteNext
<1>5. QED
  BY <1>3, <1>4 DEF ReplyOf

\* Changing one element of a sequence.
LEMMA ExceptSeq ==
  ASSUME NEW S, NEW s \in Seq(S), NEW i \in 1 .. Len(s), NEW e \in S
  PROVE  LET t == [s EXCEPT ![i] = e]
         IN /\ t \in Seq(S) /\ Len(t) = Len(s) /\ t[i] = e
            /\ \A k \in 1 .. Len(s) : k # i => t[k] = s[k]
OBVIOUS

LEMMA Between ==
  ASSUME NEW h \in Nat \ {0}, NEW j \in Nat, NEW n \in Nat, j <= n, NEW l \in 1 .. j - h + 1
  PROVE  h + l - 1 \in 1 .. n
OBVIOUS

\* A hop that is done keeps its way, and has a reply that tells it.
LEMMA DonePreserves ==
  ASSUME RoutingInv, NEW i \in 1 .. Len(hops), NEW reply \in Replies,
         Done(i, reply), UNCHANGED still, faults' \in 0 .. MaxFaults,
         reply.type = "answer" /\ Finding =>
           \E j \in i .. Len(hops) : /\ hops[j].node = reply.by
                                    /\ hops[j].head = hops[i].head
                                    /\ reply.path = Route(hops[i].head, j)
  PROVE  RoutingInv'
<1>. USE DEF RoutingInv, RouteInv
<1>1. hops \in Seq(HopType)
  BY DEF TypeOK
<1>2. /\ hops' \in Seq(HopType) /\ Len(hops') = Len(hops)
      /\ \A k \in 1 .. Len(hops) : /\ hops'[k].node = hops[k].node
                                  /\ hops'[k].via = hops[k].via
                                  /\ hops'[k].head = hops[k].head
      /\ \A k \in (1 .. Len(hops)) \ {i} : hops'[k] = hops[k]
      /\ hops'[i].state = "done" /\ hops'[i].reply = reply
  <2>. DEFINE new == [[hops[i] EXCEPT !.state = "done"] EXCEPT !.reply = reply]
  <2>1. hops[i] \in HopType
    BY <1>1
  <2>2. /\ new \in HopType /\ new.state = "done" /\ new.reply = reply
        /\ new.node = hops[i].node /\ new.via = hops[i].via /\ new.head = hops[i].head
    BY <2>1 DEF HopType
  <2>3. hops' = [hops EXCEPT ![i] = new]
    BY DEF Done
  <2>. HIDE DEF new
  <2>4. /\ hops' \in Seq(HopType) /\ Len(hops') = Len(hops) /\ hops'[i] = new
        /\ \A k \in 1 .. Len(hops) : k # i => hops'[k] = hops[k]
    BY <1>1, <2>2, <2>3, ExceptSeq
  <2>5. QED
    BY <2>2, <2>4
<1>3. net' = net /\ (Finding' <=> Finding)
  BY DEF still, Finding
<1>4. TypeOK'
  BY <1>2 DEF TypeOK, still
<1>5. \A k \in 1 .. Len(hops) : Own(k)' = Own(k)
  BY <1>2, <1>3 DEF Own
<1>6. \A k \in 1 .. Len(hops) : hops[k].head \in 1 .. k
  BY DEF ViaTellsRoute
<1>7. ViaTellsRoute'
  <2>. SUFFICES ASSUME NEW k \in 1 .. Len(hops')
                PROVE  /\ hops'[k].head \in 1 .. k
                       /\ hops'[k].head < k => hops'[k - 1].head = hops'[k].head
                       /\ hops'[k].via =
                            IF Finding'
                            THEN [l \in 1 .. k - 1 - hops'[k].head + 1 |->
                                    net'.uri[hops'[hops'[k].head + l - 1].node]]
                            ELSE <<>>
                       /\ k < Len(hops') => hops'[k].state # "sent"
    BY DEF ViaTellsRoute, Route, Own
  <2>0. k \in 1 .. Len(hops)
    BY <1>2
  <2>1. hops'[k].via = IF Finding
                       THEN [l \in 1 .. k - 1 - hops[k].head + 1 |-> Own(hops[k].head + l - 1)]
                       ELSE <<>>
    BY <1>2, <2>0 DEF ViaTellsRoute, Route
  <2>2. hops[k].head \in Nat \ {0} /\ k - 1 \in Nat /\ k - 1 <= Len(hops) /\ Len(hops) \in Nat
    BY <1>1, <1>6, <2>0
  <2>3. ASSUME NEW l \in 1 .. k - 1 - hops[k].head + 1
        PROVE  net.uri[hops'[hops[k].head + l - 1].node] = Own(hops[k].head + l - 1)
    <3>1. hops[k].head + l - 1 \in 1 .. Len(hops)
      BY <2>2, <2>3, Between
    <3>2. QED
      BY <1>2, <3>1 DEF Own
  <2>4. hops[k].head < k => k - 1 \in 1 .. Len(hops)
    BY <1>6, <2>0
  <2>5. QED
    <3>1. hops'[k].via = IF Finding
                         THEN [l \in 1 .. k - 1 - hops'[k].head + 1 |->
                                 net.uri[hops'[hops'[k].head + l - 1].node]]
                         ELSE <<>>
      <4>1. hops'[k].head = hops[k].head
        BY <1>2, <2>0
      <4>2. CASE Finding
        BY <2>1, <2>3, <4>1, <4>2
      <4>3. CASE ~Finding
        BY <2>1, <4>3
      <4>4. QED
        BY <4>2, <4>3
    <3>2. k < Len(hops) => hops'[k].state # "sent"
      BY <1>2, <2>0 DEF ViaTellsRoute
    <3>3. hops'[k].head < k => hops'[k - 1].head = hops'[k].head
      BY <1>2, <2>0, <2>4 DEF ViaTellsRoute
    <3>4. QED
      BY <1>2, <1>3, <1>6, <2>0, <3>1, <3>2, <3>3
<1>8. \A k \in 1 .. Len(hops) : Forwarded(k)' <=> Forwarded(k)
  BY <1>1, <1>2 DEF Forwarded
<1>9. LoopFree' /\ WaitsForNext'
  <2>1. ASSUME Finding, NEW k \in 1 .. Len(hops), Forwarded(k), NEW l \in hops[k].head .. k - 1
        PROVE  Own(l)' # Own(k)'
    <3>1. Own(l) # Own(k)
      BY <2>1 DEF LoopFree
    <3>2. l \in 1 .. Len(hops)
      BY <1>1, <1>6
    <3>3. QED
      BY <1>5, <3>1, <3>2
  <2>2. LoopFree'
    BY <1>2, <1>3, <1>8, <2>1 DEF LoopFree
  <2>3. WaitsForNext'
    BY <1>2, <1>8 DEF WaitsForNext
  <2>4. QED
    BY <2>2, <2>3
<1>10. PathTellsRoute'
  <2>. SUFFICES ASSUME Finding', NEW k \in 1 .. Len(hops'), hops'[k].reply.type = "answer"
                PROVE  \E j \in k .. Len(hops') :
                         /\ hops'[j].node = hops'[k].reply.by
                         /\ hops'[j].head = hops'[k].head
                         /\ hops'[k].reply.path =
                              [l \in 1 .. j - hops'[k].head + 1 |->
                                 net'.uri[hops'[hops'[k].head + l - 1].node]]
    BY DEF PathTellsRoute, Route, Own
  <2>0. Finding /\ k \in 1 .. Len(hops)
    BY <1>2, <1>3
  <2>1. PICK j \in k .. Len(hops) :
          /\ hops[j].node = hops'[k].reply.by
          /\ hops[j].head = hops[k].head
          /\ hops'[k].reply.path =
               [l \in 1 .. j - hops[k].head + 1 |-> Own(hops[k].head + l - 1)]
    <3>1. CASE k = i
      <4>1. hops'[k].reply = reply
        BY <1>2, <3>1
      <4>2. PICK j \in i .. Len(hops) : /\ hops[j].node = reply.by
                                       /\ hops[j].head = hops[i].head
                                       /\ reply.path = Route(hops[i].head, j)
        BY <2>0, <4>1
      <4>3. QED
        BY <3>1, <4>1, <4>2 DEF Route
    <3>2. CASE k # i
      <4>1. hops'[k] = hops[k]
        BY <1>2, <2>0, <3>2
      <4>2. hops[k].reply.type = "answer"
        BY <4>1
      <4>3. PICK j \in k .. Len(hops) :
              /\ hops[j].node = hops[k].reply.by
              /\ hops[j].head = hops[k].head
              /\ hops[k].reply.path = Route(hops[k].head, j)
        BY <2>0, <4>2 DEF PathTellsRoute, RoutingInv
      <4>4. QED
        BY <4>1, <4>3 DEF Route
    <3>3. QED
      BY <3>1, <3>2
  <2>2. hops[k].head \in Nat \ {0} /\ j \in Nat /\ j <= Len(hops) /\ Len(hops) \in Nat
    BY <1>1, <1>6, <2>0
  <2>3. ASSUME NEW l \in 1 .. j - hops[k].head + 1
        PROVE  net.uri[hops'[hops[k].head + l - 1].node] = Own(hops[k].head + l - 1)
    <3>1. hops[k].head + l - 1 \in 1 .. Len(hops)
      BY <2>2, <2>3, Between
    <3>2. QED
      BY <1>2, <3>1 DEF Own
  <2>4. j \in 1 .. Len(hops)
    BY <1>1
  <2>5. QED
    <3>1. hops'[k].head = hops[k].head /\ net' = net
      BY <1>2, <1>3, <2>0
    <3>2. hops'[k].reply.path = [l \in 1 .. j - hops'[k].head + 1 |->
                                   net'.uri[hops'[hops'[k].head + l - 1].node]]
      BY <2>1, <2>3, <3>1
    <3>3. QED
      BY <1>2, <2>1, <2>4, <3>1, <3>2
<1>11. QED
  BY <1>4, <1>7, <1>9, <1>10

\* A new hop goes on from the last one, or starts a request of the client.
LEMMA AppendPreserves ==
  ASSUME RoutingInv, NEW H, SameWay(H), NEW to \in Nodes, NEW via, NEW head \in Nat \ {0},
         hops' = Append(H, Hop(to, via, head)), UNCHANGED <<net, query>>,
         follows' \in 0 .. MaxFollows, faults' \in 0 .. MaxFaults,
         head \in 1 .. Len(hops) + 1,
         head <= Len(hops) => hops[Len(hops)].head = head,
         via = IF Finding THEN Route(head, Len(hops)) ELSE <<>>,
         \A k \in 1 .. Len(hops) :
           /\ H[k].state # "sent" /\ H[k].reply = hops[k].reply
           /\ H[k].state = "waiting" =>
                hops[k].state = "waiting" \/ (k = Len(hops) /\ head <= Len(hops)),
         Finding /\ head <= Len(hops) =>
           \A k \in head .. Len(hops) - 1 : Own(k) # Own(Len(hops))
  PROVE  RoutingInv'
<1>. USE DEF RoutingInv, RouteInv
<1>. DEFINE L == Len(hops)
            new == Hop(to, via, head)
<1>1. /\ hops \in Seq(HopType) /\ H \in Seq(HopType) /\ L \in Nat /\ Len(H) = L
      /\ \A k \in 1 .. L :
           H[k].node = hops[k].node /\ H[k].via = hops[k].via /\ H[k].head = hops[k].head
  BY DEF TypeOK, SameWay
<1>2. \A k \in 1 .. L : hops[k].head \in 1 .. k /\ Own(k) \in Uris
  <2>1. ASSUME NEW k \in 1 .. L PROVE Own(k) \in Uris
    <3>1. hops[k] \in HopType /\ net \in Setup
      BY <1>1, <2>1 DEF TypeOK
    <3>2. hops[k].node \in Nodes /\ net.uri \in [Nodes -> Uris]
      BY <3>1 DEF HopType, Setup
    <3>3. QED
      BY <3>2 DEF Own
  <2>2. QED
    BY <2>1 DEF ViaTellsRoute
<1>3. via \in Seq(Uris)
  <2>1. CASE Finding
    <3>1. \A k \in 1 .. L - head + 1 : head + k - 1 \in 1 .. L
      OBVIOUS
    <3>2. Route(head, L) \in Seq(Uris)
      BY <1>1, <1>2, <3>1 DEF Route
    <3>3. QED
      BY <2>1, <3>2
  <2>2. CASE ~Finding
    BY <2>2
  <2>3. QED
    BY <2>1, <2>2
<1>4. /\ new \in HopType /\ new.node = to /\ new.via = via /\ new.head = head
      /\ new.state = "sent" /\ new.reply.type = "none"
  <2>1. NoReply \in Replies /\ NoReply.type = "none"
    BY DEF NoReply, Replies
  <2>2. QED
    BY <1>3, <2>1 DEF Hop, HopType
<1>. HIDE DEF new
<1>5. /\ hops' \in Seq(HopType) /\ Len(hops') = L + 1
      /\ hops'[L + 1] = new
      /\ \A k \in 1 .. L : hops'[k] = H[k]
  <2>1. hops' = Append(H, new)
    BY DEF new
  <2>2. QED
    BY <1>1, <1>4, <2>1
<1>. HIDE DEF L
<1>6. /\ \A k \in 1 .. L : /\ hops'[k].node = hops[k].node /\ hops'[k].via = hops[k].via
                          /\ hops'[k].head = hops[k].head /\ hops'[k].reply = hops[k].reply
                          /\ hops'[k].state # "sent"
      /\ net' = net /\ (Finding' <=> Finding)
  BY <1>1, <1>5 DEF Finding, L
<1>7. \A k \in 1 .. L : net'.uri[hops'[k].node] = Own(k)
  BY <1>6 DEF Own
<1>8. TypeOK'
  BY <1>5 DEF TypeOK
<1>9. ViaTellsRoute'
  <2>. SUFFICES ASSUME NEW k \in 1 .. Len(hops')
                PROVE  /\ hops'[k].head \in 1 .. k
                       /\ hops'[k].head < k => hops'[k - 1].head = hops'[k].head
                       /\ hops'[k].via =
                            IF Finding'
                            THEN [l \in 1 .. k - 1 - hops'[k].head + 1 |->
                                    net'.uri[hops'[hops'[k].head + l - 1].node]]
                            ELSE <<>>
                       /\ k < Len(hops') => hops'[k].state # "sent"
    BY DEF ViaTellsRoute, Route, Own
  <2>1. k \in 1 .. L \/ k = L + 1
    BY <1>1, <1>5
  <2>2. hops'[k].head \in 1 .. k /\ k - 1 \in Nat /\ k - 1 <= L
    BY <1>1, <1>2, <1>4, <1>5, <1>6, <2>1 DEF L
  <2>3. hops'[k].via = IF Finding
                       THEN [l \in 1 .. k - 1 - hops'[k].head + 1 |-> Own(hops'[k].head + l - 1)]
                       ELSE <<>>
    <3>1. CASE k \in 1 .. L
      <4>1. hops'[k].via = hops[k].via /\ hops'[k].head = hops[k].head
        BY <1>6, <3>1
      <4>2. QED
        BY <3>1, <4>1 DEF ViaTellsRoute, Route, L
    <3>2. CASE k = L + 1
      <4>1. hops'[k].via = via /\ hops'[k].head = head /\ k - 1 = L
        BY <1>1, <1>4, <1>5, <3>2
      <4>2. QED
        BY <4>1 DEF Route, L
    <3>3. QED
      BY <2>1, <3>1, <3>2
  <2>4. ASSUME NEW l \in 1 .. k - 1 - hops'[k].head + 1
        PROVE  net'.uri[hops'[hops'[k].head + l - 1].node] = Own(hops'[k].head + l - 1)
    <3>1. hops'[k].head \in Nat \ {0} /\ k - 1 \in Nat
      BY SMTT(30), <2>2
    <3>2. hops'[k].head + l - 1 \in 1 .. L
      BY <1>1, <2>2, <2>4, <3>1, Between
    <3>3. QED
      BY <1>7, <3>2
  <2>5. hops'[k].via = IF Finding'
                       THEN [l \in 1 .. k - 1 - hops'[k].head + 1 |->
                               net'.uri[hops'[hops'[k].head + l - 1].node]]
                       ELSE <<>>
    <3>1. CASE Finding
      <4>1. [l \in 1 .. k - 1 - hops'[k].head + 1 |-> Own(hops'[k].head + l - 1)]
              = [l \in 1 .. k - 1 - hops'[k].head + 1 |->
                   net'.uri[hops'[hops'[k].head + l - 1].node]]
        BY <2>4, Zenon
      <4>2. QED
        BY <1>6, <2>3, <3>1, <4>1
    <3>2. CASE ~Finding
      BY <1>6, <2>3, <3>2
    <3>3. QED
      BY <3>1, <3>2
  <2>6. k < Len(hops') => hops'[k].state # "sent"
    BY <1>1, <1>5, <1>6, <2>1
  <2>7. hops'[k].head < k => hops'[k - 1].head = hops'[k].head
    <3>1. CASE k \in 1 .. L
      <4>1. hops'[k].head = hops[k].head /\ (hops[k].head < k => k - 1 \in 1 .. L)
        BY <1>1, <1>2, <1>6, <3>1
      <4>2. hops[k].head < k => hops[k - 1].head = hops[k].head
        BY <3>1 DEF ViaTellsRoute, L
      <4>3. QED
        BY <1>6, <4>1, <4>2
    <3>2. CASE k = L + 1
      <4>1. hops'[k].head = head /\ k - 1 = L /\ (head < k => L \in 1 .. L)
        BY <1>1, <1>4, <1>5, <3>2
      <4>2. head < k => hops[L].head = head
        BY <1>1, <3>2 DEF L
      <4>3. QED
        BY <1>6, <4>1, <4>2
    <3>3. QED
      BY <2>1, <3>1, <3>2
  <2>8. hops'[k].head \in 1 .. k
    BY <2>2
  <2>9. QED
    BY <2>5, <2>6, <2>7, <2>8
<1>10. ASSUME NEW k \in 1 .. Len(hops'), Forwarded(k)'
       PROVE  k \in 1 .. L /\ (Forwarded(k) \/ (k = L /\ head <= L /\ hops[L].head = head))
  <2>1. k < L + 1 /\ hops'[k + 1].head = hops'[k].head
    BY <1>1, <1>5, <1>10 DEF Forwarded
  <2>2. k \in 1 .. L
    BY <1>1, <1>10, <2>1
  <2>3. CASE k < L
    <3>1. k + 1 \in 1 .. L
      BY <1>1, <2>2, <2>3
    <3>2. hops[k + 1].head = hops[k].head
      BY <1>6, <2>1, <2>2, <3>1
    <3>3. QED
      BY <2>2, <2>3, <3>2 DEF Forwarded, L
  <2>4. CASE k = L
    <3>1. hops[L].head = head
      BY <1>4, <1>5, <1>6, <2>1, <2>2, <2>4
    <3>2. head <= L
      BY <1>1, <1>2, <2>2, <2>4, <3>1
    <3>3. QED
      BY <2>2, <2>4, <3>1, <3>2
  <2>5. QED
    BY <1>1, <2>2, <2>3, <2>4
<1>11. LoopFree'
  <2>. SUFFICES ASSUME Finding', NEW k \in 1 .. Len(hops'), Forwarded(k)',
                       NEW l \in hops'[k].head .. k - 1
                PROVE  net'.uri[hops'[l].node] # net'.uri[hops'[k].node]
    BY DEF LoopFree, Own
  <2>1. k \in 1 .. L /\ (Forwarded(k) \/ (k = L /\ head <= L /\ hops[L].head = head))
    BY <1>10
  <2>2. hops'[k].head = hops[k].head /\ hops[k].head \in 1 .. k /\ Finding
    BY <1>2, <1>6, <2>1
  <2>3. l \in hops[k].head .. k - 1 /\ l \in 1 .. L
    BY SMTT(30), <1>1, <2>1, <2>2
  <2>4. Own(l) # Own(k)
    <3>1. CASE Forwarded(k)
      BY <2>1, <2>2, <2>3, <3>1 DEF LoopFree, L
    <3>2. CASE k = L /\ head <= L /\ hops[L].head = head
      BY <2>2, <2>3, <3>2 DEF L
    <3>3. QED
      BY <2>1, <3>1, <3>2
  <2>5. QED
    BY <1>7, <2>1, <2>3, <2>4
<1>12. WaitsForNext'
  <2>. SUFFICES ASSUME NEW k \in 1 .. Len(hops'), hops'[k].state = "waiting"
                PROVE  k < Len(hops') /\ hops'[k + 1].head = hops'[k].head
    BY DEF WaitsForNext, Forwarded
  <2>1. k \in 1 .. L
    BY <1>1, <1>4, <1>5
  <2>2. hops[k].state = "waiting" \/ (k = L /\ head <= L)
    BY <1>5, <2>1 DEF L
  <2>3. CASE hops[k].state = "waiting"
    <3>1. k < L /\ hops[k + 1].head = hops[k].head
      BY <2>1, <2>3 DEF WaitsForNext, Forwarded, L
    <3>2. k + 1 \in 1 .. L
      BY <1>1, <2>1, <3>1
    <3>3. QED
      BY <1>1, <1>5, <1>6, <2>1, <3>1, <3>2
  <2>4. CASE k = L /\ head <= L
    <3>1. hops[L].head = head
      BY <2>4 DEF L
    <3>2. QED
      BY <1>1, <1>4, <1>5, <1>6, <2>1, <2>4, <3>1
  <2>5. QED
    BY <2>2, <2>3, <2>4
<1>13. PathTellsRoute'
  <2>. SUFFICES ASSUME Finding', NEW k \in 1 .. Len(hops'), hops'[k].reply.type = "answer"
                PROVE  \E j \in k .. Len(hops') :
                         /\ hops'[j].node = hops'[k].reply.by
                         /\ hops'[j].head = hops'[k].head
                         /\ hops'[k].reply.path =
                              [l \in 1 .. j - hops'[k].head + 1 |->
                                 net'.uri[hops'[hops'[k].head + l - 1].node]]
    BY DEF PathTellsRoute, Route, Own
  <2>1. k \in 1 .. L /\ Finding
    BY <1>1, <1>4, <1>5, <1>6
  <2>2. hops'[k].reply = hops[k].reply /\ hops'[k].head = hops[k].head
    BY <1>6, <2>1
  <2>3. PICK j \in k .. L :
          /\ hops[j].node = hops[k].reply.by
          /\ hops[j].head = hops[k].head
          /\ hops[k].reply.path =
               [l \in 1 .. j - hops[k].head + 1 |-> Own(hops[k].head + l - 1)]
    BY <2>1, <2>2 DEF PathTellsRoute, Route, L
  <2>4. /\ hops[k].head \in Nat \ {0} /\ j \in Nat /\ j <= L
        /\ j \in 1 .. L /\ j \in k .. Len(hops')
    BY <1>1, <1>2, <1>5, <2>1
  <2>5. ASSUME NEW l \in 1 .. j - hops'[k].head + 1
        PROVE  net'.uri[hops'[hops'[k].head + l - 1].node] = Own(hops[k].head + l - 1)
    <3>1. hops[k].head + l - 1 \in 1 .. L
      BY <1>1, <2>2, <2>4, <2>5, Between
    <3>2. QED
      BY <1>7, <2>2, <3>1
  <2>6. hops'[k].reply.path = [l \in 1 .. j - hops'[k].head + 1 |->
                                 net'.uri[hops'[hops'[k].head + l - 1].node]]
    BY ZenonT(30), <2>2, <2>3, <2>5
  <2>7. hops'[j].node = hops'[k].reply.by /\ hops'[j].head = hops'[k].head
    BY <1>6, <2>2, <2>3, <2>4
  <2>8. QED
    BY <2>4, <2>6, <2>7
<1>14. QED
  BY <1>8, <1>9, <1>11, <1>12, <1>13

LEMMA InitRouting == Init => RoutingInv
<1>. SUFFICES ASSUME Init PROVE RoutingInv
  OBVIOUS
<1>1. PICK n \in Nodes : hops = <<Hop(n, <<>>, 1)>>
  BY DEF Init
<1>2. Hop(n, <<>>, 1) \in HopType
  <2>1. NoReply \in Replies
    BY DEF NoReply, Replies
  <2>2. QED
    BY <2>1 DEF Hop, HopType
<1>3. /\ hops \in Seq(HopType) /\ Len(hops) = 1 /\ hops[1].head = 1 /\ hops[1].via = <<>>
      /\ hops[1].state = "sent" /\ hops[1].reply.type = "none"
  BY <1>1, <1>2 DEF Hop, NoReply
<1>4. TypeOK
  BY <1>3, FederationRoutingAssumption DEF Init, TypeOK
<1>5. Route(1, 0) = <<>>
  BY DEF Route
<1>6. ViaTellsRoute
  BY <1>3, <1>5 DEF ViaTellsRoute
<1>7. LoopFree /\ WaitsForNext /\ PathTellsRoute
  BY <1>3 DEF LoopFree, WaitsForNext, PathTellsRoute, Forwarded
<1>8. QED
  BY <1>4, <1>6, <1>7 DEF RoutingInv, RouteInv

\* The replies a server makes without asking another one.
LEMMA OwnReplyPreserves ==
  ASSUME RoutingInv, NEW i \in 1 .. Len(hops), NEW type, NEW target,
         Blank(type, target) \in Replies,
         Done(i, ReplyOf(i, type, target)), UNCHANGED still, faults' \in 0 .. MaxFaults
  PROVE  RoutingInv'
<1>. DEFINE reply == ReplyOf(i, type, target)
<1>1. /\ reply \in Replies
      /\ type = "answer" /\ Finding => reply.path = Route(hops[i].head, i)
  BY ReplyType DEF RoutingInv, RouteInv
<1>2. reply.type = type /\ reply.by = hops[i].node
  BY DEF ReplyOf
<1>3. i \in i .. Len(hops)
  BY DEF RoutingInv, RouteInv, TypeOK
<1>. HIDE DEF reply
<1>4. Done(i, reply)
  BY DEF reply
<1>5. reply.type = "answer" /\ Finding =>
        \E j \in i .. Len(hops) : /\ hops[j].node = reply.by
                                 /\ hops[j].head = hops[i].head
                                 /\ reply.path = Route(hops[i].head, j)
  BY <1>1, <1>2, <1>3
<1>6. QED
  BY <1>1, <1>4, <1>5, DonePreserves

\* The kinds of reply a server makes, as the types they are.
LEMMA OwnReplies ==
  ASSUME NEW target \in Nodes \cup {None, NoWhere},
         NEW type \in {"none", "answer", "empty", "redirect", "notFound", "unavailable",
                       "serviceNotImplemented", "badRequest", "forbidden", "loop",
                       "shed", "serverError", "serverTimeout"}
  PROVE  Blank(type, target) \in Replies
BY DEF Blank, Replies

LEMMA ForwardPreserves ==
  ASSUME RoutingInv, NEW i \in 1 .. Len(hops), Forward(i)
  PROVE  RoutingInv'
<1>. DEFINE to == Decision(hops[i].node).to
<1>1. /\ hops \in Seq(HopType) /\ hops[i] \in HopType /\ i = Len(hops) /\ TypeOK
      /\ UNCHANGED <<still, faults>> /\ faults' \in 0 .. MaxFaults /\ ~HasLoop(i)
      /\ hops[i].state = "sent"
  BY DEF RoutingInv, RouteInv, TypeOK, Forward, Current
<1>2. hops[i].node \in Nodes /\ hops[i].head \in Nat \ {0}
  BY <1>1 DEF HopType
<1>3. to \in Nodes \cup {NoWhere}
  BY <1>1, <1>2, DecisionType DEF Forward
<1>4. CASE to = NoWhere
  <2>1. Blank("serverError", None) \in Replies
    BY OwnReplies
  <2>2. Done(i, ReplyOf(i, "serverError", None))
    BY <1>4 DEF Forward
  <2>3. QED
    BY <1>1, <2>1, <2>2, OwnReplyPreserves
<1>5. CASE to # NoWhere
  <2>. DEFINE waiting == [hops[i] EXCEPT !.state = "waiting"]
              H == [hops EXCEPT ![i] = waiting]
  <2>1. hops' = Append(H, Hop(to, NextVia(i), hops[i].head)) /\ to \in Nodes
    BY <1>3, <1>5 DEF Forward
  <2>2. /\ waiting \in HopType /\ waiting.state = "waiting" /\ waiting.reply = hops[i].reply
        /\ waiting.node = hops[i].node /\ waiting.via = hops[i].via
        /\ waiting.head = hops[i].head
    BY <1>1 DEF HopType
  <2>. HIDE DEF waiting, to
  <2>3. /\ H \in Seq(HopType) /\ Len(H) = Len(hops) /\ H[i] = waiting
        /\ \A k \in 1 .. Len(hops) : k # i => H[k] = hops[k]
    BY <1>1, <2>2, ExceptSeq
  <2>. HIDE DEF H
  <2>4. SameWay(H)
    BY <2>2, <2>3 DEF SameWay
  <2>5. hops[i].head \in 1 .. i /\ hops[i].head <= Len(hops) /\ i \in Nat
    BY <1>1 DEF RoutingInv, RouteInv, ViaTellsRoute
  <2>6. Finding => hops[i].via = Route(hops[i].head, i - 1)
    BY DEF RoutingInv, RouteInv, ViaTellsRoute
  <2>7. ASSUME Finding PROVE NextVia(i) = Route(hops[i].head, i)
    <3>1. NextVia(i) = Append(Route(hops[i].head, i - 1), Own(i))
      BY <2>6, <2>7 DEF NextVia
    <3>2. hops[i].head \in Nat \ {0} /\ i \in Nat \ {0} /\ hops[i].head <= i
      BY <2>5
    <3>3. Append(Route(hops[i].head, i - 1), Own(i)) = Route(hops[i].head, i)
      BY <3>2, RouteNext
    <3>4. QED
      BY <3>1, <3>3
  <2>8. ~Finding => NextVia(i) = <<>>
    BY DEF NextVia, RoutingInv, RouteInv, ViaTellsRoute
  <2>9. ASSUME Finding, NEW k \in hops[i].head .. i - 1
        PROVE  Own(k) # Own(i)
    <3>. DEFINE l == k - hops[i].head + 1
    <3>1. l \in 1 .. i - 1 - hops[i].head + 1 /\ hops[i].head + l - 1 = k
      BY <1>2, <2>5, <2>9, Backwards
    <3>2. hops[i].via[l] = Own(k) /\ Len(hops[i].via) = i - 1 - hops[i].head + 1
      BY <2>5, <2>6, <2>9, <3>1 DEF Route
    <3>3. \A m \in 1 .. Len(hops[i].via) : hops[i].via[m] # Own(i)
      BY <1>1, <2>9 DEF HasLoop, Contains
    <3>4. QED
      BY <3>1, <3>2, <3>3
  <2>10. \A k \in 1 .. Len(hops) :
           /\ H[k].state # "sent" /\ H[k].reply = hops[k].reply
           /\ H[k].state = "waiting" =>
                hops[k].state = "waiting" \/ (k = Len(hops) /\ hops[i].head <= Len(hops))
    <3>1. \A k \in 1 .. Len(hops) : k < Len(hops) => hops[k].state # "sent"
      BY DEF RoutingInv, RouteInv, ViaTellsRoute
    <3>2. QED
      BY <1>1, <2>2, <2>3, <2>5, <3>1
  <2>11. NextVia(i) = IF Finding THEN Route(hops[i].head, Len(hops)) ELSE <<>>
    BY <1>1, <2>7, <2>8
  <2>12. hops[i].head \in 1 .. Len(hops) + 1 /\ hops[Len(hops)].head = hops[i].head
    BY <1>1, <2>5
  <2>13. Finding /\ hops[i].head <= Len(hops) =>
           \A k \in hops[i].head .. Len(hops) - 1 : Own(k) # Own(Len(hops))
    BY <1>1, <2>9
  <2>14. UNCHANGED <<net, query>> /\ follows' \in 0 .. MaxFollows
    BY <1>1 DEF still, TypeOK
  <2>15. QED
    BY <1>1, <1>2, <2>1, <2>4, <2>10, <2>11, <2>12, <2>13, <2>14, AppendPreserves
<1>6. QED
  BY <1>4, <1>5

LEMMA FollowPreserves ==
  ASSUME RoutingInv, Follow
  PROVE  RoutingInv'
<1>. DEFINE to == ClientReply.target
            start == Len(hops) + 1
<1>1. /\ hops \in Seq(HopType) /\ to \in Nodes /\ start \in Nat \ {0} /\ Len(hops) \in Nat
      /\ hops' = Append(hops, Hop(to, <<>>, start)) /\ UNCHANGED <<net, query>>
      /\ follows' \in 0 .. MaxFollows /\ faults' \in 0 .. MaxFaults
  BY FederationRoutingAssumption DEF RoutingInv, RouteInv, TypeOK, Follow
<1>2. SameWay(hops)
  BY <1>1 DEF SameWay
<1>3. <<>> = IF Finding THEN Route(start, Len(hops)) ELSE <<>>
  BY <1>1 DEF Route
<1>4. \A k \in 1 .. Len(hops) :
        /\ hops[k].state # "sent" /\ hops[k].reply = hops[k].reply
        /\ hops[k].state = "waiting" =>
             hops[k].state = "waiting" \/ (k = Len(hops) /\ start <= Len(hops))
  BY DEF Follow, AllDone
<1>5. /\ start \in 1 .. Len(hops) + 1
      /\ start <= Len(hops) => hops[Len(hops)].head = start
      /\ Finding /\ start <= Len(hops) =>
           \A k \in start .. Len(hops) - 1 : Own(k) # Own(Len(hops))
  BY <1>1
<1>. HIDE DEF to, start
<1>6. QED
  BY <1>1, <1>2, <1>3, <1>4, <1>5, AppendPreserves

LEMMA ReturnPreserves ==
  ASSUME RoutingInv, NEW i \in 1 .. Len(hops), Return(i)
  PROVE  RoutingInv'
<1>1. /\ hops \in Seq(HopType) /\ i < Len(hops) /\ Forwarded(i) /\ i + 1 \in 1 .. Len(hops)
      /\ UNCHANGED still /\ faults' \in 0 .. MaxFaults
  BY DEF RoutingInv, RouteInv, TypeOK, WaitsForNext, Return, Awaits
<1>2. CASE hops[i + 1].reply.type = "shed"
  <2>1. Blank("serverError", None) \in Replies
    BY OwnReplies
  <2>2. Done(i, ReplyOf(i, "serverError", None))
    BY <1>2 DEF Return
  <2>3. QED
    BY <1>1, <2>1, <2>2, OwnReplyPreserves
<1>3. CASE hops[i + 1].reply.type # "shed"
  <2>. DEFINE reply == hops[i + 1].reply
  <2>1. Done(i, reply)
    BY <1>3 DEF Return
  <2>2. hops[i + 1] \in HopType
    BY <1>1
  <2>3. reply \in Replies
    BY <2>2 DEF HopType
  <2>4. ASSUME reply.type = "answer", Finding
        PROVE  \E j \in i .. Len(hops) : /\ hops[j].node = reply.by
                                         /\ hops[j].head = hops[i].head
                                         /\ reply.path = Route(hops[i].head, j)
    <3>1. PICK j \in i + 1 .. Len(hops) : /\ hops[j].node = reply.by
                                         /\ hops[j].head = hops[i + 1].head
                                         /\ reply.path = Route(hops[i + 1].head, j)
      BY <1>1, <2>4 DEF RoutingInv, PathTellsRoute
    <3>2. j \in i .. Len(hops) /\ hops[i + 1].head = hops[i].head
      BY <1>1 DEF Forwarded
    <3>3. QED
      BY <3>1, <3>2
  <2>. HIDE DEF reply
  <2>5. QED
    BY <1>1, <2>1, <2>3, <2>4, DonePreserves
<1>4. QED
  BY <1>2, <1>3

LEMMA NextRouting == RoutingInv /\ [Next]_vars => RoutingInv'
<1>. SUFFICES ASSUME RoutingInv, [Next]_vars PROVE RoutingInv'
  OBVIOUS
<1>1. /\ TypeOK /\ MaxFaults \in Nat
      /\ \A i \in 1 .. Len(hops) : hops[i] \in HopType
  BY FederationRoutingAssumption DEF RoutingInv, RouteInv, TypeOK
<1>2. ASSUME NEW i \in 1 .. Len(hops), Handle(i)
      PROVE  RoutingInv'
  <2>1. CASE ShedLoop(i)
    <3>1. Blank("shed", None) \in Replies
      BY OwnReplies
    <3>2. Done(i, ReplyOf(i, "shed", None)) /\ UNCHANGED still /\ faults' \in 0 .. MaxFaults
      BY <1>1, <2>1 DEF ShedLoop, TypeOK
    <3>3. QED
      BY <3>1, <3>2, OwnReplyPreserves
  <2>2. CASE Respond(i)
    <3>. DEFINE choice == Decision(hops[i].node)
    <3>1. /\ Done(i, ReplyOf(i, choice.type, choice.to)) /\ UNCHANGED still
          /\ faults' \in 0 .. MaxFaults
      BY <1>1, <2>2 DEF Respond, TypeOK
    <3>2. hops[i].node \in Nodes
      BY <1>1 DEF HopType
    <3>3. /\ choice.to \in Nodes \cup {None, NoWhere}
          /\ choice.type \in {"none", "answer", "empty", "redirect", "notFound", "unavailable",
                              "serviceNotImplemented", "badRequest", "forbidden"}
      BY <1>1, <3>2, DecisionType
    <3>. HIDE DEF choice
    <3>4. Blank(choice.type, choice.to) \in Replies
      BY <3>3, OwnReplies
    <3>5. QED
      BY <3>1, <3>4, OwnReplyPreserves
  <2>3. CASE RefuseLoop(i)
    <3>1. Blank("loop", None) \in Replies
      BY OwnReplies
    <3>2. Done(i, ReplyOf(i, "loop", None)) /\ UNCHANGED still /\ faults' \in 0 .. MaxFaults
      BY <1>1, <2>3 DEF RefuseLoop, TypeOK
    <3>3. QED
      BY <3>1, <3>2, OwnReplyPreserves
  <2>4. CASE Forward(i)
    BY <2>4, ForwardPreserves
  <2>5. QED
    BY <1>2, <2>1, <2>2, <2>3, <2>4 DEF Handle
<1>3. ASSUME NEW i \in 1 .. Len(hops), ShedBusy(i)
      PROVE  RoutingInv'
  <2>1. Blank("shed", None) \in Replies
    BY OwnReplies
  <2>2. Done(i, ReplyOf(i, "shed", None)) /\ UNCHANGED still /\ faults' \in 0 .. MaxFaults
    BY <1>1, <1>3 DEF ShedBusy, TypeOK
  <2>3. QED
    BY <2>1, <2>2, OwnReplyPreserves
<1>4. ASSUME NEW i \in 1 .. Len(hops), Reloading(i)
      PROVE  RoutingInv'
  <2>1. Blank("unavailable", None) \in Replies
    BY OwnReplies
  <2>2. Done(i, ReplyOf(i, "unavailable", None)) /\ UNCHANGED still
    BY <1>4 DEF Reloading
  <2>3. faults' \in 0 .. MaxFaults
    BY <1>1, <1>4 DEF Reloading, TypeOK
  <2>4. QED
    BY <2>1, <2>2, <2>3, OwnReplyPreserves
<1>5. ASSUME NEW i \in 1 .. Len(hops), GiveUp(i)
      PROVE  RoutingInv'
  <2>1. PICK type \in {"serverTimeout", "serverError"} : Done(i, ReplyOf(i, type, None))
    BY <1>5 DEF GiveUp
  <2>2. Blank(type, None) \in Replies
    BY OwnReplies
  <2>3. UNCHANGED still /\ faults' \in 0 .. MaxFaults
    BY <1>1, <1>5 DEF GiveUp, TypeOK
  <2>4. QED
    BY <2>1, <2>2, <2>3, OwnReplyPreserves
<1>6. CASE UNCHANGED vars
  <2>1. hops' = hops /\ net' = net /\ query' = query
    BY <1>6 DEF vars
  <2>2. TypeOK'
    BY <1>6 DEF vars, RoutingInv, RouteInv, TypeOK
  <2>3. ViaTellsRoute'
    BY <2>1 DEF RoutingInv, RouteInv, ViaTellsRoute, Route, Own, Finding
  <2>4. LoopFree' /\ WaitsForNext'
    BY <2>1 DEF RoutingInv, LoopFree, WaitsForNext, Forwarded, Own, Finding
  <2>5. PathTellsRoute'
    BY <2>1 DEF RoutingInv, PathTellsRoute, Route, Own, Finding
  <2>6. QED
    BY <2>2, <2>3, <2>4, <2>5 DEF RoutingInv, RouteInv
<1>7. QED
  BY <1>2, <1>3, <1>4, <1>5, <1>6, FollowPreserves, ReturnPreserves DEF Next

\* Every request carries exactly the servers it went through, whatever gives up,
\* sheds or reloads on the way.
THEOREM RouteCorrect == Spec => []RouteInv
<1>1. RoutingInv => RouteInv
  BY DEF RoutingInv
<1>2. QED
  BY <1>1, InitRouting, NextRouting, PTL DEF Spec

\* No two servers with one URI hand a findService query on, in any network.
THEOREM NoQueryLoops == Spec => []ForwardedOnce
<1>1. RoutingInv => ForwardedOnce
  <2>. SUFFICES ASSUME RoutingInv, Finding, NEW i \in 1 .. Len(hops), NEW j \in 1 .. Len(hops),
                       i < j, hops[i].head = hops[j].head, Forwarded(j)
                PROVE  Own(i) # Own(j)
    BY DEF ForwardedOnce
  <2>1. hops[i].head \in 1 .. i
    BY DEF RoutingInv, RouteInv, ViaTellsRoute
  <2>2. i \in hops[j].head .. j - 1
    BY <2>1 DEF RoutingInv, RouteInv, TypeOK
  <2>3. QED
    BY <2>2 DEF RoutingInv, LoopFree
<1>2. QED
  BY <1>1, InitRouting, NextRouting, PTL DEF Spec

\* An answer tells its whole way, in any network.
THEOREM AnswersTellTheirWay == Spec => []PathTellsRoute
<1>1. RoutingInv => PathTellsRoute
  BY DEF RoutingInv
<1>2. QED
  BY <1>1, InitRouting, NextRouting, PTL DEF Spec

-----------------------------------------------------------------------------
(* A sound federation: where each node sends a query on.                   *)

Onward(n) == IF n \in Up(OnlyCoverer) THEN net.match[n] ELSE net.parent[n]

\* The reply of a server that asks no other one.
Ended(node, reply) ==
  IF node = OnlyCoverer THEN reply.type = "answer" /\ reply.by = OnlyCoverer
  ELSE reply.type = "redirect" /\ reply.target = Onward(node)

\* A query never comes back to a server: it climbs until it meets the nodes above
\* the one that has the location, and goes down from there.  Of the last hop: n is
\* its index, above the nodes above the coverer, over those above its own node.
WayTo(n, node, head, above, over) ==
  /\ follows < n
  /\ hops[head].head = head
  /\ \A i \in 1 .. n : hops[i].head = head \/ hops[i].state = "done"
  /\ \A i, j \in 1 .. n : hops[i].node = hops[j].node => i = j
  /\ node \in above => \A i \in 1 .. n : hops[i].node \in above => hops[i].node \in over
  /\ node \notin above =>
       \A i \in 1 .. n : hops[i].node \notin above /\ (hops[i].node \in over => i = n)
  /\ hops[n].state = "done" => Ended(node, hops[n].reply)
  /\ \A i \in 1 .. n :
       hops[i].head = head /\ hops[i].state = "done" =>
         hops[n].state = "done" /\ hops[i].reply = hops[n].reply

WayInv ==
  LET n == Len(hops)
  IN WayTo(n, hops[n].node, hops[n].head, Up(OnlyCoverer), Up(hops[n].node))

Undisturbed == Asks /\ Reachable /\ faults = 0 /\ Sound
ReachInv == RoutingInv /\ (Undisturbed => WayInv)

\* The nodes above a node.
LEMMA UpSelf == \A n \in Nodes : n \in Up(n)
  BY DEF Up

LEMMA UpNodes == \A n : Up(n) \subseteq Nodes
  BY DEF Up

LEMMA UpClimbs ==
  ASSUME TypeOK, NEW n \in Nodes PROVE Climbs(Up(n))
<1>. SUFFICES ASSUME NEW m \in Up(n), net.parent[m] # None PROVE net.parent[m] \in Up(n)
  BY DEF Climbs
<1>1. net.parent[m] \in Nodes
  BY UpNodes DEF TypeOK, Setup
<1>2. ASSUME NEW S \in SUBSET Nodes, n \in S, Climbs(S) PROVE net.parent[m] \in S
  <2>1. m \in S
    BY <1>2 DEF Up
  <2>. QED BY <1>1, <1>2, <2>1 DEF Climbs
<1>. QED BY <1>1, <1>2 DEF Up

LEMMA UpLeast ==
  ASSUME NEW n, NEW S \in SUBSET Nodes, n \in S, Climbs(S) PROVE Up(n) \subseteq S
  BY DEF Up

LEMMA UpParent ==
  ASSUME TypeOK, NEW n \in Nodes
  PROVE  /\ net.parent[n] = None => Up(n) = {n}
         /\ net.parent[n] \in Nodes => Up(n) = {n} \cup Up(net.parent[n])
<1>1. CASE net.parent[n] = None
  <2>1. Up(n) \subseteq {n}
    BY ZenonT(30), <1>1, UpLeast DEF Climbs
  <2>. QED BY <1>1, <2>1, UpSelf, FederationRoutingAssumption
<1>2. CASE net.parent[n] \in Nodes
  <2>. DEFINE p == net.parent[n]
              S == {n} \cup Up(p)
  <2>1. Climbs(S)
    BY <1>2, UpClimbs, UpSelf DEF Climbs
  <2>2. Up(n) \subseteq S
    BY <2>1, UpNodes, UpLeast
  <2>3. p \in Up(n) /\ Climbs(Up(n))
    BY <1>2, UpSelf, UpClimbs, FederationRoutingAssumption DEF Climbs
  <2>4. Up(p) \subseteq Up(n)
    BY <2>3, UpNodes, UpLeast
  <2>. QED BY <1>2, <2>2, <2>4, UpSelf, FederationRoutingAssumption
<1>. QED BY <1>1, <1>2, FederationRoutingAssumption DEF TypeOK, Setup

\* In a sound federation every node but the coverer sends a query on, up the
\* parents or down to the coverer.
LEMMA SoundWay ==
  ASSUME TypeOK, Sound, IsFiniteSet(Nodes)
  PROVE  /\ net.covers = {OnlyCoverer} /\ OnlyCoverer \in Nodes
         /\ OnlyCoverer \in Up(OnlyCoverer)
         /\ \A n \in Nodes \ {OnlyCoverer} :
              /\ Onward(n) \in Nodes
              /\ n \in Up(OnlyCoverer) =>
                   /\ Onward(n) = net.match[n] /\ Onward(n) \in Up(OnlyCoverer)
                   /\ Up(Onward(n)) = {Onward(n)} \cup Up(n) /\ Onward(n) \notin Up(n)
              /\ n \notin Up(OnlyCoverer) =>
                   /\ Onward(n) = net.parent[n] /\ net.kind[n] # "guide"
                   /\ Up(n) = {n} \cup Up(Onward(n)) /\ n \notin Up(Onward(n))
                   /\ net.match[n] = None
<1>1. net.covers = {OnlyCoverer} /\ OnlyCoverer \in Nodes
  <2>1. net.covers \subseteq Nodes /\ Cardinality(net.covers) = 1
    BY DEF TypeOK, Setup, Sound
  <2>2. IsFiniteSet(net.covers)
    BY <2>1, FS_Subset
  <2>3. PICK c : net.covers = {c}
    BY <2>1, <2>2, FS_Singleton
  <2>. QED BY <2>1, <2>3 DEF OnlyCoverer
<1>2. OnlyCoverer \in Up(OnlyCoverer)
  BY <1>1, UpSelf
<1>3. \A n \in Nodes : net.parent[n] \in Nodes => n \notin Up(net.parent[n])
  BY DEF Sound
<1>4. ASSUME NEW n \in Nodes \ {OnlyCoverer}, n \in Up(OnlyCoverer)
      PROVE  /\ Onward(n) \in Nodes
             /\ Onward(n) = net.match[n] /\ Onward(n) \in Up(OnlyCoverer)
             /\ Up(Onward(n)) = {Onward(n)} \cup Up(n) /\ Onward(n) \notin Up(n)
  <2>1. Onward(n) = net.match[n]
    BY <1>4 DEF Onward
  <2>2. net.match[n] \in Up(OnlyCoverer) /\ net.parent[net.match[n]] = n
    BY <1>4 DEF Sound
  <2>3. net.match[n] \in Nodes
    BY <2>2, UpNodes
  <2>. QED BY <1>3, <2>1, <2>2, <2>3, UpParent
<1>5. ASSUME NEW n \in Nodes \ {OnlyCoverer}, n \notin Up(OnlyCoverer)
      PROVE  /\ Onward(n) \in Nodes
             /\ Onward(n) = net.parent[n] /\ net.kind[n] # "guide"
             /\ Up(n) = {n} \cup Up(Onward(n)) /\ n \notin Up(Onward(n))
             /\ net.match[n] = None
  <2>1. Onward(n) = net.parent[n]
    BY <1>5 DEF Onward
  <2>2. net.match[n] = None /\ Up(n) \cap Up(OnlyCoverer) # {}
        /\ (net.kind[n] = "guide" => net.parent[n] = None)
    BY <1>5 DEF Sound
  <2>3. net.parent[n] # None
    BY <1>5, <2>2, UpParent
  <2>4. net.parent[n] \in Nodes
    BY <2>3 DEF TypeOK, Setup
  <2>. QED BY <1>3, <2>1, <2>2, <2>3, <2>4, UpParent
<1>. QED BY <1>1, <1>2, <1>4, <1>5

LEMMA SoundDecides ==
  ASSUME TypeOK, Asks, Reachable, Sound, IsFiniteSet(Nodes), NEW n \in Nodes
  PROVE  /\ n = OnlyCoverer => Decision(n).do = "reply" /\ Decision(n).type = "answer"
         /\ n # OnlyCoverer => Decision(n).to = Onward(n)
         /\ n # OnlyCoverer /\ Decision(n).do = "reply" => Decision(n).type = "redirect"
<1>1. /\ query.form = "ok" /\ query.service = "sos"
      /\ ~Finding => net.dns = {} /\ query.civic
      /\ net.kind[n] \in {"gis", "routing", "guide"}
      /\ net.covers = {OnlyCoverer} /\ net.kind[OnlyCoverer] = "gis"
  BY SoundWay DEF Asks, Reachable, Sound, TypeOK, Setup
<1>2. None \notin Nodes
  BY FederationRoutingAssumption
<1>3. CASE n = OnlyCoverer
  BY <1>1, <1>3 DEF Decision, GisFinds, GisLists, Say
<1>4. CASE n # OnlyCoverer /\ n \in Up(OnlyCoverer)
  <2>1. Onward(n) = net.match[n] /\ net.match[n] \in Nodes /\ net.kind[n] # "gis"
    BY <1>4, SoundWay DEF Sound
  <2>2. CASE Finding /\ net.kind[n] = "guide"
    BY <1>1, <1>4, <2>1, <2>2 DEF Decision, GuideFinds, RedirectTo
  <2>3. CASE Finding /\ net.kind[n] = "routing"
    BY <1>1, <1>4, <2>1, <2>3 DEF Decision, RoutingFinds, HandTo, RedirectTo
  <2>4. CASE ~Finding
    BY <1>1, <1>2, <1>4, <2>1, <2>4 DEF Decision, RoutingLists, ListChild, HandTo, RedirectTo
  <2>. QED BY <1>1, <2>1, <2>2, <2>3, <2>4
<1>5. CASE n # OnlyCoverer /\ n \notin Up(OnlyCoverer)
  <2>1. /\ Onward(n) = net.parent[n] /\ net.parent[n] \in Nodes /\ net.kind[n] # "guide"
        /\ net.match[n] = None /\ n \notin net.covers
    BY <1>1, <1>5, SoundWay
  <2>2. CASE Finding /\ net.kind[n] = "gis"
    BY <1>1, <1>5, <2>1, <2>2 DEF Decision, GisFinds, HandTo, RedirectTo
  <2>3. CASE Finding /\ net.kind[n] = "routing"
    BY <1>1, <1>2, <1>5, <2>1, <2>3 DEF Decision, RoutingFinds, HandTo, RedirectTo
  <2>4. CASE ~Finding /\ net.kind[n] = "gis"
    BY <1>1, <1>5, <2>1, <2>4 DEF Decision, GisLists, ListParent, HandTo, RedirectTo
  <2>5. CASE ~Finding /\ net.kind[n] = "routing"
    BY <1>1, <1>5, <2>1, <2>5 DEF Decision, RoutingLists, ListParent, HandTo, RedirectTo
  <2>. QED BY <1>1, <2>1, <2>2, <2>3, <2>4, <2>5
<1>. QED BY <1>3, <1>4, <1>5

\* The node a query goes on to is new to it, and keeps it on its way.
LEMMA OnwardNew ==
  ASSUME TypeOK, Sound, IsFiniteSet(Nodes), WayInv, NEW n, n = Len(hops), n \in Nat \ {0},
         NEW node, node = hops[n].node, node \in Nodes \ {OnlyCoverer},
         NEW t, t = Onward(node)
  PROVE  /\ t \in Nodes /\ \A i \in 1 .. n : hops[i].node # t
         /\ t \in Up(OnlyCoverer) =>
              \A i \in 1 .. n : hops[i].node \in Up(OnlyCoverer) => hops[i].node \in Up(t)
         /\ t \notin Up(OnlyCoverer) =>
              \A i \in 1 .. n : hops[i].node \notin Up(OnlyCoverer) /\ hops[i].node \notin Up(t)
<1>1. t \in Nodes /\ t \in Up(t)
  BY SoundWay, UpSelf
<1>2. CASE node \in Up(OnlyCoverer)
  <2>1. t \in Up(OnlyCoverer) /\ Up(t) = {t} \cup Up(node) /\ t \notin Up(node)
    BY <1>2, SoundWay
  <2>2. \A i \in 1 .. n : hops[i].node \in Up(OnlyCoverer) => hops[i].node \in Up(node)
    BY <1>2 DEF WayInv, WayTo
  <2>. QED BY <1>1, <2>1, <2>2
<1>3. CASE node \notin Up(OnlyCoverer)
  <2>1. Up(node) = {node} \cup Up(t) /\ node \notin Up(t)
    BY <1>3, SoundWay
  <2>2. \A i \in 1 .. n : /\ hops[i].node \notin Up(OnlyCoverer)
                          /\ hops[i].node \in Up(node) => i = n
    BY <1>3 DEF WayInv, WayTo
  <2>. QED BY <1>1, <2>1, <2>2
<1>. QED BY <1>2, <1>3

LEMMA SameNet ==
  ASSUME net' = net
  PROVE  /\ OnlyCoverer' = OnlyCoverer
         /\ \A n : Up(n)' = Up(n)
         /\ \A n : Onward(n)' = Onward(n)
         /\ \A n, r : Ended(n, r)' <=> Ended(n, r)
         /\ Sound' <=> Sound
<1>1. OnlyCoverer' = OnlyCoverer /\ \A n : Up(n)' = Up(n)
  BY DEF OnlyCoverer, Up, Climbs
<1>2. \A n : Onward(n)' = Onward(n)
  BY <1>1 DEF Onward
<1>3. \A n, r : Ended(n, r)' <=> Ended(n, r)
  BY <1>1, <1>2 DEF Ended
<1>4. Sound' <=> Sound
  BY <1>1 DEF Sound
<1>. QED BY <1>1, <1>2, <1>3, <1>4

\* A hop that gets its reply.
LEMMA WayDone ==
  ASSUME RoutingInv, WayInv, NEW i \in 1 .. Len(hops), NEW reply \in Replies, Done(i, reply),
         net' = net, follows' = follows,
         \/ /\ i = Len(hops) /\ hops[i].state # "done"
            /\ Ended(hops[i].node, reply)
         \/ /\ i # Len(hops) /\ hops[Len(hops)].state = "done"
            /\ reply = hops[Len(hops)].reply
  PROVE  WayInv'
<1>. DEFINE n == Len(hops)
<1>1. /\ n \in Nat /\ hops \in Seq(HopType) /\ hops[i] \in HopType
      /\ \A k \in 1 .. n : hops[k] \in HopType
  BY DEF RoutingInv, RouteInv, TypeOK
<1>2. PICK e \in HopType : /\ hops' = [hops EXCEPT ![i] = e]
                           /\ e.node = hops[i].node /\ e.head = hops[i].head
                           /\ e.state = "done" /\ e.reply = reply
  <2>. DEFINE e == [[hops[i] EXCEPT !.state = "done"] EXCEPT !.reply = reply]
  <2>1. hops' = [hops EXCEPT ![i] = e]
    BY <1>1 DEF Done
  <2>2. e \in HopType /\ e.node = hops[i].node /\ e.head = hops[i].head
        /\ e.state = "done" /\ e.reply = reply
    BY <1>1 DEF HopType
  <2>. QED BY <2>1, <2>2
<1>3. /\ Len(hops') = n /\ hops'[i] = e
      /\ \A k \in 1 .. n : k # i => hops'[k] = hops[k]
  BY <1>1, <1>2, ExceptSeq
<1>4. \A k \in 1 .. n : hops'[k].node = hops[k].node /\ hops'[k].head = hops[k].head
  BY <1>2, <1>3
<1>5. n \in 1 .. n
  BY <1>1
<1>. DEFINE node == hops[n].node
            head == hops[n].head
<1>6. /\ follows < n /\ hops[head].head = head
      /\ \A k \in 1 .. n : hops[k].head = head \/ hops[k].state = "done"
      /\ \A k, l \in 1 .. n : hops[k].node = hops[l].node => k = l
      /\ node \in Up(OnlyCoverer) =>
           \A k \in 1 .. n : hops[k].node \in Up(OnlyCoverer) => hops[k].node \in Up(node)
      /\ node \notin Up(OnlyCoverer) =>
           \A k \in 1 .. n : /\ hops[k].node \notin Up(OnlyCoverer)
                             /\ hops[k].node \in Up(node) => k = n
      /\ hops[n].state = "done" => Ended(node, hops[n].reply)
      /\ \A k \in 1 .. n :
           hops[k].head = head /\ hops[k].state = "done" =>
             hops[n].state = "done" /\ hops[k].reply = hops[n].reply
  BY DEF WayInv, WayTo
<1>7. head \in 1 .. n
  BY <1>5 DEF RoutingInv, RouteInv, ViaTellsRoute
<1>. HIDE DEF n, node, head
<1>8. hops'[n].node = node /\ hops'[n].head = head /\ hops'[head].head = head
  BY <1>4, <1>5, <1>6, <1>7 DEF node, head
<1>9. \A k \in 1 .. n : hops'[k].head = head \/ hops'[k].state = "done"
  BY <1>2, <1>3, <1>4, <1>6
<1>10. hops'[n].state = "done" /\ Ended(node, hops'[n].reply) /\ hops'[n].reply = reply
  <2>1. CASE i = n
    BY <1>2, <1>3, <2>1 DEF n, node
  <2>2. CASE i # n
    BY <1>3, <1>5, <1>6, <2>2 DEF n
  <2>. QED BY <2>1, <2>2
<1>11. \A k \in 1 .. n : hops'[k].head = head /\ hops'[k].state = "done" => hops'[k].reply = reply
  <2>1. TAKE k \in 1 .. n
  <2>2. CASE k = i
    BY <1>2, <1>3, <2>2
  <2>3. CASE k # i
    <3>1. hops'[k] = hops[k]
      BY <1>3, <2>3
    <3>2. CASE hops[k].head = head /\ hops[k].state = "done"
      <4>1. hops[n].state = "done" /\ hops[k].reply = hops[n].reply
        BY <1>6, <3>2
      <4>. QED BY <3>1, <4>1 DEF n
    <3>. QED BY <3>1, <3>2
  <2>. QED BY <2>2, <2>3
<1>12. /\ \A k, l \in 1 .. n : hops'[k].node = hops'[l].node => k = l
       /\ node \in Up(OnlyCoverer) =>
            \A k \in 1 .. n : hops'[k].node \in Up(OnlyCoverer) => hops'[k].node \in Up(node)
       /\ node \notin Up(OnlyCoverer) =>
            \A k \in 1 .. n : /\ hops'[k].node \notin Up(OnlyCoverer)
                              /\ hops'[k].node \in Up(node) => k = n
  BY <1>4, <1>6
<1>13. follows' < n
  BY <1>6
<1>. QED BY <1>3, <1>8, <1>9, <1>10, <1>11, <1>12, <1>13, SameNet DEF WayInv, WayTo

\* A hop that is added, for a request handed on or a redirect followed.
LEMMA WayAppend ==
  ASSUME RoutingInv, WayInv, Sound, IsFiniteSet(Nodes), NEW n, n = Len(hops),
         hops[n].node # OnlyCoverer,
         NEW H, SameWay(H), NEW via, NEW head \in {hops[n].head, n + 1},
         hops' = Append(H, Hop(Onward(hops[n].node), via, head)),
         net' = net, follows' < n + 1,
         \/ /\ head = hops[n].head /\ hops[n].state # "done"
            /\ \A k \in 1 .. n : H[k].state = "done" <=> hops[k].state = "done"
         \/ head = n + 1 /\ \A k \in 1 .. n : H[k].state = "done"
  PROVE  WayInv'
<1>1. /\ n \in Nat \ {0} /\ n \in 1 .. n /\ TypeOK
      /\ hops[n].node \in Nodes /\ hops[n].head \in 1 .. n
  <2>1. n \in Nat /\ n > 0
    BY DEF RoutingInv, RouteInv, TypeOK, WayInv, WayTo
  <2>2. hops[n] \in HopType /\ hops[n].head \in 1 .. n
    BY <2>1 DEF RoutingInv, RouteInv, TypeOK, ViaTellsRoute
  <2>. QED BY <2>1, <2>2 DEF RoutingInv, RouteInv, HopType
<1>2. PICK t : t = Onward(hops[n].node)
  OBVIOUS
<1>3. /\ t \in Nodes /\ \A i \in 1 .. n : hops[i].node # t
      /\ t \in Up(OnlyCoverer) =>
           \A i \in 1 .. n : hops[i].node \in Up(OnlyCoverer) => hops[i].node \in Up(t)
      /\ t \notin Up(OnlyCoverer) =>
           \A i \in 1 .. n : hops[i].node \notin Up(OnlyCoverer) /\ hops[i].node \notin Up(t)
  BY <1>1, <1>2, OnwardNew
<1>4. Len(hops') = n + 1 /\ hops'[n + 1] = Hop(t, via, head)
  BY <1>1, <1>2 DEF SameWay
<1>5. \A k \in 1 .. n : hops'[k] = H[k]
  BY <1>1 DEF SameWay
<1>6. /\ hops'[n + 1].node = t /\ hops'[n + 1].head = head /\ hops'[n + 1].state = "sent"
      /\ \A k \in 1 .. n : hops'[k].node = hops[k].node /\ hops'[k].head = hops[k].head
  BY <1>4, <1>5 DEF Hop, SameWay
<1>7. \A k \in 1 .. n + 1 : k \in 1 .. n \/ k = n + 1
  BY <1>1
<1>8. hops'[head].head = head
  <2>1. CASE head = n + 1
    BY <1>6, <2>1
  <2>2. CASE head = hops[n].head
    BY <1>1, <1>6, <2>2 DEF WayInv, WayTo
  <2>. QED BY <2>1, <2>2
<1>9. \A k \in 1 .. n + 1 : hops'[k].head = head \/ hops'[k].state = "done"
  <2>1. ASSUME NEW k \in 1 .. n PROVE hops'[k].head = head \/ hops'[k].state = "done"
    <3>1. CASE \A l \in 1 .. n : H[l].state = "done"
      BY <1>5, <2>1, <3>1
    <3>2. CASE /\ head = hops[n].head
               /\ \A l \in 1 .. n : H[l].state = "done" <=> hops[l].state = "done"
      <4>1. hops[k].head = head \/ hops[k].state = "done"
        BY <2>1, <3>2 DEF WayInv, WayTo
      <4>2. H[k].state = "done" <=> hops[k].state = "done"
        BY <2>1, <3>2
      <4>. QED BY <1>5, <1>6, <2>1, <4>1, <4>2
    <3>. QED BY <3>1, <3>2
  <2>. QED BY <1>6, <1>7, <2>1
<1>10. \A k, l \in 1 .. n + 1 : hops'[k].node = hops'[l].node => k = l
  <2>1. \A k, l \in 1 .. n : hops[k].node = hops[l].node => k = l
    BY DEF WayInv, WayTo
  <2>2. \A k \in 1 .. n : hops'[k].node # hops'[n + 1].node
    BY ZenonT(30), <1>3, <1>6
  <2>3. TAKE k, l \in 1 .. n + 1
  <2>4. CASE k \in 1 .. n /\ l \in 1 .. n
    <3>1. hops'[k].node = hops[k].node /\ hops'[l].node = hops[l].node
      BY <1>6, <2>4
    <3>. QED BY <2>1, <2>4, <3>1
  <2>5. CASE k = n + 1 \/ l = n + 1
    BY <1>7, <2>2, <2>5
  <2>. QED BY <1>7, <2>4, <2>5
<1>11. /\ t \in Up(OnlyCoverer) =>
            \A k \in 1 .. n + 1 : hops'[k].node \in Up(OnlyCoverer) => hops'[k].node \in Up(t)
       /\ t \notin Up(OnlyCoverer) =>
            \A k \in 1 .. n + 1 : /\ hops'[k].node \notin Up(OnlyCoverer)
                                  /\ hops'[k].node \in Up(t) => k = n + 1
  BY ZenonT(30), <1>3, <1>6, <1>7, UpSelf
<1>12. ASSUME NEW k \in 1 .. n + 1, hops'[k].head = head, hops'[k].state = "done"
       PROVE  FALSE
  <2>1. k \in 1 .. n /\ hops'[k] = H[k] /\ hops[k].head = head
    BY <1>5, <1>6, <1>7, <1>12
  <2>2. CASE head = n + 1
    BY <1>1, <2>1, <2>2 DEF RoutingInv, RouteInv, ViaTellsRoute
  <2>3. CASE /\ head = hops[n].head /\ hops[n].state # "done"
             /\ hops[k].state = "done"
    BY <2>1, <2>3 DEF WayInv, WayTo
  <2>. QED BY <1>12, <2>1, <2>2, <2>3
<1>13. hops'[n + 1].state # "done"
  BY <1>6
<1>14. \A k \in 1 .. n + 1 :
         hops'[k].head = head /\ hops'[k].state = "done" =>
           hops'[n + 1].state = "done" /\ hops'[k].reply = hops'[n + 1].reply
  BY <1>12
<1>15. Len(hops') = n + 1 /\ hops'[n + 1].node = t /\ hops'[n + 1].head = head
  BY <1>4, <1>6
<1>16. PICK above : above = Up(OnlyCoverer)
  OBVIOUS
<1>17. PICK over : over = Up(t)
  OBVIOUS
<1>18. Up(OnlyCoverer)' = above /\ Up(hops[Len(hops)].node)' = over
  BY <1>15, <1>16, <1>17, SameNet
<1>19. WayTo(n + 1, t, head, above, over)'
  BY <1>8, <1>9, <1>10, <1>11, <1>13, <1>14, <1>16, <1>17 DEF WayTo
<1>. QED BY <1>15, <1>18, <1>19 DEF WayInv

\* In a sound federation without faults no loop is refused and no server is full.
LEMMA NothingInTheWay ==
  ASSUME RoutingInv, WayInv, Sound, NEW i \in 1 .. Len(hops), Current(i)
  PROVE  ~HasLoop(i) /\ ~Full(hops[i].node)
<1>1. /\ i = Len(hops) /\ hops[i].state = "sent" /\ i \in Nat \ {0} /\ TypeOK
      /\ hops[i].head \in 1 .. i /\ hops \in Seq(HopType)
  BY DEF Current, RoutingInv, RouteInv, TypeOK, ViaTellsRoute
<1>2. \A j \in 1 .. i : hops[j].node = hops[i].node => j = i
  BY <1>1 DEF WayInv, WayTo
<1>3. ~HasLoop(i)
  <2>. SUFFICES ASSUME Finding, Contains(hops[i].via, Own(i)) PROVE FALSE
    BY DEF HasLoop
  <2>. DEFINE h == hops[i].head
  <2>1. hops[i].via = [k \in 1 .. i - 1 - h + 1 |-> Own(h + k - 1)]
    BY DEF RoutingInv, RouteInv, ViaTellsRoute, Route
  <2>2. i - 1 - h + 1 = i - h /\ i - h \in Nat
    BY <1>1
  <2>3. Len(hops[i].via) = i - h
    BY <2>1, <2>2
  <2>4. PICK k \in 1 .. i - h : hops[i].via[k] = Own(i)
    BY <2>3 DEF Contains
  <2>5. Own(h + k - 1) = Own(i)
    BY <2>1, <2>2, <2>4
  <2>6. h + k - 1 \in 1 .. i /\ h + k - 1 # i
    BY <1>1, <2>2
  <2>7. hops[h + k - 1].node \in Nodes /\ hops[i].node \in Nodes
    <3>1. hops[h + k - 1] \in HopType /\ hops[i] \in HopType
      BY <1>1, <2>6
    <3>. QED BY <3>1 DEF HopType
  <2>8. hops[h + k - 1].node = hops[i].node
    BY <2>5, <2>7 DEF Own, Sound
  <2>. QED BY <1>2, <2>6, <2>8
<1>4. ~Full(hops[i].node)
  <2>1. {j \in 1 .. Len(hops) : hops[j].node = hops[i].node /\ hops[j].state = "waiting"} = {}
    BY <1>1, <1>2
  <2>2. Slots > 0 => ~(Cardinality({}) >= Slots)
    BY FS_EmptySet, FederationRoutingAssumption
  <2>. QED BY <2>1, <2>2 DEF Full
<1>. QED BY <1>3, <1>4

LEMMA WayStart ==
  ASSUME Init, TypeOK, Sound PROVE WayInv
<1>1. PICK n \in Nodes : hops = <<Hop(n, <<>>, 1)>>
  BY DEF Init
<1>2. /\ Len(hops) = 1 /\ hops[1].node = n /\ hops[1].head = 1 /\ hops[1].state = "sent"
  BY <1>1 DEF Hop
<1>3. \A i \in 1 .. 1 : i = 1
  OBVIOUS
<1>. QED BY <1>2, <1>3, UpSelf DEF Init, WayInv, WayTo

\* A server answers, or sends the client on.
LEMMA WayRespond ==
  ASSUME RoutingInv, Undisturbed, WayInv, IsFiniteSet(Nodes),
         NEW i \in 1 .. Len(hops), Respond(i)
  PROVE  WayInv'
<1>. DEFINE choice == Decision(hops[i].node)
<1>1. /\ i = Len(hops) /\ hops[i].state # "done" /\ TypeOK /\ hops[i].node \in Nodes
      /\ choice.do = "reply" /\ Done(i, ReplyOf(i, choice.type, choice.to))
      /\ net' = net /\ follows' = follows
  <2>1. hops[i] \in HopType
    BY DEF RoutingInv, RouteInv, TypeOK
  <2>. QED BY <2>1 DEF Respond, Current, still, RoutingInv, RouteInv, HopType
<1>2. /\ hops[i].node = OnlyCoverer => choice.type = "answer"
      /\ hops[i].node # OnlyCoverer => choice.type = "redirect" /\ choice.to = Onward(hops[i].node)
  BY <1>1, SoundDecides DEF Undisturbed
<1>3. ReplyOf(i, choice.type, choice.to) \in Replies
  <2>1. /\ choice.to \in Nodes \cup {None, NoWhere}
        /\ choice.type \in {"none", "answer", "empty", "redirect", "notFound", "unavailable",
                            "serviceNotImplemented", "badRequest", "forbidden"}
    BY <1>1, DecisionType
  <2>. HIDE DEF choice
  <2>2. Blank(choice.type, choice.to) \in Replies
    BY <2>1, OwnReplies
  <2>. QED BY <1>1, <2>2, ReplyType DEF RoutingInv, RouteInv
<1>4. Ended(hops[i].node, ReplyOf(i, choice.type, choice.to))
  BY <1>2 DEF Ended, ReplyOf
<1>. HIDE DEF choice
<1>. QED BY <1>1, <1>3, <1>4, WayDone

\* A server asks the next one on the way.
LEMMA WayForward ==
  ASSUME RoutingInv, Undisturbed, WayInv, IsFiniteSet(Nodes),
         NEW i \in 1 .. Len(hops), Forward(i)
  PROVE  WayInv'
<1>. DEFINE node == hops[i].node
            H == [hops EXCEPT ![i].state = "waiting"]
<1>1. /\ i = Len(hops) /\ hops[i].state = "sent" /\ TypeOK /\ hops[i] \in HopType
      /\ hops \in Seq(HopType) /\ node \in Nodes /\ Decision(node).do = "forward"
      /\ net' = net /\ follows' = follows
  <2>1. hops[i] \in HopType
    BY DEF RoutingInv, RouteInv, TypeOK
  <2>. QED BY <2>1 DEF Forward, Current, still, RoutingInv, RouteInv, TypeOK, HopType
<1>2. node # OnlyCoverer /\ Decision(node).to = Onward(node) /\ Onward(node) \in Nodes
  <2>1. node # OnlyCoverer /\ Decision(node).to = Onward(node)
    BY <1>1, SoundDecides DEF Undisturbed
  <2>. QED BY <1>1, <2>1, SoundWay DEF Undisturbed
<1>3. hops' = Append(H, Hop(Onward(node), NextVia(i), hops[i].head))
  BY <1>2, FederationRoutingAssumption DEF Forward
<1>4. SameWay(H) /\ H[i].state = "waiting" /\ \A k \in 1 .. Len(hops) : k # i => H[k] = hops[k]
  <2>. DEFINE waiting == [hops[i] EXCEPT !.state = "waiting"]
  <2>1. /\ waiting \in HopType /\ waiting.state = "waiting" /\ waiting.node = hops[i].node
        /\ waiting.via = hops[i].via /\ waiting.head = hops[i].head
    BY <1>1 DEF HopType
  <2>2. H = [hops EXCEPT ![i] = waiting]
    BY <1>1
  <2>. HIDE DEF waiting, H
  <2>3. /\ H \in Seq(HopType) /\ Len(H) = Len(hops) /\ H[i] = waiting
        /\ \A k \in 1 .. Len(hops) : k # i => H[k] = hops[k]
    BY <1>1, <2>1, <2>2, ExceptSeq
  <2>. QED BY <2>1, <2>3 DEF SameWay
<1>5. \A k \in 1 .. Len(hops) : H[k].state = "done" <=> hops[k].state = "done"
  BY <1>1, <1>4
<1>6. follows' < i + 1
  BY <1>1 DEF WayInv, WayTo, RoutingInv, RouteInv, TypeOK
<1>7. PICK G : G = H
  OBVIOUS
<1>8. PICK via : via = NextVia(i)
  OBVIOUS
<1>9. Sound
  BY DEF Undisturbed
<1>. HIDE DEF H, node
<1>10. /\ hops[i].node # OnlyCoverer
       /\ hops' = Append(G, Hop(Onward(hops[i].node), via, hops[i].head))
  BY <1>2, <1>3, <1>7, <1>8 DEF node
<1>11. SameWay(G) /\ hops[i].state # "done"
       /\ \A k \in 1 .. i : G[k].state = "done" <=> hops[k].state = "done"
  BY <1>1, <1>4, <1>5, <1>7
<1>12. hops[i].head \in {hops[i].head, i + 1}
  OBVIOUS
<1>. QED BY <1>1, <1>6, <1>9, <1>10, <1>11, <1>12, WayAppend

\* A reply goes back to the server that asked.
LEMMA WayReturn ==
  ASSUME RoutingInv, Undisturbed, WayInv, NEW i \in 1 .. Len(hops), Return(i)
  PROVE  WayInv'
<1>. DEFINE n == Len(hops)
<1>1. /\ i < n /\ hops[i].state = "waiting" /\ hops[i + 1].state = "done"
      /\ n \in Nat /\ i + 1 \in 1 .. n /\ hops[i + 1].head = hops[i].head
      /\ hops[i + 1] \in HopType /\ hops[n] \in HopType
      /\ net' = net /\ follows' = follows
  <2>1. /\ n \in Nat /\ i < n /\ hops[i].state = "waiting" /\ hops[i + 1].state = "done"
        /\ net' = net /\ follows' = follows
    BY DEF Return, Awaits, still, RoutingInv, RouteInv, TypeOK
  <2>2. hops[i + 1].head = hops[i].head
    BY <2>1 DEF RoutingInv, WaitsForNext, Forwarded
  <2>. QED BY <2>1, <2>2 DEF RoutingInv, RouteInv, TypeOK
<1>2. hops[i].head = hops[n].head
  BY <1>1 DEF WayInv, WayTo
<1>3. /\ hops[n].state = "done" /\ hops[i + 1].reply = hops[n].reply
      /\ Ended(hops[n].node, hops[n].reply)
  BY <1>1, <1>2 DEF WayInv, WayTo
<1>4. hops[n].reply \in Replies /\ hops[n].reply.type # "shed"
  BY <1>1, <1>3 DEF HopType, Ended
<1>5. Done(i, hops[n].reply)
  BY <1>3, <1>4 DEF Return
<1>6. PICK reply \in Replies : reply = hops[n].reply
  BY <1>4
<1>. QED BY <1>1, <1>3, <1>5, <1>6, WayDone

\* The client asks the server it was sent to.
LEMMA WayFollow ==
  ASSUME RoutingInv, Undisturbed, WayInv, IsFiniteSet(Nodes), Follow
  PROVE  WayInv'
<1>. DEFINE n == Len(hops)
            head == hops[n].head
<1>1. /\ n \in Nat \ {0} /\ n \in 1 .. n /\ hops \in Seq(HopType) /\ TypeOK
      /\ net' = net /\ follows' = follows + 1 /\ follows \in Nat /\ follows < n
      /\ \A k \in 1 .. n : hops[k].state = "done"
  <2>1. /\ n \in Nat /\ hops \in Seq(HopType) /\ TypeOK /\ follows \in Nat
    BY FederationRoutingAssumption DEF RoutingInv, RouteInv, TypeOK
  <2>2. follows < n
    BY DEF WayInv, WayTo
  <2>. QED BY <2>1, <2>2 DEF Follow, AllDone
<1>2. head \in 1 .. n
  BY <1>1 DEF RoutingInv, RouteInv, ViaTellsRoute
<1>3. hops[head].head = head
  BY DEF WayInv, WayTo
<1>4. hops[head].reply = hops[n].reply /\ Ended(hops[n].node, hops[n].reply)
  BY <1>1, <1>2, <1>3 DEF WayInv, WayTo
<1>5. Last(hops) = hops[n]
  BY <1>1 DEF Last
<1>6. ClientReply = hops[n].reply
  BY <1>4, <1>5 DEF ClientReply
<1>7. hops[n].node # OnlyCoverer /\ ClientReply.target = Onward(hops[n].node)
  BY <1>4, <1>6 DEF Ended, Follow
<1>8. hops' = Append(hops, Hop(Onward(hops[n].node), <<>>, n + 1))
  BY <1>7 DEF Follow
<1>9. SameWay(hops)
  BY <1>1 DEF SameWay
<1>10. Sound /\ follows' < n + 1
  BY <1>1 DEF Undisturbed
<1>11. n + 1 \in {hops[n].head, n + 1}
  OBVIOUS
<1>12. PICK m : m = n
  OBVIOUS
<1>. HIDE DEF n, head
<1>13. m = Len(hops)
  BY <1>12 DEF n
<1>. QED BY <1>1, <1>7, <1>8, <1>9, <1>10, <1>11, <1>12, <1>13, WayAppend

\* Nothing fails, so nothing sheds, refuses or gives up.
LEMMA WayStep ==
  ASSUME RoutingInv, Undisturbed => WayInv, [Next]_vars, Undisturbed', IsFiniteSet(Nodes)
  PROVE  WayInv'
<1>1. net' = net /\ query' = query /\ (faults' = faults \/ faults' = faults + 1)
  BY DEF Next, Handle, ShedLoop, Respond, RefuseLoop, Forward, Return, ShedBusy, Reloading,
         GiveUp, Follow, still, vars
<1>2. faults \in Nat
  <2>1. faults \in 0 .. MaxFaults
    BY DEF RoutingInv, RouteInv, TypeOK
  <2>. QED BY <2>1, FederationRoutingAssumption
<1>3. faults' = 0 /\ faults = 0
  BY <1>1, <1>2 DEF Undisturbed
<1>4. Undisturbed /\ WayInv
  <2>1. Asks /\ Reachable
    BY <1>1 DEF Undisturbed, Asks, Reachable, Finding
  <2>2. Sound
    BY <1>1, SameNet DEF Undisturbed
  <2>. QED BY <1>3, <2>1, <2>2 DEF Undisturbed
<1>5. ASSUME NEW i \in 1 .. Len(hops), Handle(i) PROVE WayInv'
  <2>1. Current(i)
    BY <1>5 DEF Handle, ShedLoop, Respond, RefuseLoop, Forward
  <2>2. ~HasLoop(i) /\ ~Full(hops[i].node)
    BY <1>4, <2>1, NothingInTheWay DEF Undisturbed
  <2>3. Respond(i) \/ Forward(i)
    BY <1>5, <2>2 DEF Handle, ShedLoop, RefuseLoop
  <2>. QED BY <1>4, <2>3, WayRespond, WayForward
<1>6. ASSUME NEW i \in 1 .. Len(hops), ShedBusy(i) \/ Reloading(i) \/ GiveUp(i) PROVE WayInv'
  BY <1>3, <1>6 DEF ShedBusy, Reloading, GiveUp
<1>7. CASE UNCHANGED vars
  <2>1. hops' = hops /\ follows' = follows
    BY <1>7 DEF vars
  <2>. QED BY <1>1, <1>4, <2>1, SameNet DEF WayInv, WayTo
<1>. QED BY <1>4, <1>5, <1>6, <1>7, WayReturn, WayFollow DEF Next

\* The servers on the way are different ones, and so is the one it goes on to.
LEMMA WayBound ==
  ASSUME RoutingInv, WayInv, Sound, IsFiniteSet(Nodes), hops[Len(hops)].node # OnlyCoverer
  PROVE  Len(hops) + 1 <= Cardinality(Nodes)
<1>. DEFINE n == Len(hops)
            t == Onward(hops[n].node)
            f == [k \in 1 .. n + 1 |-> IF k = n + 1 THEN t ELSE hops[k].node]
<1>1. /\ n \in Nat \ {0} /\ n \in 1 .. n /\ TypeOK
      /\ \A k \in 1 .. n : hops[k].node \in Nodes
  <2>1. n \in Nat /\ n > 0 /\ TypeOK
    BY DEF RoutingInv, RouteInv, TypeOK, WayInv, WayTo
  <2>2. \A k \in 1 .. n : hops[k] \in HopType
    BY DEF RoutingInv, RouteInv, TypeOK
  <2>. QED BY <2>1, <2>2 DEF HopType
<1>2. t \in Nodes /\ \A k \in 1 .. n : hops[k].node # t
  BY <1>1, OnwardNew
<1>3. \A k, l \in 1 .. n : hops[k].node = hops[l].node => k = l
  BY DEF WayInv, WayTo
<1>. HIDE DEF t
<1>4. f \in [1 .. n + 1 -> Nodes]
  BY <1>1, <1>2
<1>5. \A k, l \in 1 .. n + 1 : f[k] = f[l] => k = l
  <2>1. TAKE k, l \in 1 .. n + 1
  <2>2. (k \in 1 .. n \/ k = n + 1) /\ (l \in 1 .. n \/ l = n + 1)
    BY <1>1
  <2>. QED BY <1>2, <1>3, <2>2
<1>. HIDE DEF f
<1>6. f \in Injection(1 .. n + 1, Nodes)
  <2>1. DOMAIN f = 1 .. n + 1
    BY <1>4
  <2>. QED BY <1>4, <1>5, <2>1 DEF Injection, IsInjective
<1>7. Cardinality(1 .. n + 1) <= Cardinality(Nodes)
  BY <1>6, FS_Injection
<1>8. Cardinality(1 .. n + 1) = n + 1
  <2>1. ASSUME NEW m \in Nat PROVE Cardinality(1 .. m + 1) = m + 1
    <3>1. m + 1 \in Int /\ ~(1 > m + 1) /\ (m + 1) - 1 + 1 = m + 1
      OBVIOUS
    <3>. QED BY <3>1, FS_Interval
  <2>. QED BY <1>1, <2>1
<1>. QED BY <1>7, <1>8

\* In a sound federation of any size, where nothing fails and the client follows
\* as many redirects as there are other servers, the answer of the node that has
\* the location comes back, whoever is asked and whether servers recurse or not.
THEOREM CovererReached ==
  ASSUME IsFiniteSet(Nodes), MaxFollows + 1 >= Cardinality(Nodes)
  PROVE  Spec => []ReachesCoverer
<1>1. Init => ReachInv
  BY InitRouting, WayStart DEF ReachInv, RoutingInv, RouteInv, Undisturbed
<1>2. ReachInv /\ [Next]_vars => ReachInv'
  BY NextRouting, WayStep DEF ReachInv
<1>3. ReachInv => ReachesCoverer
  <2>. SUFFICES ASSUME ReachInv, AllDone, Asks, Reachable, faults = 0, Sound
                PROVE  \/ ClientReply.type = "answer" /\ ClientReply.by = OnlyCoverer
                       \/ ClientReply.type = "redirect" /\ follows < MaxFollows
    BY DEF ReachesCoverer
  <2>. DEFINE n == Len(hops)
              head == hops[n].head
  <2>1. RoutingInv /\ WayInv
    BY DEF ReachInv, Undisturbed
  <2>2. /\ n \in Nat \ {0} /\ n \in 1 .. n /\ hops \in Seq(HopType) /\ follows \in Nat
        /\ follows < n /\ \A k \in 1 .. n : hops[k].state = "done"
    BY <2>1, FederationRoutingAssumption DEF RoutingInv, RouteInv, TypeOK, WayInv, WayTo, AllDone
  <2>3. head \in 1 .. n
    BY <2>1, <2>2 DEF RoutingInv, RouteInv, ViaTellsRoute
  <2>4. hops[head].head = head
    BY <2>1 DEF WayInv, WayTo
  <2>5. hops[head].reply = hops[n].reply /\ Ended(hops[n].node, hops[n].reply)
    BY <2>1, <2>2, <2>3, <2>4 DEF WayInv, WayTo
  <2>6. ClientReply = hops[n].reply
    BY <2>2, <2>5 DEF ClientReply, Last
  <2>7. CASE hops[n].node = OnlyCoverer
    BY <2>5, <2>6, <2>7 DEF Ended
  <2>8. CASE hops[n].node # OnlyCoverer
    <3>1. n + 1 <= Cardinality(Nodes) /\ Cardinality(Nodes) \in Nat
      BY <2>1, <2>8, WayBound, FS_CardinalityType
    <3>2. follows < MaxFollows
      BY <2>2, <3>1, FederationRoutingAssumption
    <3>. QED BY <2>5, <2>6, <2>8, <3>2 DEF Ended
  <2>. QED BY <2>7, <2>8
<1>. QED BY <1>1, <1>2, <1>3, PTL DEF Spec
=============================================================================

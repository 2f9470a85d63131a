------------------------- MODULE FederationRouting -------------------------
(***************************************************************************)
(* How one query travels through a federation of LVFs: what each server    *)
(* does with findService (lost/find_service.py) and listServicesByLocation *)
(* (lost/list_services_by_location.py), the recursion between servers and  *)
(* its loop test (federation/recursion.py), and the client that follows a  *)
(* redirect.                                                               *)
(*                                                                         *)
(* The location asked for is fixed with the network: net says which nodes  *)
(* hold GIS data for it and which child the coverage store of a node names *)
(* for it (CoverageStore and CoverageList say how that entry is chosen).   *)
(* A hop is one request at one server.  A server answers before its first  *)
(* await or forwards once, so at most the last hop is still to be handled, *)
(* also after the servers before it stopped waiting.                       *)
(***************************************************************************)
EXTENDS Naturals, SequencesExt

CONSTANTS
  Nodes,       \* the servers
  Uris,        \* values of LVF_SERVER_URI
  None,        \* no parent, no child entry
  NoServer,    \* a child entry whose lost_server is empty
  NoWhere,     \* an address no server answers at
  Setups,      \* the networks looked at
  Queries,     \* the queries looked at
  Slots,       \* LVF_MAX_CONCURRENT_REQUESTS (0: no cap)
  MaxFollows,  \* redirects the client follows
  MaxFaults    \* bound: timeouts, lost replies, busy or reloading servers

\* parent: LVF_PARENT_URI, in dns the nodes that have it as a DNS name.
Setup == [kind: [Nodes -> {"gis", "routing", "guide"}],
          parent: [Nodes -> Nodes \cup {None}], dns: SUBSET Nodes,
          uri: [Nodes -> Uris], covers: SUBSET Nodes,
          match: [Nodes -> Nodes \cup {None, NoServer}]]

\* form "mapping" is a findService without validateLocation; service "other" is
\* one the GIS nodes have no boundary for.
Query == [op: {"findService", "listServicesByLocation"}, recursive: BOOLEAN,
          form: {"ok", "malformed", "mapping"}, service: {"sos", "other"},
          civic: BOOLEAN]

ASSUME FederationRoutingAssumption ==
  /\ {None, NoServer, NoWhere} \cap Nodes = {}
  /\ None # NoServer
  /\ Setups \subseteq Setup /\ Queries \subseteq Query
  /\ Slots \in Nat /\ MaxFollows \in Nat /\ MaxFaults \in Nat

VARIABLES
  net,      \* the network and what it knows of the location
  query,    \* what the client asks
  hops,     \* the requests made for it, in order
  follows,  \* redirects followed
  faults    \* faults so far

vars == <<net, query, hops, follows, faults>>
still == <<net, query, follows>>

NoReply == [type |-> "none", by |-> None, target |-> None, path |-> <<>>]

\* head is the index of the hop that began with the client.
Hop(node, via, head) ==
  [node |-> node, via |-> via, head |-> head, state |-> "sent", reply |-> NoReply]

Init ==
  /\ net \in Setups
  /\ query \in Queries
  /\ \E n \in Nodes : hops = <<Hop(n, <<>>, 1)>>
  /\ follows = 0
  /\ faults = 0

-----------------------------------------------------------------------------
(* What a server decides: reply at once, or hand the query to another one. *)

Say(type) == [do |-> "reply", type |-> type, to |-> None]
RedirectTo(node) == [do |-> "reply", type |-> "redirect", to |-> node]
HandTo(node) ==
  IF query.recursive THEN [do |-> "forward", type |-> "none", to |-> node]
                     ELSE RedirectTo(node)

\* A Forest Guide only redirects, and only for urn:service:sos.
GuideFinds(n) ==
  CASE query.service # "sos" -> Say("serviceNotImplemented")
    [] query.service = "sos" /\ net.match[n] \in Nodes -> RedirectTo(net.match[n])
    [] OTHER -> Say("notFound")

\* Fault: the parent is asked before the children.
RoutingFinds_ParentFirst(n) ==
  CASE net.parent[n] \in Nodes -> HandTo(net.parent[n])
    [] net.parent[n] = None /\ net.match[n] \in Nodes -> HandTo(net.match[n])
    [] OTHER -> Say("unavailable")

\* A node with no GIS data: a child with an address, then the parent.
RoutingFinds(n) ==
  CASE net.match[n] \in Nodes -> HandTo(net.match[n])
    [] net.match[n] \notin Nodes /\ net.parent[n] \in Nodes -> HandTo(net.parent[n])
    [] OTHER -> Say("unavailable")

\* Gate 0, then the node's own data, then _check_ooc_admin.
GisFinds(n) ==
  CASE query.service # "sos" -> Say("serviceNotImplemented")
    [] query.service = "sos" /\ n \in net.covers -> Say("answer")
    [] query.service = "sos" /\ n \notin net.covers /\ net.parent[n] \in Nodes ->
         HandTo(net.parent[n])
    [] OTHER -> Say("notFound")

\* LVF_PARENT_URI with "/lost" after it, as it stands: no name is resolved.
ListParent(n) == IF n \in net.dns THEN NoWhere ELSE net.parent[n]

\* _child_lost_uri of an empty address is "/lost".
ListChild(n) == IF net.match[n] \in Nodes THEN net.match[n] ELSE NoWhere

\* Routing nodes and Forest Guides alike; only a civic location finds a child.
RoutingLists(n) ==
  CASE query.civic /\ net.match[n] # None -> HandTo(ListChild(n))
    [] ~(query.civic /\ net.match[n] # None) /\ net.parent[n] \in Nodes ->
         HandTo(ListParent(n))
    [] OTHER -> Say("empty")

GisLists(n) ==
  CASE n \in net.covers -> Say("answer")
    [] n \notin net.covers /\ net.parent[n] \in Nodes -> HandTo(ListParent(n))
    [] OTHER -> Say("empty")

Finding == query.op = "findService"

Decision(n) ==
  IF query.form = "malformed" THEN Say("badRequest")
  ELSE IF Finding
  THEN CASE query.form = "mapping" -> Say("forbidden")
         [] query.form = "ok" /\ net.kind[n] = "guide" -> GuideFinds(n)
         [] query.form = "ok" /\ net.kind[n] = "routing" -> RoutingFinds(n)
         [] OTHER -> GisFinds(n)
  ELSE IF net.kind[n] = "gis" THEN GisLists(n) ELSE RoutingLists(n)

-----------------------------------------------------------------------------
Own(i) == net.uri[hops[i].node]

\* Fault: the server's own via stands before the ones it was sent.
PathOf_OwnFirst(i, type) ==
  IF type \notin {"answer", "unavailable"} THEN <<>>
  ELSE IF Finding THEN <<Own(i)>> \o hops[i].via ELSE <<Own(i)>>

\* Only findService copies the vias it was sent, ahead of its own.
PathOf(i, type) ==
  IF type \notin {"answer", "unavailable"} THEN <<>>
  ELSE IF Finding THEN Append(hops[i].via, Own(i)) ELSE <<Own(i)>>

ReplyOf(i, type, target) ==
  [type |-> type, by |-> hops[i].node, target |-> target, path |-> PathOf(i, type)]

Done(i, reply) ==
  hops' = [hops EXCEPT ![i].state = "done", ![i].reply = reply]

\* The hop a server has yet to decide about.
Current(i) == i = Len(hops) /\ hops[i].state = "sent"

\* Its other requests that wait for a server further on hold slots.
Full(n) ==
  /\ Slots > 0
  /\ Cardinality({j \in 1 .. Len(hops) :
                    hops[j].node = n /\ hops[j].state = "waiting"}) >= Slots

\* HTTP 429 because the query itself has filled the server.
ShedLoop(i) ==
  /\ Current(i) /\ Full(hops[i].node)
  /\ Done(i, ReplyOf(i, "shed", None))
  /\ UNCHANGED <<still, faults>>

\* HTTP 429 because of the other clients of the server.
ShedBusy(i) ==
  /\ Current(i) /\ faults < MaxFaults
  /\ Done(i, ReplyOf(i, "shed", None))
  /\ faults' = faults + 1
  /\ UNCHANGED still

\* gis_provisioning.is_reloading(): only handle_find_service_async asks, and
\* before everything else it does; but lost_endpoint has answered a request that
\* does not parse or meet the schema (badRequest) before it calls that handler,
\* and only a node with a GeoPackage has a watcher that reloads.
Reloading(i) ==
  /\ Current(i) /\ faults < MaxFaults /\ ~Full(hops[i].node)
  /\ Finding /\ query.form # "malformed" /\ net.kind[hops[i].node] = "gis"
  /\ Done(i, ReplyOf(i, "unavailable", None))
  /\ faults' = faults + 1
  /\ UNCHANGED still

Respond(i) ==
  LET choice == Decision(hops[i].node)
  IN /\ Current(i) /\ ~Full(hops[i].node)
     /\ choice.do = "reply"
     /\ Done(i, ReplyOf(i, choice.type, choice.to))
     /\ UNCHANGED <<still, faults>>

\* Fault: the server looks whether it sent the query last, not ever.
HasLoop_LastVia(i) ==
  Finding /\ hops[i].via # <<>> /\ Last(hops[i].via) = Own(i)

\* Only findService has a loop test: _has_loop.
HasLoop(i) == Finding /\ Contains(hops[i].via, Own(i))

RefuseLoop(i) ==
  /\ Current(i) /\ ~Full(hops[i].node)
  /\ Decision(hops[i].node).do = "forward"
  /\ HasLoop(i)
  /\ Done(i, ReplyOf(i, "loop", None))
  /\ UNCHANGED <<still, faults>>

\* Fault: the via is added only when the request already has a path.
NextVia_NeedsPath(i) ==
  IF Finding /\ hops[i].via # <<>> THEN Append(hops[i].via, Own(i)) ELSE hops[i].via

\* _add_via_to_request; listServicesByLocation goes on as it came.
NextVia(i) == IF Finding THEN Append(hops[i].via, Own(i)) ELSE hops[i].via

\* _do_recurse_to_uri_async and _forward; a post to nowhere fails at once.
Forward(i) ==
  LET to == Decision(hops[i].node).to
  IN /\ Current(i) /\ ~Full(hops[i].node)
     /\ Decision(hops[i].node).do = "forward"
     /\ ~HasLoop(i)
     /\ IF to = NoWhere THEN Done(i, ReplyOf(i, "serverError", None))
        ELSE hops' = Append([hops EXCEPT ![i].state = "waiting"],
                            Hop(to, NextVia(i), hops[i].head))
     /\ UNCHANGED <<still, faults>>

Awaits(i) == i < Len(hops) /\ hops[i].state = "waiting"

\* Fault: a reply with another status than 200 is never passed on.
Return_Only200(i) ==
  /\ Awaits(i) /\ hops[i + 1].state = "done"
  /\ hops[i + 1].reply.type # "shed"
  /\ Done(i, hops[i + 1].reply)
  /\ UNCHANGED <<still, faults>>

\* A reply goes back as it is; HTTP 429 becomes a serverError.
Return(i) ==
  /\ Awaits(i) /\ hops[i + 1].state = "done"
  /\ Done(i, IF hops[i + 1].reply.type = "shed" THEN ReplyOf(i, "serverError", None)
             ELSE hops[i + 1].reply)
  /\ UNCHANGED <<still, faults>>

\* The 10 s pass, or the connection breaks; the server asked works on.
GiveUp(i) ==
  /\ Awaits(i) /\ faults < MaxFaults
  /\ \E type \in {"serverTimeout", "serverError"} : Done(i, ReplyOf(i, type, None))
  /\ faults' = faults + 1
  /\ UNCHANGED still

AllDone == \A i \in 1 .. Len(hops) : hops[i].state = "done"
ClientReply == hops[Last(hops).head].reply

\* The client asks the server it was sent to, with a request of its own.
Follow ==
  /\ AllDone
  /\ ClientReply.type = "redirect" /\ ClientReply.target \in Nodes
  /\ follows < MaxFollows
  /\ hops' = Append(hops, Hop(ClientReply.target, <<>>, Len(hops) + 1))
  /\ follows' = follows + 1
  /\ UNCHANGED <<net, query, faults>>

Handle(i) ==
  ShedLoop(i) \/ Respond(i) \/ RefuseLoop(i) \/ Forward(i)

Next ==
  \/ \E i \in 1 .. Len(hops) : Handle(i) \/ Return(i)
  \/ \E i \in 1 .. Len(hops) : ShedBusy(i) \/ Reloading(i) \/ GiveUp(i)
  \/ Follow

Spec == Init /\ [][Next]_vars

\* A server handles what it is sent and passes on what it is told: its event
\* loop runs every request.  Nothing is assumed of faults or of the client.
FairSpec ==
  Spec /\ WF_vars(\E i \in 1 .. Len(hops) : Handle(i) \/ Return(i))

-----------------------------------------------------------------------------
(* The way of a query.                                                     *)

Replies == [type: {"none", "answer", "empty", "redirect", "notFound", "unavailable",
                   "serviceNotImplemented", "badRequest", "forbidden", "loop",
                   "shed", "serverError", "serverTimeout"},
            by: Nodes \cup {None}, target: Nodes \cup {None, NoWhere},
            path: Seq(Uris)]

HopType == [node: Nodes, via: Seq(Uris), head: Nat \ {0},
            state: {"sent", "waiting", "done"}, reply: Replies]

TypeOK ==
  /\ net \in Setup /\ query \in Query
  /\ hops \in Seq(HopType)
  /\ follows \in 0 .. MaxFollows
  /\ faults \in 0 .. MaxFaults

\* The servers the client's request went through, from hop i to hop j.
Route(i, j) == [k \in 1 .. j - i + 1 |-> Own(i + k - 1)]

\* A hop that was forwarded: the next one is of the same client request.
Forwarded(i) == i < Len(hops) /\ hops[i + 1].head = hops[i].head

\* A findService request carries the URI of every server it went through, in
\* order, and only the last hop is still to be handled: what the loop test
\* compares with, whichever servers gave up meanwhile.
ViaTellsRoute ==
  \A i \in 1 .. Len(hops) :
    /\ hops[i].head \in 1 .. i
    /\ hops[i].head < i => hops[i - 1].head = hops[i].head
    /\ hops[i].via = IF Finding THEN Route(hops[i].head, i - 1) ELSE <<>>
    /\ i < Len(hops) => hops[i].state # "sent"

\* What the two properties below rest on.
RouteInv == TypeOK /\ ViaTellsRoute

\* No server hands on the same findService query twice, nor do two servers that
\* go by the same URI: a query that travels parent, child and Forest Guide ends,
\* whatever the coverage stores say (_has_loop and _add_via_to_request).
ForwardedOnce ==
  Finding =>
    \A i, j \in 1 .. Len(hops) :
      i < j /\ hops[i].head = hops[j].head /\ Forwarded(i) /\ Forwarded(j) =>
        Own(i) # Own(j)

\* An answer to findService names, in its path, every server from the one the
\* client asked to the one that answered, in that order (_to_xml_response).
PathTellsRoute ==
  Finding =>
    \A i \in 1 .. Len(hops) :
      hops[i].reply.type = "answer" =>
        \E j \in i .. Len(hops) :
          /\ hops[j].node = hops[i].reply.by
          /\ hops[j].head = hops[i].head
          /\ hops[i].reply.path = Route(hops[i].head, j)

-----------------------------------------------------------------------------
(* Where a query gets to.                                                  *)

\* The nodes reached from n by going from parent to parent, n itself included.
Climbs(S) == \A m \in S : net.parent[m] \in S \cup {None}
Up(n) == {m \in Nodes : \A S \in SUBSET Nodes : n \in S /\ Climbs(S) => m \in S}

OnlyCoverer == CHOOSE c \in net.covers : TRUE

\* The deployment the README describes, as the code can serve it: one GIS node
\* has the location, each node above it holds no GIS data and names the child
\* on the way down, the others name no child, every way up meets that way, and
\* each node has an address and a URI of its own.
Sound ==
  /\ Cardinality(net.covers) = 1 /\ net.kind[OnlyCoverer] = "gis"
  /\ \A m, n \in Nodes : net.uri[m] = net.uri[n] => m = n
  /\ \A n \in Nodes :
       /\ n \notin UNION {Up(m) : m \in {net.parent[n]} \cap Nodes}
       /\ Up(n) \cap Up(OnlyCoverer) # {}
       /\ net.kind[n] = "guide" => net.parent[n] = None
       /\ IF n \in Up(OnlyCoverer) \ {OnlyCoverer}
          THEN /\ net.kind[n] # "gis"
               /\ net.match[n] \in Up(OnlyCoverer) /\ net.parent[net.match[n]] = n
          ELSE net.match[n] = None

\* listServicesByLocation goes further only where the parent is given as a URL,
\* and finds a child only for a civic location.
Reachable == Finding \/ (net.dns = {} /\ query.civic)

Asks == query.form = "ok" /\ query.service = "sos"

\* In a sound federation the client gets the answer of the one node that has the
\* location, whichever node it asks and whether the servers recurse or redirect,
\* unless something failed on the way: it never needs more redirects than there
\* are other servers (MaxFollows).
ReachesCoverer ==
  AllDone /\ Asks /\ Reachable /\ faults = 0 /\ Sound =>
    \/ ClientReply.type = "answer" /\ ClientReply.by = OnlyCoverer
    \/ ClientReply.type = "redirect" /\ follows < MaxFollows

\* Every query comes to an end at every server: loops in the coverage stores,
\* servers that gave up or answered HTTP 429, a parent that is nowhere.
ChainEnds == <>[]AllDone

=============================================================================

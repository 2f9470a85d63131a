--------------------------- MODULE SyncTreeProofs ---------------------------
(***************************************************************************)
(* SyncTree's safety properties, for any tree, and any number of edits,    *)
(* reloads, crashes, losses and messages.                                  *)
(***************************************************************************)
EXTENDS SyncTree, TLAPS

\* What the tree has been told of node s: in stores, and on its way.
Held(s) == {store[n][s] : n \in Nodes} \cup {m.body[s] : m \in net}

\* Coverage that s once had: nothing newer than its data file, and for an LVF no
\* older than the load that gave it its stamp.
Genuine(s, c) ==
  c = None \/
    /\ c.data # 0 /\ c.data <= file[s]
    /\ Role[s] # "fg"
    /\ Role[s] = "ams" => c.stamp = c.data
    /\ Role[s] = "lvf" =>
         /\ c.stamp <= clock
         /\ \E l \in loads : l.node = s /\ l.stamp = c.stamp /\ l.data <= c.data

HeldInv == \A s \in Nodes : \A c \in Held(s) : Genuine(s, c)

\* Of two things told of an LVF, the one with the newer stamp has no older data.
OrderInv ==
  \A s \in Nodes : Role[s] = "lvf" =>
    \A c, d \in Held(s) : c.stamp < d.stamp => c.data <= d.data

\* A running LVF is ahead of all that is told of it, in its stamp and in its data:
\* only its clock and its file bring something newer.
OwnInv ==
  \A s \in Nodes :
    /\ Genuine(s, own[s])
    /\ up[s] /\ Role[s] # "fg" => own[s] # None
    /\ up[s] /\ Role[s] = "lvf" =>
         \A c \in Held(s) : c.stamp <= own[s].stamp /\ c.data <= own[s].data

\* What a running load has read is in force but for its stamp.
FreshInv ==
  \A s \in Nodes :
    /\ reloading[s] => Role[s] # "fg"
    /\ fresh[s] # None => reloading[s]
    /\ fresh[s] # None /\ Role[s] = "lvf" =>
         /\ fresh[s].data = own[s].data /\ fresh[s].stamp > own[s].stamp
         /\ Genuine(s, fresh[s])

\* A node that is down does nothing and waits for nothing.
DownInv ==
  \A n \in Nodes : ~up[n] =>
    /\ \A p \in Nodes : job[n][p] = "none"
    /\ pending[n] = 0 /\ ~reloading[n]
    /\ \A m \in net : Asker(m) = n => ~m.awaited

\* A running AMS keeps its own declaration in its store.
SelfInv == \A n \in Nodes : up[n] /\ Role[n] = "ams" => store[n][n] = own[n]

\* Messages travel along the tree, those of an AMS tell of nobody else, and a push
\* somebody waits for has what its sender started with, or newer.
NetInv ==
  \A m \in net :
    /\ m.kind = "push" => Upstream[m.from] = m.to
    /\ m.kind = "get" => m.to \in Kids[m.from] /\ \A s \in Nodes : m.body[s] = None
    /\ m.kind = "mappings" => m.from \in Kids[m.to]
    /\ Role[m.from] = "ams" => \A s \in Nodes : m.body[s] # None => s = m.from
    /\ m.kind = "push" /\ m.awaited =>
         m.body[m.from].data # 0 /\ m.body[m.from].stamp >= booted[m.from]

BootedInv == \A n \in Nodes : up[n] => own[n].stamp >= booted[n]

\* Startup tasks and single pushes are for peers.
JobInv ==
  \A n \in Nodes :
    /\ pending[n] > 0 => Upstream[n] # Nobody
    /\ \A p \in Nodes : job[n][p] # "none" => p \in Peers(n)

SyncInv ==
  /\ TypeOK /\ HeldInv /\ OrderInv /\ OwnInv /\ FreshInv /\ DownInv /\ SelfInv
  /\ NetInv /\ BootedInv /\ JobInv /\ PushedWhenDone /\ OnlyDeclaredCoverage

-----------------------------------------------------------------------------
LEMMA NoneIsCoverage ==
  /\ None \in Coverage /\ None.stamp = 0 /\ None.data = 0
  /\ Nothing \in [Nodes -> Coverage] /\ \A s \in Nodes : Nothing[s] = None
BY DEF None, Coverage, Nothing

LEMMA HeldTypes ==
  ASSUME TypeOK, NEW s \in Nodes, NEW c \in Held(s) PROVE c \in Coverage
BY DEF TypeOK, Held, Message

\* What a running node pushes is its own coverage and nothing else.
LEMMA PushedIsOwn ==
  ASSUME SyncInv, NEW n \in Nodes, up[n]
  PROVE  /\ Pushed(n) \in [Nodes -> Coverage]
         /\ Pushed(n)[n] = own[n]
         /\ \A s \in Nodes : s # n => Pushed(n)[s] = None
<1>1. (IF Role[n] = "ams" THEN store[n][n] ELSE own[n]) = own[n]
  BY DEF SyncInv, SelfInv
<1>2. Pushed(n) = [Nothing EXCEPT ![n] = own[n]]
  BY <1>1 DEF Pushed
<1>3. own[n] \in Coverage
  BY DEF SyncInv, TypeOK
<1>4. QED
  BY <1>2, <1>3, NoneIsCoverage

\* What it gives to a node that pulls is from its store, or its own.
LEMMA OfferedIsKnown ==
  ASSUME SyncInv, NEW n \in Nodes, up[n]
  PROVE  /\ Offered(n) \in [Nodes -> Coverage]
         /\ \A s \in Nodes : Offered(n)[s] \in {None, store[n][s]} \/ (s = n /\ Offered(n)[s] = own[n])
         /\ Role[n] = "ams" => \A s \in Nodes : s # n => Offered(n)[s] = None
<1>1. own[n] \in Coverage /\ \A s \in Nodes : store[n][s] \in Coverage
  BY DEF SyncInv, TypeOK
<1>2. CASE Role[n] = "ams"
  <2>1. Offered(n) = [Nothing EXCEPT ![n] = store[n][n]]
    BY <1>2 DEF Offered
  <2>2. QED
    BY <1>1, <2>1, NoneIsCoverage
<1>3. CASE Role[n] # "ams"
  <2>1. Offered(n) = [s \in Nodes |-> IF s = n THEN own[n] ELSE store[n][s]]
    BY <1>3 DEF Offered
  <2>2. QED
    BY <1>1, <1>3, <2>1
<1>4. QED
  BY <1>2, <1>3

\* A merge takes an entry over when it is newer, and keeps the others.
LEMMA MergedIsNewer ==
  ASSUME SyncInv, NEW n \in Nodes, NEW body \in [Nodes -> Coverage]
  PROVE  /\ Merged(n, body) \in [Nodes -> Coverage]
         /\ \A s \in Nodes :
              \/ Merged(n, body)[s] = store[n][s]
              \/ Merged(n, body)[s] = body[s] /\ Newer(body[s], store[n][s])
         /\ \A s \in Nodes : body[s].data # 0 /\ s # n =>
              Merged(n, body)[s].stamp >= body[s].stamp
         /\ Role[n] = "ams" => Merged(n, body)[n] = store[n][n]
<1>1. \A s \in Nodes : store[n][s] \in Coverage /\ body[s] \in Coverage
  BY DEF SyncInv, TypeOK
<1>2. \A s \in Nodes : Merged(n, body)[s] =
        IF Newer(body[s], store[n][s]) /\ ~(Role[n] = "ams" /\ s = n)
        THEN body[s] ELSE store[n][s]
  BY DEF Merged
<1>3. Merged(n, body) \in [Nodes -> Coverage]
  BY <1>1 DEF Merged
<1>4. ASSUME NEW s \in Nodes, body[s].data # 0, s # n
      PROVE  Merged(n, body)[s].stamp >= body[s].stamp
  BY <1>1, <1>2, <1>4, NoneIsCoverage DEF Newer, Coverage
<1>5. QED
  BY <1>2, <1>3, <1>4

\* Whatever is passed on, coverage stays genuine and ordered: a message or an entry
\* that is new to the tree is a running node's own.
LEMMA PassingOn ==
  ASSUME SyncInv, UNCHANGED <<file, up, gis, clock, history>>,
         \A s \in Nodes : \A c \in Held(s)' :
           c \in Held(s) \/ c = None \/ (up[s] /\ c = own[s])
  PROVE  HeldInv' /\ OrderInv' /\ OwnInv' /\ FreshInv' /\ BootedInv'
<1>. USE DEF SyncInv
<1>1. \A s \in Nodes : own[s] \in Coverage
  BY DEF TypeOK
<1>2. \A s \in Nodes : \A c \in Held(s) : c \in Coverage
  BY HeldTypes
<1>3. \A s \in Nodes : \A c : Genuine(s, c)' <=> Genuine(s, c)
  BY DEF Genuine, gis, history
<1>4. HeldInv'
  BY <1>3 DEF HeldInv, OwnInv, Genuine
<1>5. OwnInv'
  <2>1. ASSUME NEW s \in Nodes, up[s], Role[s] = "lvf", NEW c \in Held(s)'
        PROVE  c.stamp <= own[s].stamp /\ c.data <= own[s].data
    BY <1>1, <2>1, NoneIsCoverage DEF OwnInv, Coverage
  <2>2. QED
    BY <1>3, <2>1 DEF OwnInv, gis
<1>6. OrderInv'
  <2>1. ASSUME NEW s \in Nodes, Role[s] = "lvf", NEW c \in Held(s)', NEW d \in Held(s)',
               c.stamp < d.stamp
        PROVE  c.data <= d.data
    <3>1. c \in Coverage /\ d \in Coverage
      BY <1>1, <1>2, NoneIsCoverage
    <3>2. CASE c = None \/ d = None
      BY <2>1, <3>1, <3>2, NoneIsCoverage DEF Coverage
    <3>3. CASE c \in Held(s) /\ d \in Held(s)
      BY <2>1, <3>3 DEF OrderInv
    <3>4. CASE up[s] /\ d = own[s] /\ c \in Held(s)
      BY <2>1, <3>4 DEF OwnInv
    <3>5. CASE up[s] /\ c = own[s] /\ d \in Held(s)
      BY <2>1, <3>1, <3>5 DEF OwnInv, Coverage
    <3>6. CASE up[s] /\ c = own[s] /\ d = own[s]
      BY <2>1, <3>1, <3>6 DEF Coverage
    <3>7. QED
      BY <3>2, <3>3, <3>4, <3>5, <3>6
  <2>2. QED
    BY <2>1 DEF OrderInv
<1>7. FreshInv' /\ BootedInv'
  BY <1>3 DEF FreshInv, BootedInv, gis, history
<1>8. QED
  BY <1>4, <1>5, <1>6, <1>7

\* A push tells of its sender alone, with what it started with or newer.
LEMMA PushBody ==
  ASSUME SyncInv, NEW n \in Nodes, up[n], CanPush(n)
  PROVE  /\ Pushed(n)[n].data # 0
         /\ Pushed(n)[n].stamp >= booted[n]
<1>1. /\ Pushed(n) \in [Nodes -> Coverage] /\ Pushed(n)[n] = own[n]
      /\ \A s \in Nodes : s # n => Pushed(n)[s] = None
  BY PushedIsOwn
<1>2. own[n] # None
  <2>1. SUFFICES ASSUME own[n] = None PROVE FALSE
    OBVIOUS
  <2>2. Pushed(n) = Nothing
    BY <1>1, <2>1 DEF Nothing
  <2>3. QED
    BY <2>2 DEF CanPush
<1>3. own[n].data # 0
  BY <1>2 DEF SyncInv, OwnInv, Genuine
<1>4. QED
  BY <1>1, <1>3 DEF SyncInv, BootedInv

\* A request that goes out from a running node.
LEMMA SendingKeeps ==
  ASSUME SyncInv, NEW n \in Nodes, NEW p \in Nodes, NEW kind \in {"push", "get"},
         NEW body, NEW awaited \in BOOLEAN, up[n],
         net' = net \/ Send(kind, n, p, body, awaited),
         kind = "push" => Upstream[n] = p /\ body = Pushed(n) /\ CanPush(n),
         kind = "get" => p \in Kids[n] /\ body = Nothing,
         UNCHANGED <<file, up, gis, store, clock, history>>
  PROVE  /\ HeldInv' /\ OrderInv' /\ OwnInv' /\ FreshInv' /\ BootedInv'
         /\ SelfInv' /\ NetInv' /\ OnlyDeclaredCoverage' /\ (net \subseteq Message)'
         /\ \A m \in net' : m \in net \/ Asker(m) = n
<1>. DEFINE new == [kind |-> kind, from |-> n, to |-> p, body |-> body, awaited |-> awaited]
<1>1. body \in [Nodes -> Coverage] /\ \A s \in Nodes : body[s] = None \/ (s = n /\ body[s] = own[s])
  BY PushedIsOwn, NoneIsCoverage
<1>2. new \in Message
  BY <1>1 DEF Message
<1>3. net' = net \/ net' = net \cup {new}
  BY DEF Send
<1>4. \A m \in net' : m \in net \/ m = new
  BY <1>3
<1>5. HeldInv' /\ OrderInv' /\ OwnInv' /\ FreshInv' /\ BootedInv'
  <2>1. ASSUME NEW s \in Nodes, NEW c \in Held(s)'
        PROVE  c \in Held(s) \/ c = None \/ (up[s] /\ c = own[s])
    <3>1. CASE \E i \in Nodes : c = store'[i][s]
      BY <3>1 DEF Held
    <3>2. CASE \E m \in net' : c = m.body[s]
      <4>1. PICK m \in net' : c = m.body[s]
        BY <3>2
      <4>2. m \in net \/ m.body = body
        BY <1>4
      <4>3. QED
        BY <4>1, <4>2, <1>1 DEF Held
    <3>3. QED
      BY <2>1, <3>1, <3>2 DEF Held
  <2>2. QED
    BY <2>1, PassingOn
<1>6. SelfInv' /\ OnlyDeclaredCoverage'
  BY DEF SyncInv, SelfInv, OnlyDeclaredCoverage, gis
<1>7. NetInv'
  <2>1. ASSUME NEW m \in net'
        PROVE  /\ m.kind = "push" => Upstream[m.from] = m.to
               /\ m.kind = "get" => m.to \in Kids[m.from] /\ \A s \in Nodes : m.body[s] = None
               /\ m.kind = "mappings" => m.from \in Kids[m.to]
               /\ Role[m.from] = "ams" => \A s \in Nodes : m.body[s] # None => s = m.from
               /\ m.kind = "push" /\ m.awaited =>
                    m.body[m.from].data # 0 /\ m.body[m.from].stamp >= booted[m.from]
    <3>1. CASE m \in net
      BY <3>1 DEF SyncInv, NetInv
    <3>2. CASE m = new
      <4>1. kind = "push" => body[n].data # 0 /\ body[n].stamp >= booted[n]
        BY PushBody
      <4>2. kind = "get" => \A s \in Nodes : body[s] = None
        BY NoneIsCoverage
      <4>3. QED
        BY <3>2, <1>1, <4>1, <4>2
    <3>3. QED
      BY <1>4, <2>1, <3>1, <3>2
  <2>2. QED
    BY <2>1 DEF NetInv, history
<1>8. (net \subseteq Message)' /\ \A m \in net' : m \in net \/ Asker(m) = n
  BY <1>2, <1>4 DEF SyncInv, TypeOK, Asker
<1>9. QED
  BY <1>5, <1>6, <1>7, <1>8

\* The attempts of startup tasks, and single pushes.
LEMMA SendPreserves ==
  ASSUME SyncInv, NEW n \in Nodes,
         TryPush(n) \/ SinglePush(n) \/ \E p \in Nodes : TryPull(n, p)
  PROVE  SyncInv'
<1>. USE DEF SyncInv
<1>1. CASE TryPush(n)
  <2>. DEFINE p == Upstream[n]
  <2>1. p \in Nodes /\ up[n] /\ job[n][p] = "ready" /\ CanPush(n)
    BY <1>1, TreeAssumption DEF TryPush, DownInv
  <2>2. job' = [job EXCEPT ![n][p] = "sent"]
    BY <1>1 DEF TryPush
  <2>3. /\ HeldInv' /\ OrderInv' /\ OwnInv' /\ FreshInv' /\ BootedInv'
        /\ SelfInv' /\ NetInv' /\ OnlyDeclaredCoverage' /\ (net \subseteq Message)'
        /\ \A m \in net' : m \in net \/ Asker(m) = n
    BY <1>1, <2>1, SendingKeeps DEF TryPush
  <2>4. TypeOK' /\ DownInv' /\ JobInv' /\ PushedWhenDone'
    <3>1. TypeOK'
      BY <1>1, <2>1, <2>2, <2>3 DEF TypeOK, TryPush, gis, history
    <3>2. DownInv'
      BY <1>1, <2>1, <2>2, <2>3 DEF DownInv, TypeOK, TryPush, gis
    <3>3. JobInv'
      BY <1>1, <2>1, <2>2 DEF JobInv, TypeOK, TryPush
    <3>4. PushedWhenDone'
      BY <1>1, <2>1, <2>2 DEF PushedWhenDone, TypeOK, TryPush, history
    <3>5. QED
      BY <3>1, <3>2, <3>3, <3>4
  <2>5. QED
    BY <2>3, <2>4
<1>2. CASE SinglePush(n)
  <2>. DEFINE p == Upstream[n]
  <2>1. p \in Nodes /\ up[n] /\ pending[n] > 0 /\ pending' = [pending EXCEPT ![n] = @ - 1]
    <3>1. pending[n] > 0 /\ pending' = [pending EXCEPT ![n] = @ - 1]
      BY <1>2 DEF SinglePush
    <3>2. up[n]
      BY <3>1 DEF DownInv
    <3>3. p \in Nodes
      BY <3>1, TreeAssumption DEF JobInv
    <3>4. QED
      BY <3>1, <3>2, <3>3
  <2>2. /\ HeldInv' /\ OrderInv' /\ OwnInv' /\ FreshInv' /\ BootedInv'
        /\ SelfInv' /\ NetInv' /\ OnlyDeclaredCoverage' /\ (net \subseteq Message)'
        /\ \A m \in net' : m \in net \/ Asker(m) = n
    <3>1. CASE CanPush(n)
      BY <1>2, <2>1, <3>1, SendingKeeps DEF SinglePush
    <3>2. CASE ~CanPush(n)
      <4>1. \A s \in Nodes : Held(s)' = Held(s)
        BY <1>2, <3>2 DEF Held, SinglePush
      <4>2. HeldInv' /\ OrderInv' /\ OwnInv' /\ FreshInv' /\ BootedInv'
        BY <1>2, <4>1, PassingOn DEF SinglePush
      <4>3. QED
        BY <1>2, <3>2, <4>2
           DEF SinglePush, SelfInv, NetInv, OnlyDeclaredCoverage, TypeOK, gis, history
    <3>3. QED
      BY <3>1, <3>2
  <2>3. TypeOK' /\ JobInv'
    BY <1>2, <2>1, <2>2 DEF TypeOK, JobInv, SinglePush, gis, history
  <2>4. DownInv'
    BY <1>2, <2>1, <2>2 DEF DownInv, TypeOK, SinglePush, gis
  <2>5. PushedWhenDone'
    BY <1>2 DEF PushedWhenDone, SinglePush, history
  <2>6. QED
    BY <2>2, <2>3, <2>4, <2>5
<1>3. CASE \E p \in Nodes : TryPull(n, p)
  <2>1. PICK p \in Nodes : TryPull(n, p)
    BY <1>3
  <2>2. /\ up[n] /\ job[n][p] = "ready" /\ p \in Kids[n] /\ job' = [job EXCEPT ![n][p] = "sent"]
        /\ p \in Peers(n)
    BY <2>1 DEF TryPull, DownInv, Peers
  <2>3. /\ HeldInv' /\ OrderInv' /\ OwnInv' /\ FreshInv' /\ BootedInv'
        /\ SelfInv' /\ NetInv' /\ OnlyDeclaredCoverage' /\ (net \subseteq Message)'
        /\ \A m \in net' : m \in net \/ Asker(m) = n
    BY <2>1, <2>2, SendingKeeps DEF TryPull
  <2>4. TypeOK'
    BY <2>1, <2>2, <2>3 DEF TypeOK, TryPull, gis, history
  <2>5. DownInv'
    BY <2>1, <2>2, <2>3 DEF DownInv, TypeOK, TryPull, gis
  <2>6. JobInv'
    BY <2>1, <2>2 DEF JobInv, TypeOK, TryPull
  <2>7. PushedWhenDone'
    BY <2>1, <2>2 DEF PushedWhenDone, TypeOK, TryPull, history
  <2>8. QED
    BY <2>3, <2>4, <2>5, <2>6, <2>7
<1>4. QED
  BY <1>1, <1>2, <1>3

\* An exchange is between a node and a peer it asks; who waits is up, and for a pull
\* the peer is not the one upstream.
LEMMA Exchange ==
  ASSUME SyncInv, NEW m \in net
  PROVE  /\ m \in Message /\ Asker(m) \in Nodes /\ Asked(m) \in Peers(Asker(m))
         /\ Asked(m) \in Nodes
         /\ m.awaited => up[Asker(m)]
         /\ m.kind # "push" => Asked(m) # Upstream[Asker(m)]
         /\ m.kind = "push" => Asker(m) = m.from /\ Asked(m) = m.to
<1>1. m \in Message
  BY DEF SyncInv, TypeOK
<1>2. Asker(m) \in Nodes /\ Asked(m) \in Nodes
  BY <1>1 DEF Message, Asker, Asked
<1>3. m.awaited => up[Asker(m)]
  BY <1>2 DEF SyncInv, DownInv
<1>4. CASE m.kind = "push"
  BY <1>1, <1>2, <1>3, <1>4, TreeAssumption DEF SyncInv, NetInv, Asker, Asked, Peers, Message
<1>5. CASE m.kind # "push"
  <2>1. Asked(m) \in Kids[Asker(m)]
    BY <1>1, <1>5 DEF SyncInv, NetInv, Asker, Asked, Message
  <2>2. QED
    BY <1>1, <1>2, <1>3, <1>5, <2>1, TreeAssumption DEF Peers
<1>6. QED
  BY <1>4, <1>5

\* A job state that goes with the end of an exchange.
LEMMA BecomeKeeps ==
  ASSUME SyncInv, NEW m \in net, NEW state \in {"none", "ready"}, Become(m, state),
         UNCHANGED up,
         \A x \in net' : x \in net \/ ~x.awaited \/ (m.awaited /\ Asker(x) = Asker(m)),
         pending' \in [Nodes -> Nat],
         \A n \in Nodes : pending'[n] = pending[n] \/ (up[n] /\ Upstream[n] # Nobody)
  PROVE  /\ job' \in [Nodes -> [Nodes -> {"none", "ready", "sent"}]]
         /\ JobInv'
         /\ \A n \in Nodes : ~up[n] =>
              /\ \A p \in Nodes : job'[n][p] = "none"
              /\ pending'[n] = 0
              /\ \A x \in net' : Asker(x) = n => ~x.awaited
<1>1. /\ Asker(m) \in Nodes /\ Asked(m) \in Peers(Asker(m)) /\ Asked(m) \in Nodes
      /\ m.awaited => up[Asker(m)]
  BY Exchange
<1>. USE DEF SyncInv
<1>2. job' = IF m.awaited THEN [job EXCEPT ![Asker(m)][Asked(m)] = state] ELSE job
  BY DEF Become
<1>3. job \in [Nodes -> [Nodes -> {"none", "ready", "sent"}]]
  BY DEF TypeOK
<1>4. job' \in [Nodes -> [Nodes -> {"none", "ready", "sent"}]]
  BY <1>1, <1>2, <1>3
<1>5. JobInv'
  BY <1>1, <1>2, <1>3 DEF JobInv
<1>6. ASSUME NEW n \in Nodes, ~up[n]
      PROVE  /\ \A p \in Nodes : job'[n][p] = "none"
             /\ pending'[n] = 0
             /\ \A x \in net' : Asker(x) = n => ~x.awaited
  <2>1. \A p \in Nodes : job'[n][p] = "none"
    BY <1>1, <1>2, <1>3, <1>6 DEF DownInv
  <2>2. pending'[n] = 0
    BY <1>6 DEF DownInv
  <2>3. \A x \in net' : Asker(x) = n => ~x.awaited
    BY <1>1, <1>6 DEF DownInv
  <2>4. QED
    BY <2>1, <2>2, <2>3
<1>7. QED
  BY <1>4, <1>5, <1>6

\* A message that leaves the network, or that nobody waits for any more.
LEMMA LeavingKeeps ==
  ASSUME SyncInv, NEW m \in net,
         \/ net' = net \ {m}
         \/ net' = (net \ {m}) \cup {[m EXCEPT !.awaited = FALSE]},
         UNCHANGED <<file, up, gis, store, clock, history>>
  PROVE  /\ HeldInv' /\ OrderInv' /\ OwnInv' /\ FreshInv' /\ BootedInv'
         /\ SelfInv' /\ NetInv' /\ OnlyDeclaredCoverage' /\ (net \subseteq Message)'
         /\ \A x \in net' : x \in net \/ ~x.awaited
<1>. USE DEF SyncInv
<1>. DEFINE late == [m EXCEPT !.awaited = FALSE]
<1>1. /\ late \in Message /\ late.kind = m.kind /\ late.from = m.from /\ late.to = m.to
      /\ late.body = m.body /\ late.awaited = FALSE
  BY Exchange DEF Message
<1>2. \A x \in net' : x \in net \/ x = late
  OBVIOUS
<1>. HIDE DEF late
<1>3. HeldInv' /\ OrderInv' /\ OwnInv' /\ FreshInv' /\ BootedInv'
  <2>1. \A s \in Nodes : \A c \in Held(s)' : c \in Held(s)
    BY <1>1, <1>2 DEF Held
  <2>2. QED
    BY <2>1, PassingOn
<1>4. SelfInv' /\ OnlyDeclaredCoverage'
  BY DEF SelfInv, OnlyDeclaredCoverage, gis
<1>5. NetInv'
  BY <1>1, <1>2 DEF NetInv, history
<1>6. (net \subseteq Message)' /\ \A x \in net' : x \in net \/ ~x.awaited
  BY <1>1, <1>2 DEF TypeOK
<1>7. QED
  BY <1>3, <1>4, <1>5, <1>6

\* Exchanges that fail: refused, lost, or given up by the sender.
LEMMA FailPreserves ==
  ASSUME SyncInv, NEW m \in net, Refused(m) \/ Lose(m) \/ Timeout(m)
  PROVE  SyncInv'
<1>1. /\ Become(m, "ready")
      /\ net' = net \ {m} \/ net' = (net \ {m}) \cup {[m EXCEPT !.awaited = FALSE]}
      /\ UNCHANGED <<file, up, gis, store, pending, clock, history>>
  BY DEF Refused, Lose, Timeout
<1>2. /\ HeldInv' /\ OrderInv' /\ OwnInv' /\ FreshInv' /\ BootedInv'
      /\ SelfInv' /\ NetInv' /\ OnlyDeclaredCoverage' /\ (net \subseteq Message)'
      /\ \A x \in net' : x \in net \/ ~x.awaited
  BY <1>1, LeavingKeeps
<1>3. /\ job' \in [Nodes -> [Nodes -> {"none", "ready", "sent"}]]
      /\ JobInv'
      /\ \A n \in Nodes : ~up[n] =>
           /\ \A p \in Nodes : job'[n][p] = "none"
           /\ pending'[n] = 0
           /\ \A x \in net' : Asker(x) = n => ~x.awaited
  <2>1. pending' \in [Nodes -> Nat]
    BY <1>1 DEF SyncInv, TypeOK
  <2>2. QED
    BY <1>1, <1>2, <2>1, BecomeKeeps
<1>4. TypeOK'
  BY <1>1, <1>2, <1>3 DEF SyncInv, TypeOK, gis, history
<1>5. DownInv'
  BY <1>1, <1>3 DEF SyncInv, DownInv, gis
<1>6. PushedWhenDone'
  <2>1. ASSUME NEW n \in Nodes, Upstream[n] # Nobody, job'[n][Upstream[n]] = "none"
        PROVE  job[n][Upstream[n]] = "none"
    BY <1>1, <2>1, Exchange, TreeAssumption DEF Become, SyncInv, TypeOK
  <2>2. QED
    BY <1>1, <2>1 DEF SyncInv, PushedWhenDone, history
<1>7. QED
  BY <1>2, <1>3, <1>4, <1>5, <1>6 DEF SyncInv

\* The store of a node after a merge: newer entries only, and its own untouched on
\* an AMS.
LEMMA MergeKeeps ==
  ASSUME SyncInv, NEW m \in net, m.kind \in {"push", "mappings"},
         store' = [store EXCEPT ![m.to] = Merged(m.to, m.body)],
         net' = net \ {m},
         UNCHANGED <<file, up, gis, clock, history>>
  PROVE  /\ HeldInv' /\ OrderInv' /\ OwnInv' /\ FreshInv' /\ BootedInv'
         /\ SelfInv' /\ NetInv' /\ OnlyDeclaredCoverage'
         /\ store' \in [Nodes -> [Nodes -> Coverage]]
         /\ \A n, s \in Nodes : /\ store'[n][s].stamp >= store[n][s].stamp
                                /\ store'[n][s].data >= store[n][s].data
<1>1. m \in Message /\ m.to \in Nodes /\ m.from \in Nodes /\ m.body \in [Nodes -> Coverage]
  BY Exchange DEF Message
<1>2. /\ Merged(m.to, m.body) \in [Nodes -> Coverage]
      /\ \A s \in Nodes :
           \/ Merged(m.to, m.body)[s] = store[m.to][s]
           \/ Merged(m.to, m.body)[s] = m.body[s] /\ Newer(m.body[s], store[m.to][s])
      /\ Role[m.to] = "ams" => Merged(m.to, m.body)[m.to] = store[m.to][m.to]
  BY <1>1, MergedIsNewer
<1>3. \A n, s \in Nodes :
        \/ store'[n][s] = store[n][s]
        \/ /\ n = m.to /\ store'[n][s] = m.body[s] /\ Newer(m.body[s], store[n][s])
           /\ ~(Role[n] = "ams" /\ s = n)
  <2>1. ASSUME NEW n \in Nodes, NEW s \in Nodes
        PROVE  \/ store'[n][s] = store[n][s]
               \/ /\ n = m.to /\ store'[n][s] = m.body[s] /\ Newer(m.body[s], store[n][s])
                  /\ ~(Role[n] = "ams" /\ s = n)
    BY <1>1, <1>2, <2>1 DEF SyncInv, TypeOK
  <2>2. QED
    BY <2>1
<1>4. store' \in [Nodes -> [Nodes -> Coverage]]
  BY <1>1, <1>2 DEF SyncInv, TypeOK
<1>5. HeldInv' /\ OrderInv' /\ OwnInv' /\ FreshInv' /\ BootedInv'
  <2>1. \A s \in Nodes : \A c \in Held(s)' : c \in Held(s)
    BY <1>3 DEF Held
  <2>2. QED
    BY <2>1, PassingOn
<1>6. SelfInv'
  BY <1>3 DEF SyncInv, SelfInv, gis
<1>7. NetInv'
  BY DEF SyncInv, NetInv, history
<1>8. OnlyDeclaredCoverage'
  <2>1. SUFFICES ASSUME NEW n \in Nodes, NEW s \in Nodes, Role[n] = "fg",
                        \A p \in Nodes : p \in Kids[n] \/ Upstream[p] = n => Role[p] = "ams",
                        store'[n][s] # None
                 PROVE  Role[s] = "ams"
    BY DEF OnlyDeclaredCoverage
  <2>2. CASE store'[n][s] = store[n][s]
    BY <2>1, <2>2 DEF SyncInv, OnlyDeclaredCoverage
  <2>3. CASE n = m.to /\ store'[n][s] = m.body[s]
    <3>1. m.from \in Kids[n] \/ Upstream[m.from] = n
      BY <2>3 DEF SyncInv, NetInv
    <3>2. Role[m.from] = "ams"
      BY <1>1, <2>1, <3>1
    <3>3. QED
      BY <2>1, <2>3, <3>2 DEF SyncInv, NetInv
  <2>4. QED
    BY <1>3, <2>1, <2>2, <2>3
<1>9. ASSUME NEW n \in Nodes, NEW s \in Nodes
      PROVE  /\ store'[n][s].stamp >= store[n][s].stamp
             /\ store'[n][s].data >= store[n][s].data
  <2>1. store[n][s] \in Coverage /\ m.body[s] \in Coverage
    BY <1>1 DEF SyncInv, TypeOK
  <2>2. CASE store'[n][s] = store[n][s]
    BY <2>1, <2>2 DEF Coverage
  <2>3. CASE store'[n][s] = m.body[s] /\ Newer(m.body[s], store[n][s])
    <3>1. CASE store[n][s] = None
      BY <2>1, <2>3, <3>1, NoneIsCoverage DEF Coverage
    <3>2. CASE store[n][s] # None
      <4>1. m.body[s].stamp > store[n][s].stamp /\ m.body[s].data # 0
        BY <2>3, <3>2 DEF Newer
      <4>2. m.body[s] \in Held(s) /\ store[n][s] \in Held(s)
        BY DEF Held
      <4>3. Genuine(s, m.body[s]) /\ Genuine(s, store[n][s])
        BY <4>2 DEF SyncInv, HeldInv
      <4>4. m.body[s] # None
        BY <4>1, NoneIsCoverage
      <4>5. CASE Role[s] = "lvf"
        BY <2>1, <2>3, <4>1, <4>2, <4>5 DEF SyncInv, OrderInv, Coverage
      <4>6. CASE Role[s] = "ams"
        BY <2>1, <2>3, <3>2, <4>1, <4>3, <4>4, <4>6 DEF Genuine, Coverage
      <4>7. Role[s] # "fg"
        BY <4>3, <4>4 DEF Genuine
      <4>8. QED
        BY <4>5, <4>6, <4>7, TreeAssumption
    <3>3. QED
      BY <3>1, <3>2
  <2>4. QED
    BY <1>3, <2>2, <2>3
<1>10. QED
  BY <1>4, <1>5, <1>6, <1>7, <1>8, <1>9

\* A push that arrives: the entries, the answer and, if the store has changed, a
\* push of this node's own.
LEMMA ReceivePushPreserves ==
  ASSUME SyncInv, NEW m \in net, ReceivePush(m)
  PROVE  SyncInv'
<1>1. /\ m.kind = "push" /\ up[m.to] /\ net' = net \ {m} /\ Become(m, "none")
      /\ store' = [store EXCEPT ![m.to] = Merged(m.to, m.body)]
      /\ UNCHANGED <<file, up, gis, clock, history>>
  BY DEF ReceivePush
<1>2. m.to \in Nodes /\ m.from \in Nodes /\ m.body \in [Nodes -> Coverage]
  BY Exchange DEF Message
<1>3. pending' \in [Nodes -> Nat] /\
      \A n \in Nodes : pending'[n] = pending[n] \/ (up[n] /\ Upstream[n] # Nobody)
  BY <1>1, <1>2 DEF ReceivePush, SyncInv, TypeOK
<1>4. /\ HeldInv' /\ OrderInv' /\ OwnInv' /\ FreshInv' /\ BootedInv'
      /\ SelfInv' /\ NetInv' /\ OnlyDeclaredCoverage'
      /\ store' \in [Nodes -> [Nodes -> Coverage]]
      /\ \A n, s \in Nodes : store'[n][s].stamp >= store[n][s].stamp
  BY <1>1, MergeKeeps
<1>5. /\ job' \in [Nodes -> [Nodes -> {"none", "ready", "sent"}]]
      /\ JobInv'
      /\ \A n \in Nodes : ~up[n] =>
           /\ \A p \in Nodes : job'[n][p] = "none"
           /\ pending'[n] = 0
           /\ \A x \in net' : Asker(x) = n => ~x.awaited
  BY <1>1, <1>3, BecomeKeeps
<1>6. TypeOK'
  BY <1>1, <1>3, <1>4, <1>5 DEF SyncInv, TypeOK, gis, history
<1>7. DownInv'
  BY <1>1, <1>5 DEF SyncInv, DownInv, gis
<1>8. PushedWhenDone'
  <2>1. SUFFICES ASSUME NEW n \in Nodes, up[n], Upstream[n] # Nobody,
                        job'[n][Upstream[n]] = "none"
                 PROVE  store'[Upstream[n]][n].stamp >= booted[n]
    BY <1>1 DEF PushedWhenDone, history
  <2>2. Upstream[n] \in Nodes
    BY <2>1, TreeAssumption
  <2>3. /\ store'[Upstream[n]][n] \in Coverage /\ store[Upstream[n]][n] \in Coverage
        /\ booted[n] \in Nat
    BY <1>4, <2>2 DEF SyncInv, TypeOK
  <2>4. CASE job[n][Upstream[n]] = "none"
    <3>1. store[Upstream[n]][n].stamp >= booted[n]
      BY <2>1, <2>4 DEF SyncInv, PushedWhenDone
    <3>2. store'[Upstream[n]][n].stamp >= store[Upstream[n]][n].stamp
      BY <1>4, <2>2
    <3>3. QED
      BY <2>3, <3>1, <3>2 DEF Coverage
  <2>5. CASE job[n][Upstream[n]] # "none"
    <3>1. m.awaited /\ m.from = n /\ m.to = Upstream[n]
      BY <1>1, <2>1, <2>2, <2>5, Exchange DEF Become, SyncInv, TypeOK
    <3>2. m.body[n].data # 0 /\ m.body[n].stamp >= booted[n]
      BY <1>1, <3>1 DEF SyncInv, NetInv
    <3>3. n # m.to
      BY <2>2, <3>1, TreeAssumption DEF Peers
    <3>4. store'[m.to][n].stamp >= m.body[n].stamp
      <4>1. store'[m.to] = Merged(m.to, m.body)
        BY <1>1, <1>2 DEF SyncInv, TypeOK
      <4>2. QED
        BY <1>2, <3>2, <3>3, <4>1, MergedIsNewer
    <3>5. m.body[n] \in Coverage
      BY <1>2
    <3>6. QED
      BY <2>3, <3>1, <3>2, <3>4, <3>5 DEF Coverage
  <2>6. QED
    BY <2>4, <2>5
<1>9. QED
  BY <1>4, <1>5, <1>6, <1>7, <1>8 DEF SyncInv

\* A request for mappings is answered.
LEMMA ReceiveGetPreserves ==
  ASSUME SyncInv, NEW m \in net, ReceiveGet(m)
  PROVE  SyncInv'
<1>. DEFINE reply == [kind |-> "mappings", from |-> m.to, to |-> m.from, body |-> Offered(m.to),
                      awaited |-> m.awaited]
<1>1. /\ m.kind = "get" /\ up[m.to] /\ net' = (net \ {m}) \cup {reply}
      /\ UNCHANGED <<file, up, gis, store, job, pending, clock, history>>
  BY DEF ReceiveGet
<1>2. m \in Message /\ m.to \in Nodes /\ m.from \in Nodes /\ m.awaited \in BOOLEAN
  BY Exchange DEF Message
<1>3. /\ Offered(m.to) \in [Nodes -> Coverage]
      /\ \A s \in Nodes : \/ Offered(m.to)[s] \in {None, store[m.to][s]}
                          \/ s = m.to /\ Offered(m.to)[s] = own[m.to]
      /\ Role[m.to] = "ams" => \A s \in Nodes : s # m.to => Offered(m.to)[s] = None
  BY <1>1, <1>2, OfferedIsKnown
<1>4. /\ reply \in Message /\ reply.kind = "mappings" /\ reply.from = m.to /\ reply.to = m.from
      /\ reply.body = Offered(m.to) /\ reply.awaited = m.awaited /\ Asker(reply) = Asker(m)
  BY <1>1, <1>2, <1>3 DEF Message, Asker
<1>. HIDE DEF reply
<1>5. \A x \in net' : x \in net \/ x = reply
  BY <1>1
<1>6. HeldInv' /\ OrderInv' /\ OwnInv' /\ FreshInv' /\ BootedInv'
  <2>1. ASSUME NEW s \in Nodes, NEW c \in Held(s)'
        PROVE  c \in Held(s) \/ c = None \/ (up[s] /\ c = own[s])
    <3>1. CASE \E i \in Nodes : c = store'[i][s]
      BY <1>1, <3>1 DEF Held
    <3>2. CASE \E x \in net' : c = x.body[s]
      <4>1. PICK x \in net' : c = x.body[s]
        BY <3>2
      <4>2. CASE x \in net
        BY <4>1, <4>2 DEF Held
      <4>3. CASE x = reply
        BY <1>1, <1>2, <1>3, <1>4, <4>1, <4>3 DEF Held
      <4>4. QED
        BY <1>5, <4>1, <4>2, <4>3
    <3>3. QED
      BY <2>1, <3>1, <3>2 DEF Held
  <2>2. QED
    BY <1>1, <2>1, PassingOn
<1>7. SelfInv' /\ OnlyDeclaredCoverage' /\ PushedWhenDone' /\ JobInv'
  BY <1>1 DEF SyncInv, SelfInv, OnlyDeclaredCoverage, PushedWhenDone, JobInv, gis, history
<1>8. TypeOK'
  BY <1>1, <1>4, <1>5 DEF SyncInv, TypeOK, gis, history
<1>9. DownInv'
  BY <1>1, <1>4, <1>5 DEF SyncInv, DownInv, gis
<1>10. NetInv'
  <2>1. /\ reply.from \in Kids[reply.to]
        /\ Role[reply.from] = "ams" => \A s \in Nodes : reply.body[s] # None => s = reply.from
    BY <1>1, <1>3, <1>4 DEF SyncInv, NetInv
  <2>2. QED
    BY <1>1, <1>4, <1>5, <2>1 DEF SyncInv, NetInv, history
<1>11. QED
  BY <1>6, <1>7, <1>8, <1>9, <1>10 DEF SyncInv

\* The answer arrives, in time or too late.
LEMMA ReceiveMappingsPreserves ==
  ASSUME SyncInv, NEW m \in net, ReceiveMappings(m)
  PROVE  SyncInv'
<1>1. /\ m.kind = "mappings" /\ net' = net \ {m} /\ Become(m, "none")
      /\ store' = IF m.awaited THEN [store EXCEPT ![m.to] = Merged(m.to, m.body)] ELSE store
      /\ UNCHANGED <<file, up, gis, pending, clock, history>>
  BY DEF ReceiveMappings
<1>2. /\ HeldInv' /\ OrderInv' /\ OwnInv' /\ FreshInv' /\ BootedInv'
      /\ SelfInv' /\ NetInv' /\ OnlyDeclaredCoverage'
      /\ store' \in [Nodes -> [Nodes -> Coverage]]
      /\ \A n, s \in Nodes : store'[n][s].stamp >= store[n][s].stamp
  <2>1. CASE m.awaited
    BY <1>1, <2>1, MergeKeeps
  <2>2. CASE ~m.awaited
    <3>1. store' = store
      BY <1>1, <2>2
    <3>2. \A n, s \in Nodes : store'[n][s].stamp >= store[n][s].stamp
      BY <3>1 DEF SyncInv, TypeOK, Coverage
    <3>3. store' \in [Nodes -> [Nodes -> Coverage]]
      BY <3>1 DEF SyncInv, TypeOK
    <3>4. QED
      BY <1>1, <3>1, <3>2, <3>3, LeavingKeeps
  <2>3. QED
    BY <2>1, <2>2
<1>3. pending' \in [Nodes -> Nat]
  BY <1>1 DEF SyncInv, TypeOK
<1>4. /\ job' \in [Nodes -> [Nodes -> {"none", "ready", "sent"}]]
      /\ JobInv'
      /\ \A n \in Nodes : ~up[n] =>
           /\ \A p \in Nodes : job'[n][p] = "none"
           /\ pending'[n] = 0
           /\ \A x \in net' : Asker(x) = n => ~x.awaited
  BY <1>1, <1>3, BecomeKeeps
<1>5. TypeOK'
  BY <1>1, <1>2, <1>3, <1>4 DEF SyncInv, TypeOK, gis, history
<1>6. DownInv'
  BY <1>1, <1>4 DEF SyncInv, DownInv, gis
<1>7. PushedWhenDone'
  <2>1. SUFFICES ASSUME NEW n \in Nodes, up[n], Upstream[n] # Nobody,
                        job'[n][Upstream[n]] = "none"
                 PROVE  store'[Upstream[n]][n].stamp >= booted[n]
    BY <1>1 DEF PushedWhenDone, history
  <2>2. Upstream[n] \in Nodes
    BY <2>1, TreeAssumption
  <2>3. /\ store'[Upstream[n]][n] \in Coverage /\ store[Upstream[n]][n] \in Coverage
        /\ booted[n] \in Nat
    BY <1>2, <2>2 DEF SyncInv, TypeOK
  <2>4. Asked(m) # Upstream[Asker(m)]
    BY <1>1, Exchange
  <2>5. job[n][Upstream[n]] = "none"
    BY <1>1, <2>1, <2>2, <2>4, Exchange DEF Become, SyncInv, TypeOK
  <2>6. store[Upstream[n]][n].stamp >= booted[n]
    BY <2>1, <2>5 DEF SyncInv, PushedWhenDone
  <2>7. store'[Upstream[n]][n].stamp >= store[Upstream[n]][n].stamp
    BY <1>2, <2>2
  <2>8. QED
    BY <2>3, <2>6, <2>7 DEF Coverage
<1>8. QED
  BY <1>2, <1>4, <1>5, <1>6, <1>7 DEF SyncInv

\* Newer files and clocks, and more loads, take nothing of its genuineness away.
LEMMA GenuineGrows ==
  ASSUME TypeOK, NEW s \in Nodes, NEW c \in Coverage, Genuine(s, c),
         file'[s] \in Nat, file'[s] >= file[s], clock' \in Nat, clock' >= clock,
         loads \subseteq loads'
  PROVE  Genuine(s, c)'
<1>1. c.data \in Nat /\ c.stamp \in Nat /\ file[s] \in Nat /\ clock \in Nat
  BY DEF TypeOK, Coverage
<1>2. CASE c = None
  BY <1>2 DEF Genuine
<1>3. CASE c # None
  <2>1. c.data # 0 /\ c.data <= file'[s] /\ Role[s] # "fg"
    BY <1>1, <1>3 DEF Genuine
  <2>2. Role[s] = "ams" => c.stamp = c.data
    BY <1>3 DEF Genuine
  <2>3. ASSUME Role[s] = "lvf"
        PROVE  /\ c.stamp <= clock'
               /\ \E l \in loads' : l.node = s /\ l.stamp = c.stamp /\ l.data <= c.data
    <3>1. c.stamp <= clock
      BY <1>3, <2>3 DEF Genuine
    <3>2. PICK l \in loads : l.node = s /\ l.stamp = c.stamp /\ l.data <= c.data
      BY <1>3, <2>3 DEF Genuine
    <3>3. QED
      BY <1>1, <3>1, <3>2
  <2>4. QED
    BY <2>1, <2>2, <2>3 DEF Genuine
<1>4. QED
  BY <1>2, <1>3

\* What a load of version v reads in the next second is new.
LEMMA DeclaredIsGenuine ==
  ASSUME SyncInv, NEW n \in Nodes, NEW t \in Nat, t > clock, clock' = t,
         [node |-> n, stamp |-> t, data |-> file[n]] \in loads', UNCHANGED file
  PROVE  /\ Declared(n, file[n], t) \in Coverage
         /\ Genuine(n, Declared(n, file[n], t))'
         /\ Role[n] # "fg" => Declared(n, file[n], t) # None
<1>1. file[n] \in Nat /\ file[n] # 0 /\ clock \in Nat
  BY DEF SyncInv, TypeOK
<1>2. CASE Role[n] = "lvf"
  <2>1. Declared(n, file[n], t) = [stamp |-> t, data |-> file[n]]
    BY <1>2 DEF Declared
  <2>2. t <= clock' /\ file[n] <= file[n]
    BY <1>1
  <2>3. \E l \in loads' : l.node = n /\ l.stamp = t /\ l.data <= file[n]
    BY <1>1
  <2>4. QED
    BY <1>1, <1>2, <2>1, <2>2, <2>3 DEF Genuine, Coverage, None
<1>3. CASE Role[n] = "ams"
  <2>1. Declared(n, file[n], t) = [stamp |-> file[n], data |-> file[n]]
    BY <1>3 DEF Declared
  <2>2. QED
    BY <1>1, <1>3, <2>1 DEF Genuine, Coverage, None
<1>4. CASE Role[n] = "fg"
  BY <1>4, NoneIsCoverage DEF Declared, Genuine
<1>5. QED
  BY <1>2, <1>3, <1>4, TreeAssumption

LEMMA EditPreserves ==
  ASSUME SyncInv, NEW n \in Nodes, Edit(n)
  PROVE  SyncInv'
<1>1. /\ file' = [file EXCEPT ![n] = @ + 1]
      /\ UNCHANGED <<up, gis, store, job, pending, net, clock, history>>
  BY DEF Edit
<1>2. \A s \in Nodes : file'[s] \in Nat \ {0} /\ file'[s] >= file[s]
  BY <1>1 DEF SyncInv, TypeOK
<1>3. ASSUME NEW s \in Nodes, NEW c \in Coverage, Genuine(s, c) PROVE Genuine(s, c)'
  <2>1. clock \in Nat
    BY DEF SyncInv, TypeOK
  <2>2. clock' \in Nat /\ clock' >= clock /\ loads \subseteq loads'
    BY <1>1, <2>1 DEF history
  <2>3. QED
    BY <1>2, <1>3, <2>2, GenuineGrows DEF SyncInv
<1>4. \A s \in Nodes : Held(s)' = Held(s)
  BY <1>1 DEF Held
<1>5. TypeOK'
  <2>1. file' \in [Nodes -> Nat \ {0}]
    BY <1>1 DEF SyncInv, TypeOK
  <2>2. QED
    BY <1>1, <2>1 DEF SyncInv, TypeOK, gis, history
<1>6. HeldInv'
  BY <1>3, <1>4, HeldTypes DEF SyncInv, HeldInv
<1>7. OrderInv' /\ OwnInv' /\ FreshInv'
  <2>1. OrderInv'
    BY <1>4 DEF SyncInv, OrderInv
  <2>2. \A s \in Nodes : own[s] \in Coverage /\ fresh[s] \in Coverage
    BY DEF SyncInv, TypeOK
  <2>3. OwnInv'
    BY <1>1, <1>3, <1>4, <2>2 DEF SyncInv, OwnInv, gis
  <2>4. FreshInv'
    BY <1>1, <1>3, <2>2 DEF SyncInv, FreshInv, gis
  <2>5. QED
    BY <2>1, <2>3, <2>4
<1>8. DownInv' /\ SelfInv' /\ BootedInv' /\ JobInv' /\ PushedWhenDone' /\ OnlyDeclaredCoverage'
  BY <1>1 DEF SyncInv, DownInv, SelfInv, BootedInv, JobInv, PushedWhenDone,
              OnlyDeclaredCoverage, gis, history
<1>9. NetInv'
  BY <1>1 DEF SyncInv, NetInv, history
<1>10. QED
  BY <1>5, <1>6, <1>7, <1>8, <1>9 DEF SyncInv

\* A reload begins, or fails: what was published of it stays.
LEMMA ReloadEndsPreserve ==
  ASSUME SyncInv, NEW n \in Nodes, StartReload(n) \/ FailReload(n)
  PROVE  SyncInv'
<1>1. /\ UNCHANGED <<file, up, own, store, job, pending, net, clock, history>>
      /\ fresh' = fresh \/ fresh' = [fresh EXCEPT ![n] = None]
      /\ \/ reloading' = [reloading EXCEPT ![n] = TRUE] /\ Role[n] # "fg" /\ up[n] /\ fresh' = fresh
         \/ reloading' = [reloading EXCEPT ![n] = FALSE] /\ fresh' = [fresh EXCEPT ![n] = None]
  BY DEF StartReload, FailReload
<1>2. \A s \in Nodes : Held(s)' = Held(s)
  BY <1>1 DEF Held
<1>3. \A s \in Nodes : \A c : Genuine(s, c)' <=> Genuine(s, c)
  BY <1>1 DEF Genuine, history
<1>4. TypeOK'
  BY <1>1, NoneIsCoverage DEF SyncInv, TypeOK, history
<1>5. HeldInv' /\ OrderInv'
  BY <1>2, <1>3 DEF SyncInv, HeldInv, OrderInv
<1>6. OwnInv'
  BY <1>1, <1>2, <1>3 DEF SyncInv, OwnInv
<1>7. FreshInv'
  BY <1>1, <1>3 DEF SyncInv, FreshInv, TypeOK
<1>8. DownInv'
  BY <1>1 DEF SyncInv, DownInv, TypeOK
<1>9. SelfInv' /\ BootedInv' /\ JobInv' /\ PushedWhenDone' /\ OnlyDeclaredCoverage'
  BY <1>1 DEF SyncInv, SelfInv, BootedInv, JobInv, PushedWhenDone, OnlyDeclaredCoverage, history
<1>10. NetInv'
  BY <1>1 DEF SyncInv, NetInv, history
<1>11. QED
  BY <1>4, <1>5, <1>6, <1>7, <1>8, <1>9, <1>10 DEF SyncInv

\* An AMS that loads its provisioning again replaces its own entry by one of its
\* file, which is no older.
LEMMA ProvisionedKeeps ==
  ASSUME SyncInv, NEW n \in Nodes, NEW c \in Coverage,
         Role[n] = "ams" => c = [stamp |-> file[n], data |-> file[n]],
         store' = Provisioned(n, c)
  PROVE  /\ store' \in [Nodes -> [Nodes -> Coverage]]
         /\ \A i, s \in Nodes :
              \/ store'[i][s] = store[i][s]
              \/ i = n /\ s = n /\ Role[n] = "ams" /\ store'[i][s] = c
         /\ Role[n] = "ams" => store'[n][n] = c
         /\ \A i, s \in Nodes : /\ store'[i][s].stamp >= store[i][s].stamp
                                /\ store'[i][s].data >= store[i][s].data
<1>1. store' = IF Role[n] = "ams" THEN [store EXCEPT ![n][n] = c] ELSE store
  BY DEF Provisioned
<1>2. store \in [Nodes -> [Nodes -> Coverage]]
  BY DEF SyncInv, TypeOK
<1>3. store' \in [Nodes -> [Nodes -> Coverage]]
  BY <1>1, <1>2
<1>4. ASSUME NEW i \in Nodes, NEW s \in Nodes
      PROVE  \/ store'[i][s] = store[i][s]
             \/ i = n /\ s = n /\ Role[n] = "ams" /\ store'[i][s] = c
  BY <1>1, <1>2
<1>5. ASSUME NEW i \in Nodes, NEW s \in Nodes
      PROVE  store'[i][s].stamp >= store[i][s].stamp /\ store'[i][s].data >= store[i][s].data
  <2>1. store[i][s] \in Coverage
    BY <1>2
  <2>2. CASE store'[i][s] = store[i][s]
    BY <2>1, <2>2 DEF Coverage
  <2>3. CASE i = n /\ s = n /\ Role[n] = "ams" /\ store'[i][s] = c
    <3>1. file[n] \in Nat /\ c.stamp = file[n] /\ c.data = file[n]
      BY <2>3 DEF SyncInv, TypeOK
    <3>2. Genuine(n, store[n][n])
      BY DEF SyncInv, HeldInv, Held
    <3>3. store[n][n].stamp <= file[n] /\ store[n][n].data <= file[n]
      <4>1. CASE store[n][n] = None
        BY <3>1, <4>1, NoneIsCoverage
      <4>2. CASE store[n][n] # None
        BY <2>3, <3>2, <4>2 DEF Genuine
      <4>3. QED
        BY <4>1, <4>2
    <3>4. QED
      BY <2>1, <2>3, <3>1, <3>3 DEF Coverage
  <2>4. QED
    BY <1>4, <2>2, <2>3
<1>6. Role[n] = "ams" => store'[n][n] = c
  BY <1>1, <1>2
<1>7. QED
  BY <1>3, <1>4, <1>5, <1>6

LEMMA LoadDataPreserves ==
  ASSUME SyncInv, NEW n \in Nodes, LoadData(n)
  PROVE  SyncInv'
<1>. DEFINE c == [stamp |-> clock + 1, data |-> file[n]]
<1>1. /\ reloading[n] /\ fresh' = [fresh EXCEPT ![n] = c]
      /\ own' = IF Role[n] = "lvf" THEN [own EXCEPT ![n] = [own[n] EXCEPT !.data = file[n]]] ELSE own
      /\ loads' = loads \cup {[node |-> n, stamp |-> clock + 1, data |-> file[n]]}
      /\ clock' = clock + 1
      /\ UNCHANGED <<file, up, reloading, store, job, pending, net, booted>>
  BY DEF LoadData, HalfLoaded
<1>2. /\ file[n] \in Nat \ {0} /\ clock \in Nat /\ own[n] \in Coverage /\ c \in Coverage
      /\ c.stamp = clock + 1 /\ c.data = file[n]
  BY DEF SyncInv, TypeOK, Coverage
<1>. HIDE DEF c
<1>3. up[n] /\ Role[n] # "fg" /\ own[n] # None
  BY <1>1 DEF SyncInv, DownInv, FreshInv, OwnInv
<1>4. ASSUME NEW s \in Nodes, NEW d \in Coverage, Genuine(s, d) PROVE Genuine(s, d)'
  <2>1. file'[s] \in Nat /\ file'[s] >= file[s]
    BY <1>1 DEF SyncInv, TypeOK
  <2>2. clock' \in Nat /\ clock' >= clock /\ loads \subseteq loads'
    BY <1>1, <1>2
  <2>3. QED
    BY <1>4, <2>1, <2>2, GenuineGrows DEF SyncInv
<1>5. \A s \in Nodes : Held(s)' = Held(s)
  BY <1>1 DEF Held
<1>6. ASSUME NEW s \in Nodes, NEW d \in Held(s)
      PROVE  d \in Coverage /\ Genuine(s, d) /\ d.data <= file[s] /\ (Role[s] = "lvf" => d.stamp <= clock)
  <2>1. d \in Coverage /\ Genuine(s, d)
    BY <1>6, HeldTypes DEF SyncInv, HeldInv
  <2>2. file[s] \in Nat
    BY DEF SyncInv, TypeOK
  <2>3. QED
    BY <1>2, <2>1, <2>2, NoneIsCoverage DEF Genuine
<1>7. own'[n].stamp = own[n].stamp /\ own'[n] \in Coverage /\
      \A s \in Nodes : s # n => own'[s] = own[s]
  BY <1>1, <1>2 DEF SyncInv, TypeOK, Coverage
<1>8. Role[n] = "lvf" => own'[n].data = file[n]
  BY <1>1, <1>2 DEF SyncInv, TypeOK, Coverage
<1>9. Role[n] # "lvf" => own' = own
  BY <1>1
<1>10. TypeOK'
  <2>1. own' \in [Nodes -> Coverage]
    BY <1>1, <1>2, <1>7 DEF SyncInv, TypeOK
  <2>2. fresh' \in [Nodes -> Coverage]
    BY <1>1, <1>2 DEF SyncInv, TypeOK
  <2>3. loads' \subseteq [node : Nodes, stamp : Nat, data : Nat] /\ clock' \in Nat
    BY <1>1, <1>2 DEF SyncInv, TypeOK
  <2>4. QED
    BY <1>1, <2>1, <2>2, <2>3 DEF SyncInv, TypeOK
<1>11. HeldInv' /\ OrderInv'
  BY <1>4, <1>5, <1>6 DEF SyncInv, HeldInv, OrderInv
<1>12. Genuine(n, own[n])'
  <2>1. CASE Role[n] = "lvf"
    <3>1. own[n].stamp <= clock /\ own[n].data <= file[n]
      BY <1>3, <2>1 DEF SyncInv, OwnInv, Genuine
    <3>2. PICK l \in loads : l.node = n /\ l.stamp = own[n].stamp /\ l.data <= own[n].data
      BY <1>3, <2>1 DEF SyncInv, OwnInv, Genuine
    <3>3. l \in loads' /\ l.data <= file[n]
      BY <1>1, <1>2, <3>1, <3>2 DEF SyncInv, TypeOK, Coverage
    <3>4. own'[n].stamp <= clock'
      BY <1>1, <1>2, <1>7, <3>1 DEF Coverage
    <3>5. own'[n].data # 0 /\ own'[n].data <= file'[n]
      BY <1>1, <1>2, <1>8, <2>1
    <3>6. \E k \in loads' : k.node = n /\ k.stamp = own'[n].stamp /\ k.data <= own'[n].data
      BY <1>7, <1>8, <2>1, <3>2, <3>3
    <3>7. QED
      BY <2>1, <3>4, <3>5, <3>6 DEF Genuine
  <2>2. CASE Role[n] # "lvf"
    BY <1>2, <1>4, <1>9, <2>2 DEF SyncInv, OwnInv
  <2>3. QED
    BY <2>1, <2>2
<1>13. OwnInv'
  <2>1. ASSUME NEW s \in Nodes PROVE Genuine(s, own[s])'
    BY <1>4, <1>7, <1>12 DEF SyncInv, OwnInv, TypeOK
  <2>2. ASSUME NEW s \in Nodes, up[s], Role[s] # "fg" PROVE own'[s] # None
    <3>1. CASE s = n /\ Role[n] = "lvf"
      BY <1>2, <1>8, <3>1, NoneIsCoverage
    <3>2. CASE ~(s = n /\ Role[n] = "lvf")
      BY <1>7, <1>9, <2>2, <3>2 DEF SyncInv, OwnInv
    <3>3. QED
      BY <3>1, <3>2
  <2>3. ASSUME NEW s \in Nodes, up[s], Role[s] = "lvf", NEW d \in Held(s)
        PROVE  d.stamp <= own'[s].stamp /\ d.data <= own'[s].data
    <3>1. d.stamp <= own[s].stamp /\ d.data <= own[s].data
      BY <2>3 DEF SyncInv, OwnInv
    <3>2. QED
      BY <1>6, <1>7, <1>8, <2>3, <3>1
  <2>4. QED
    BY <1>1, <1>5, <2>1, <2>2, <2>3 DEF OwnInv
<1>14. FreshInv'
  <2>1. ASSUME NEW s \in Nodes, s # n, fresh'[s] # None
        PROVE  /\ reloading[s]
               /\ Role[s] = "lvf" =>
                    /\ fresh'[s].data = own'[s].data /\ fresh'[s].stamp > own'[s].stamp
                    /\ Genuine(s, fresh[s])'
    BY <1>1, <1>4, <1>7, <2>1 DEF SyncInv, FreshInv, TypeOK
  <2>2. fresh'[n] = c
    BY <1>1 DEF SyncInv, TypeOK
  <2>3. ASSUME Role[n] = "lvf"
        PROVE  /\ fresh'[n].data = own'[n].data /\ fresh'[n].stamp > own'[n].stamp
               /\ Genuine(n, fresh[n])'
    <3>1. own[n].stamp <= clock
      BY <1>3, <2>3 DEF SyncInv, OwnInv, Genuine
    <3>2. c.stamp > own'[n].stamp
      BY <1>2, <1>7, <3>1 DEF Coverage
    <3>3. c.stamp <= clock' /\ c.data # 0 /\ c.data <= file'[n]
      BY <1>1, <1>2
    <3>4. \E k \in loads' : k.node = n /\ k.stamp = c.stamp /\ k.data <= c.data
      <4>. DEFINE k == [node |-> n, stamp |-> clock + 1, data |-> file[n]]
      <4>1. k \in loads' /\ k.node = n /\ k.stamp = c.stamp /\ k.data <= c.data
        BY <1>1, <1>2
      <4>2. QED
        BY <4>1
    <3>5. QED
      BY <1>2, <1>8, <2>2, <2>3, <3>2, <3>3, <3>4 DEF Genuine
  <2>4. ASSUME NEW s \in Nodes, reloading[s] PROVE Role[s] # "fg"
    BY <2>4 DEF SyncInv, FreshInv
  <2>5. QED
    BY <1>1, <2>1, <2>2, <2>3, <2>4 DEF FreshInv
<1>15. SelfInv' /\ BootedInv'
  <2>1. SelfInv'
    BY <1>1, <1>7, <1>9 DEF SyncInv, SelfInv
  <2>2. BootedInv'
    BY <1>1, <1>7 DEF SyncInv, BootedInv
  <2>3. QED
    BY <2>1, <2>2
<1>16. DownInv' /\ JobInv' /\ PushedWhenDone' /\ OnlyDeclaredCoverage' /\ NetInv'
  BY <1>1 DEF SyncInv, DownInv, JobInv, PushedWhenDone, OnlyDeclaredCoverage, NetInv
<1>17. QED
  BY <1>10, <1>11, <1>13, <1>14, <1>15, <1>16 DEF SyncInv

\* A load that is over: its stamp is set, an AMS has its provisioning anew.
LEMMA FinishReloadPreserves ==
  ASSUME SyncInv, NEW n \in Nodes, FinishReload(n)
  PROVE  /\ SyncInv'
         /\ \A i, s \in Nodes : /\ store'[i][s].stamp >= store[i][s].stamp
                                /\ store'[i][s].data >= store[i][s].data
<1>1. PICK c : /\ c = IF Role[n] = "lvf" THEN fresh[n] ELSE Declared(n, file[n], 0)
               /\ own' = [own EXCEPT ![n] = c] /\ store' = Provisioned(n, c)
  BY DEF FinishReload
<1>2. /\ fresh[n] # None /\ fresh' = [fresh EXCEPT ![n] = None]
      /\ reloading' = [reloading EXCEPT ![n] = FALSE]
      /\ pending' = [pending EXCEPT ![n] = IF Upstream[n] = Nobody THEN @ ELSE @ + 1]
      /\ UNCHANGED <<file, up, job, net, clock, history>>
  BY DEF FinishReload
<1>3. up[n] /\ Role[n] # "fg" /\ own[n] # None
  BY <1>2 DEF SyncInv, DownInv, FreshInv, OwnInv
<1>4. file[n] \in Nat \ {0} /\ own[n] \in Coverage /\ fresh[n] \in Coverage /\ clock \in Nat
  BY DEF SyncInv, TypeOK
<1>5. Role[n] = "lvf" \/ Role[n] = "ams"
  BY <1>3, TreeAssumption
<1>6. Role[n] = "ams" => c = [stamp |-> file[n], data |-> file[n]]
  BY <1>1, <1>5 DEF Declared
<1>7. /\ c \in Coverage /\ c # None /\ Genuine(n, c)
      /\ c.stamp >= own[n].stamp /\ c.data >= own[n].data
      /\ Role[n] = "lvf" => c = fresh[n] /\ c.stamp > own[n].stamp /\ c.data = own[n].data
  <2>1. CASE Role[n] = "lvf"
    <3>1. c = fresh[n] /\ c.stamp > own[n].stamp /\ c.data = own[n].data /\ Genuine(n, c)
      BY <1>1, <1>2, <2>1 DEF SyncInv, FreshInv
    <3>2. QED
      BY <1>2, <1>4, <2>1, <3>1 DEF Coverage
  <2>2. CASE Role[n] = "ams"
    <3>1. c = [stamp |-> file[n], data |-> file[n]]
      BY <1>6, <2>2
    <3>2. own[n].stamp = own[n].data /\ own[n].data <= file[n]
      BY <1>3, <2>2 DEF SyncInv, OwnInv, Genuine
    <3>3. QED
      BY <1>4, <2>2, <3>1, <3>2 DEF Coverage, Genuine, None
  <2>3. QED
    BY <1>5, <2>1, <2>2
<1>8. /\ store' \in [Nodes -> [Nodes -> Coverage]]
      /\ \A i, s \in Nodes :
           \/ store'[i][s] = store[i][s]
           \/ i = n /\ s = n /\ Role[n] = "ams" /\ store'[i][s] = c
      /\ Role[n] = "ams" => store'[n][n] = c
      /\ \A i, s \in Nodes : /\ store'[i][s].stamp >= store[i][s].stamp
                             /\ store'[i][s].data >= store[i][s].data
  BY <1>1, <1>6, <1>7, ProvisionedKeeps
<1>9. \A s \in Nodes : \A d : Genuine(s, d)' <=> Genuine(s, d)
  BY <1>2 DEF Genuine, history
<1>10. \A s \in Nodes : \A d \in Held(s)' :
         d \in Held(s) \/ (s = n /\ Role[n] = "ams" /\ d = c)
  BY SMTT(30), <1>2, <1>8 DEF Held
<1>11. own'[n] = c /\ \A s \in Nodes : s # n => own'[s] = own[s]
  BY <1>1 DEF SyncInv, TypeOK
<1>12. TypeOK'
  <2>1. own' \in [Nodes -> Coverage] /\ fresh' \in [Nodes -> Coverage]
    BY <1>1, <1>2, <1>7, NoneIsCoverage DEF SyncInv, TypeOK
  <2>2. pending' \in [Nodes -> Nat] /\ reloading' \in [Nodes -> BOOLEAN]
    BY <1>2 DEF SyncInv, TypeOK
  <2>3. QED
    BY <1>2, <1>8, <2>1, <2>2 DEF SyncInv, TypeOK, history
<1>13. HeldInv'
  BY <1>7, <1>9, <1>10 DEF SyncInv, HeldInv
<1>14. OrderInv'
  BY <1>10 DEF SyncInv, OrderInv
<1>15. OwnInv'
  <2>1. ASSUME NEW s \in Nodes PROVE Genuine(s, own[s])'
    <3>1. Genuine(s, own'[s])
      BY <1>7, <1>11 DEF SyncInv, OwnInv
    <3>2. QED
      BY <1>2, <3>1 DEF Genuine, history
  <2>2. ASSUME NEW s \in Nodes, up[s], Role[s] # "fg" PROVE own'[s] # None
    BY <1>7, <1>11, <2>2 DEF SyncInv, OwnInv
  <2>3. ASSUME NEW s \in Nodes, up[s], Role[s] = "lvf", NEW d \in Held(s)'
        PROVE  d.stamp <= own'[s].stamp /\ d.data <= own'[s].data
    <3>1. d \in Held(s)
      BY <1>10, <2>3
    <3>2. d.stamp <= own[s].stamp /\ d.data <= own[s].data /\ d \in Coverage
      BY <2>3, <3>1, HeldTypes DEF SyncInv, OwnInv
    <3>3. QED
      BY <1>4, <1>7, <1>11, <2>3, <3>2 DEF Coverage
  <2>4. QED
    BY <1>2, <2>1, <2>2, <2>3 DEF OwnInv
<1>16. FreshInv'
  <2>1. fresh'[n] = None /\ \A s \in Nodes : s # n => fresh'[s] = fresh[s] /\ reloading'[s] = reloading[s]
    BY <1>2 DEF SyncInv, TypeOK
  <2>2. \A s \in Nodes : reloading'[s] => reloading[s]
    BY <1>2 DEF SyncInv, TypeOK
  <2>3. ASSUME NEW s \in Nodes, fresh'[s] # None, Role[s] = "lvf" PROVE Genuine(s, fresh[s])'
    <3>1. Genuine(s, fresh'[s])
      BY <2>1, <2>3 DEF SyncInv, FreshInv
    <3>2. QED
      BY <1>2, <3>1 DEF Genuine, history
  <2>4. QED
    BY <1>11, <2>1, <2>2, <2>3 DEF SyncInv, FreshInv
<1>17. DownInv'
  BY <1>2, <1>3 DEF SyncInv, DownInv, TypeOK
<1>18. SelfInv'
  BY <1>2, <1>8, <1>11 DEF SyncInv, SelfInv
<1>19. BootedInv'
  <2>1. ASSUME NEW s \in Nodes, up[s] PROVE own'[s].stamp >= booted[s]
    <3>1. own[s].stamp >= booted[s] /\ own[s] \in Coverage /\ booted[s] \in Nat
      BY <2>1 DEF SyncInv, BootedInv, TypeOK
    <3>2. QED
      BY <1>7, <1>11, <3>1 DEF Coverage
  <2>2. QED
    BY <1>2, <2>1 DEF BootedInv, history
<1>20. JobInv'
  BY <1>2 DEF SyncInv, JobInv, TypeOK
<1>21. PushedWhenDone'
  <2>1. ASSUME NEW s \in Nodes, Upstream[s] # Nobody PROVE store'[Upstream[s]][s] = store[Upstream[s]][s]
    BY <1>8, <2>1, TreeAssumption DEF Peers
  <2>2. QED
    BY <1>2, <2>1 DEF SyncInv, PushedWhenDone, history
<1>22. OnlyDeclaredCoverage' /\ NetInv'
  BY SMTT(30), <1>2, <1>3, <1>8 DEF SyncInv, OnlyDeclaredCoverage, NetInv, history
<1>23. QED
  BY <1>8, <1>12, <1>13, <1>14, <1>15, <1>16, <1>17, <1>18, <1>19, <1>20, <1>21, <1>22 DEF SyncInv

\* A start: what the node declares is newer than all it has told before.
LEMMA BootPreserves ==
  ASSUME SyncInv, NEW n \in Nodes, Boot(n)
  PROVE  /\ SyncInv'
         /\ \A i, s \in Nodes : /\ store'[i][s].stamp >= store[i][s].stamp
                                /\ store'[i][s].data >= store[i][s].data
<1>1. PICK c : /\ c = Declared(n, file[n], clock + 1)
               /\ own' = [own EXCEPT ![n] = c] /\ store' = Provisioned(n, c)
               /\ booted' = [booted EXCEPT ![n] = c.stamp]
  BY DEF Boot
<1>2. /\ ~up[n] /\ clock' = clock + 1 /\ up' = [up EXCEPT ![n] = TRUE]
      /\ loads' = loads \cup {[node |-> n, stamp |-> clock + 1, data |-> file[n]]}
      /\ job' = [job EXCEPT ![n] = Tasks(n)]
      /\ UNCHANGED <<file, fresh, reloading, pending, net>>
  BY DEF Boot
<1>3. clock \in Nat /\ file[n] \in Nat \ {0}
  BY DEF SyncInv, TypeOK
<1>4. c \in Coverage /\ Genuine(n, c)' /\ (Role[n] # "fg" => c # None)
  BY <1>1, <1>2, <1>3, DeclaredIsGenuine
<1>5. Role[n] = "ams" => c = [stamp |-> file[n], data |-> file[n]]
  BY <1>1 DEF Declared
<1>6. /\ store' \in [Nodes -> [Nodes -> Coverage]]
      /\ \A i, s \in Nodes :
           \/ store'[i][s] = store[i][s]
           \/ i = n /\ s = n /\ Role[n] = "ams" /\ store'[i][s] = c
      /\ Role[n] = "ams" => store'[n][n] = c
      /\ \A i, s \in Nodes : /\ store'[i][s].stamp >= store[i][s].stamp
                             /\ store'[i][s].data >= store[i][s].data
  BY <1>1, <1>4, <1>5, ProvisionedKeeps
<1>7. ASSUME NEW s \in Nodes, NEW d \in Coverage, Genuine(s, d) PROVE Genuine(s, d)'
  <2>1. file'[s] \in Nat /\ file'[s] >= file[s]
    BY <1>2 DEF SyncInv, TypeOK
  <2>2. clock' \in Nat /\ clock' >= clock /\ loads \subseteq loads'
    BY <1>2, <1>3
  <2>3. QED
    BY <1>7, <2>1, <2>2, GenuineGrows DEF SyncInv
<1>8. \A s \in Nodes : \A d \in Held(s)' :
        d \in Held(s) \/ (s = n /\ Role[n] = "ams" /\ d = c)
  BY <1>2, <1>6 DEF Held
<1>9. own'[n] = c /\ \A s \in Nodes : s # n => own'[s] = own[s]
  BY <1>1 DEF SyncInv, TypeOK
<1>10. \A s \in Nodes : up'[s] <=> (up[s] \/ s = n)
  BY <1>2 DEF SyncInv, TypeOK
<1>11. ~reloading[n] /\ fresh[n] = None /\ pending[n] = 0
  BY <1>2 DEF SyncInv, DownInv, FreshInv
<1>12. TypeOK'
  <2>1. own' \in [Nodes -> Coverage] /\ booted' \in [Nodes -> Nat]
    BY <1>1, <1>4 DEF SyncInv, TypeOK, Coverage
  <2>2. up' \in [Nodes -> BOOLEAN] /\ clock' \in Nat
    BY <1>2, <1>3 DEF SyncInv, TypeOK
  <2>3. loads' \subseteq [node : Nodes, stamp : Nat, data : Nat]
    BY <1>2, <1>3 DEF SyncInv, TypeOK
  <2>4. Tasks(n) \in [Nodes -> {"none", "ready", "sent"}]
    BY DEF Tasks
  <2>5. job' \in [Nodes -> [Nodes -> {"none", "ready", "sent"}]]
    BY <1>2, <2>4 DEF SyncInv, TypeOK
  <2>6. QED
    BY <1>2, <1>6, <2>1, <2>2, <2>3, <2>5 DEF SyncInv, TypeOK
<1>13. HeldInv'
  <2>1. ASSUME NEW s \in Nodes, NEW d \in Held(s)' PROVE Genuine(s, d)'
    <3>1. CASE d \in Held(s)
      BY <1>7, <3>1, HeldTypes DEF SyncInv, HeldInv
    <3>2. CASE s = n /\ d = c
      BY <1>4, <3>2
    <3>3. QED
      BY <1>8, <2>1, <3>1, <3>2
  <2>2. QED
    BY <2>1 DEF HeldInv
<1>14. OrderInv'
  BY <1>8 DEF SyncInv, OrderInv
<1>15. OwnInv'
  <2>1. ASSUME NEW s \in Nodes PROVE Genuine(s, own[s])'
    <3>1. CASE s = n
      BY <1>4, <1>9, <3>1
    <3>2. CASE s # n
      <4>1. own[s] \in Coverage /\ Genuine(s, own[s]) /\ own'[s] = own[s]
        BY <1>9, <3>2 DEF SyncInv, OwnInv, TypeOK
      <4>2. QED
        BY <1>7, <4>1
    <3>3. QED
      BY <3>1, <3>2
  <2>2. ASSUME NEW s \in Nodes, up'[s], Role[s] # "fg" PROVE own'[s] # None
    BY <1>4, <1>9, <1>10, <2>2 DEF SyncInv, OwnInv
  <2>3. ASSUME NEW s \in Nodes, up'[s], Role[s] = "lvf", NEW d \in Held(s)'
        PROVE  d.stamp <= own'[s].stamp /\ d.data <= own'[s].data
    <3>1. d \in Held(s) /\ d \in Coverage
      BY <1>8, <2>3, HeldTypes DEF SyncInv
    <3>2. CASE s # n
      BY <1>9, <1>10, <2>3, <3>1, <3>2 DEF SyncInv, OwnInv
    <3>3. CASE s = n
      <4>1. c = [stamp |-> clock + 1, data |-> file[n]]
        BY <1>1, <2>3, <3>3 DEF Declared
      <4>2. d = None \/ (d.stamp <= clock /\ d.data <= file[n])
        BY <2>3, <3>1, <3>3 DEF SyncInv, HeldInv, Genuine
      <4>3. QED
        BY <1>3, <1>9, <3>1, <3>3, <4>1, <4>2, NoneIsCoverage DEF Coverage
    <3>4. QED
      BY <3>2, <3>3
  <2>4. QED
    BY <2>1, <2>2, <2>3 DEF OwnInv
<1>16. FreshInv'
  <2>1. ASSUME NEW s \in Nodes, fresh'[s] # None, Role[s] = "lvf"
        PROVE  /\ fresh'[s].data = own'[s].data /\ fresh'[s].stamp > own'[s].stamp
               /\ Genuine(s, fresh[s])'
    <3>1. s # n /\ fresh'[s] = fresh[s] /\ fresh[s] \in Coverage
      BY <1>2, <1>11, <2>1 DEF SyncInv, TypeOK
    <3>2. fresh[s].data = own[s].data /\ fresh[s].stamp > own[s].stamp /\ Genuine(s, fresh[s])
      BY <2>1, <3>1 DEF SyncInv, FreshInv
    <3>3. QED
      BY <1>7, <1>9, <3>1, <3>2
  <2>2. QED
    BY <1>2, <2>1 DEF SyncInv, FreshInv
<1>17. DownInv'
  BY <1>2, <1>10 DEF SyncInv, DownInv, TypeOK
<1>18. SelfInv'
  BY <1>6, <1>9, <1>10 DEF SyncInv, SelfInv
<1>19. BootedInv'
  <2>1. booted'[n] = c.stamp /\ \A s \in Nodes : s # n => booted'[s] = booted[s]
    BY <1>1 DEF SyncInv, TypeOK
  <2>2. c.stamp >= c.stamp
    BY <1>4 DEF Coverage
  <2>3. QED
    BY <1>9, <1>10, <2>1, <2>2 DEF SyncInv, BootedInv
<1>20. JobInv'
  BY <1>2 DEF SyncInv, JobInv, TypeOK, Tasks
<1>21. NetInv'
  <2>1. ASSUME NEW m \in net, m.kind = "push", m.awaited PROVE booted'[m.from] = booted[m.from]
    <3>1. Asker(m) = m.from /\ m.from \in Nodes /\ up[m.from]
      BY <2>1, Exchange
    <3>2. m.from # n
      BY <1>2, <3>1
    <3>3. QED
      BY <1>1, <3>1, <3>2 DEF SyncInv, TypeOK
  <2>2. QED
    BY <1>2, <2>1 DEF SyncInv, NetInv
<1>22. PushedWhenDone'
  <2>1. SUFFICES ASSUME NEW s \in Nodes, up'[s], Upstream[s] # Nobody, job'[s][Upstream[s]] = "none"
                 PROVE  store'[Upstream[s]][s].stamp >= booted'[s]
    BY DEF PushedWhenDone
  <2>2. Upstream[s] \in Nodes /\ Upstream[s] # s
    BY <2>1, TreeAssumption DEF Peers
  <2>3. s # n
    BY <1>2, <2>1, <2>2 DEF SyncInv, TypeOK, Tasks, Peers
  <2>4. up[s] /\ job'[s] = job[s] /\ booted'[s] = booted[s]
    BY <1>1, <1>2, <1>10, <2>1, <2>3 DEF SyncInv, TypeOK
  <2>5. store'[Upstream[s]][s] = store[Upstream[s]][s]
    BY <1>6, <2>2
  <2>6. QED
    BY <2>1, <2>4, <2>5 DEF SyncInv, PushedWhenDone
<1>23. OnlyDeclaredCoverage'
  BY <1>6 DEF SyncInv, OnlyDeclaredCoverage
<1>24. QED
  BY <1>6, <1>12, <1>13, <1>14, <1>15, <1>16, <1>17, <1>18, <1>19, <1>20, <1>21, <1>22, <1>23
     DEF SyncInv

LEMMA CrashPreserves ==
  ASSUME SyncInv, NEW n \in Nodes, Crash(n)
  PROVE  SyncInv'
<1>1. /\ up' = [up EXCEPT ![n] = FALSE] /\ own' = [own EXCEPT ![n] = None]
      /\ fresh' = [fresh EXCEPT ![n] = None] /\ reloading' = [reloading EXCEPT ![n] = FALSE]
      /\ job' = [job EXCEPT ![n] = [p \in Nodes |-> "none"]]
      /\ pending' = [pending EXCEPT ![n] = 0] /\ net' = Abandon(n)
      /\ UNCHANGED <<file, store, clock, history>>
  BY DEF Crash
<1>2. \A s \in Nodes : (up'[s] <=> up[s] /\ s # n) /\ (s # n => own'[s] = own[s] /\ fresh'[s] = fresh[s])
  BY <1>1 DEF SyncInv, TypeOK
<1>3. own'[n] = None /\ fresh'[n] = None /\ ~reloading'[n] /\ pending'[n] = 0
  BY <1>1 DEF SyncInv, TypeOK
\* Nobody waits for what n asked; nothing else changes in the messages.
<1>4. ASSUME NEW x \in net'
      PROVE  \E m \in net : /\ x \in Message /\ x.kind = m.kind /\ x.from = m.from /\ x.to = m.to
                            /\ x.body = m.body /\ Asker(x) = Asker(m)
                            /\ x.awaited => m.awaited
                            /\ Asker(x) = n => ~x.awaited
  <2>1. PICK m \in net : x = IF Asker(m) = n THEN [m EXCEPT !.awaited = FALSE] ELSE m
    BY <1>1, <1>4 DEF Abandon
  <2>2. m \in Message
    BY DEF SyncInv, TypeOK
  <2>3. CASE Asker(m) = n
    <3>1. x = [m EXCEPT !.awaited = FALSE]
      BY <2>1, <2>3
    <3>2. /\ x \in Message /\ x.kind = m.kind /\ x.from = m.from /\ x.to = m.to
          /\ x.body = m.body /\ x.awaited = FALSE
      BY <2>2, <3>1 DEF Message
    <3>3. QED
      BY <3>2 DEF Asker
  <2>4. CASE Asker(m) # n
    BY <2>1, <2>2, <2>4
  <2>5. QED
    BY <2>3, <2>4
<1>5. \A s \in Nodes : \A d \in Held(s)' : d \in Held(s)
  BY <1>1, <1>4 DEF Held
<1>6. \A s \in Nodes : \A d : Genuine(s, d)' <=> Genuine(s, d)
  BY <1>1 DEF Genuine, history
<1>7. TypeOK'
  <2>1. own' \in [Nodes -> Coverage] /\ fresh' \in [Nodes -> Coverage]
    BY <1>1, NoneIsCoverage DEF SyncInv, TypeOK
  <2>2. up' \in [Nodes -> BOOLEAN] /\ reloading' \in [Nodes -> BOOLEAN] /\ pending' \in [Nodes -> Nat]
    BY <1>1 DEF SyncInv, TypeOK
  <2>3. job' \in [Nodes -> [Nodes -> {"none", "ready", "sent"}]]
    BY <1>1 DEF SyncInv, TypeOK
  <2>4. net' \subseteq Message
    BY <1>4
  <2>5. QED
    BY <1>1, <2>1, <2>2, <2>3, <2>4 DEF SyncInv, TypeOK, history
<1>8. HeldInv' /\ OrderInv'
  BY <1>5, <1>6 DEF SyncInv, HeldInv, OrderInv
<1>9. OwnInv'
  <2>1. ASSUME NEW s \in Nodes PROVE Genuine(s, own[s])'
    <3>1. Genuine(s, own'[s])
      BY <1>2, <1>3 DEF SyncInv, OwnInv, Genuine
    <3>2. QED
      BY <1>1, <3>1 DEF Genuine, history
  <2>2. QED
    BY <1>2, <1>5, <2>1 DEF SyncInv, OwnInv
<1>10. FreshInv'
  <2>1. ASSUME NEW s \in Nodes, fresh'[s] # None, Role[s] = "lvf"
        PROVE  /\ fresh'[s].data = own'[s].data /\ fresh'[s].stamp > own'[s].stamp
               /\ Genuine(s, fresh[s])'
    <3>1. s # n /\ fresh'[s] = fresh[s] /\ own'[s] = own[s]
      BY <1>2, <1>3, <2>1
    <3>2. fresh[s].data = own[s].data /\ fresh[s].stamp > own[s].stamp /\ Genuine(s, fresh'[s])
      BY <2>1, <3>1 DEF SyncInv, FreshInv
    <3>3. QED
      BY <1>1, <3>1, <3>2 DEF Genuine, history
  <2>2. \A s \in Nodes : s # n => reloading'[s] = reloading[s]
    BY <1>1 DEF SyncInv, TypeOK
  <2>3. QED
    BY <1>2, <1>3, <2>1, <2>2 DEF SyncInv, FreshInv
<1>11. DownInv'
  <2>1. ASSUME NEW s \in Nodes, ~up'[s]
        PROVE  /\ \A p \in Nodes : job'[s][p] = "none"
               /\ pending'[s] = 0 /\ ~reloading'[s]
               /\ \A x \in net' : Asker(x) = s => ~x.awaited
    <3>1. CASE s = n
      BY <1>1, <1>3, <1>4, <3>1 DEF SyncInv, TypeOK
    <3>2. CASE s # n
      <4>1. ~up[s] /\ job'[s] = job[s] /\ pending'[s] = pending[s] /\ reloading'[s] = reloading[s]
        BY <1>1, <1>2, <2>1, <3>2 DEF SyncInv, TypeOK
      <4>2. \A x \in net' : Asker(x) = s => ~x.awaited
        BY <1>4, <4>1 DEF SyncInv, DownInv
      <4>3. QED
        BY <4>1, <4>2 DEF SyncInv, DownInv
    <3>3. QED
      BY <3>1, <3>2
  <2>2. QED
    BY <2>1 DEF DownInv
<1>12. SelfInv' /\ BootedInv'
  BY <1>1, <1>2 DEF SyncInv, SelfInv, BootedInv, history
<1>13. JobInv'
  BY <1>1 DEF SyncInv, JobInv, TypeOK
<1>14. PushedWhenDone'
  <2>1. \A s \in Nodes : s # n => job'[s] = job[s]
    BY <1>1 DEF SyncInv, TypeOK
  <2>2. QED
    BY <1>1, <1>2, <2>1 DEF SyncInv, PushedWhenDone, history
<1>15. OnlyDeclaredCoverage'
  BY <1>1 DEF SyncInv, OnlyDeclaredCoverage
<1>16. NetInv'
  BY <1>1, <1>4 DEF SyncInv, NetInv, history
<1>17. QED
  BY <1>7, <1>8, <1>9, <1>10, <1>11, <1>12, <1>13, <1>14, <1>15, <1>16 DEF SyncInv

LEMMA InitSync == Init => SyncInv
<1>. SUFFICES ASSUME Init PROVE SyncInv
  OBVIOUS
<1>1. \A n \in Nodes : Declared(n, 1, 1) \in Coverage /\
        Declared(n, 1, 1) = IF Role[n] = "fg" THEN None ELSE [stamp |-> 1, data |-> 1]
  BY NoneIsCoverage, TreeAssumption DEF Declared, Coverage
<1>2. /\ clock = 1 /\ net = {} /\ \A n \in Nodes : file[n] = 1 /\ fresh[n] = None /\ ~reloading[n]
      /\ \A n \in Nodes : up[n] <=> n \notin Starting
      /\ \A n \in Nodes : own[n] = IF n \in Starting \/ Role[n] = "fg" THEN None
                                   ELSE [stamp |-> 1, data |-> 1]
      /\ \A n, s \in Nodes : store[n][s] = IF s = n /\ Role[n] = "ams" THEN own[n] ELSE None
  BY <1>1 DEF Init
<1>3. \A n \in Nodes : own[n] \in Coverage /\ Genuine(n, own[n])
  <2>1. ASSUME NEW n \in Nodes PROVE Genuine(n, own[n])
    <3>1. CASE n \in Starting \/ Role[n] = "fg"
      BY <1>2, <3>1 DEF Genuine
    <3>2. CASE ~(n \in Starting \/ Role[n] = "fg")
      <4>1. [node |-> n, stamp |-> 1, data |-> 1] \in loads
        BY <3>2 DEF Init
      <4>2. own[n] = [stamp |-> 1, data |-> 1] /\ clock = 1 /\ file[n] = 1
        BY <1>2, <3>2
      <4>3. \E l \in loads : l.node = n /\ l.stamp = own[n].stamp /\ l.data <= own[n].data
        <5>1. /\ [node |-> n, stamp |-> 1, data |-> 1].node = n
              /\ [node |-> n, stamp |-> 1, data |-> 1].stamp = own[n].stamp
              /\ [node |-> n, stamp |-> 1, data |-> 1].data <= own[n].data
          BY <4>2
        <5>2. QED
          BY <4>1, <5>1
      <4>4. QED
        BY <3>2, <4>2, <4>3 DEF Genuine
    <3>3. QED
      BY <3>1, <3>2
  <2>2. [stamp |-> 1, data |-> 1] \in Coverage
    BY DEF Coverage
  <2>3. \A n \in Nodes : own[n] \in {None, [stamp |-> 1, data |-> 1]}
    BY <1>2
  <2>4. QED
    BY <2>1, <2>2, <2>3, NoneIsCoverage
<1>4. \A s \in Nodes : \A c \in Held(s) : c = None \/ (Role[s] = "ams" /\ c = own[s])
  BY <1>2 DEF Held
<1>5. TypeOK
  <2>1. own \in [Nodes -> Coverage] /\ fresh \in [Nodes -> Coverage]
    BY <1>3, NoneIsCoverage DEF Init
  <2>2. store \in [Nodes -> [Nodes -> Coverage]]
    BY <1>3, NoneIsCoverage DEF Init
  <2>3. job \in [Nodes -> [Nodes -> {"none", "ready", "sent"}]]
    BY DEF Init, Tasks
  <2>4. booted \in [Nodes -> Nat]
    BY <1>3 DEF Init, Coverage
  <2>5. loads \subseteq [node : Nodes, stamp : Nat, data : Nat]
    BY DEF Init
  <2>6. QED
    BY <2>1, <2>2, <2>3, <2>4, <2>5 DEF Init, TypeOK
<1>6. HeldInv
  BY <1>3, <1>4 DEF HeldInv, Genuine
<1>7. OrderInv
  BY <1>4, NoneIsCoverage DEF OrderInv
<1>8. OwnInv
  <2>1. \A s \in Nodes : up[s] /\ Role[s] # "fg" => own[s] # None
    <3>1. [stamp |-> 1, data |-> 1] # None
      BY DEF None
    <3>2. QED
      BY <1>2, <3>1
  <2>2. \A s \in Nodes : Role[s] = "lvf" =>
          \A c \in Held(s) : c.stamp <= own[s].stamp /\ c.data <= own[s].data
    BY <1>3, <1>4, NoneIsCoverage DEF Coverage
  <2>3. QED
    BY <1>3, <2>1, <2>2 DEF OwnInv
<1>9. FreshInv /\ NetInv
  BY <1>2 DEF FreshInv, NetInv
<1>10. DownInv
  BY <1>2 DEF DownInv, Init
<1>11. SelfInv
  BY <1>2 DEF SelfInv
<1>12. BootedInv
  BY <1>3 DEF BootedInv, Init, Coverage
<1>13. JobInv
  <2>1. \A n \in Nodes : pending[n] = 0
    BY DEF Init
  <2>2. \A n, p \in Nodes : job[n][p] # "none" => p \in Peers(n)
    BY DEF Init, Tasks
  <2>3. ASSUME NEW n \in Nodes PROVE ~(pending[n] > 0)
    <3>1. pending[n] = 0
      BY <2>1
    <3>2. ~(0 > 0)
      OBVIOUS
    <3>3. QED
      BY <3>1, <3>2
  <2>4. QED
    BY <2>2, <2>3 DEF JobInv
<1>14. PushedWhenDone
  BY <1>2, TreeAssumption DEF PushedWhenDone, Init, Tasks, Peers
<1>15. OnlyDeclaredCoverage
  BY <1>2 DEF OnlyDeclaredCoverage
<1>16. QED
  BY <1>5, <1>6, <1>7, <1>8, <1>9, <1>10, <1>11, <1>12, <1>13, <1>14, <1>15 DEF SyncInv

-----------------------------------------------------------------------------
\* SyncInv is inductive, and no step takes a store back.
LEMMA StepSync ==
  ASSUME SyncInv, [Next]_vars
  PROVE  /\ SyncInv'
         /\ \A n, s \in Nodes : /\ store'[n][s].stamp >= store[n][s].stamp
                                /\ store'[n][s].data >= store[n][s].data
<1>0. ASSUME store' = store
      PROVE  \A n, s \in Nodes : /\ store'[n][s].stamp >= store[n][s].stamp
                                 /\ store'[n][s].data >= store[n][s].data
  BY <1>0 DEF SyncInv, TypeOK, Coverage
<1>1. ASSUME NEW n \in Nodes, Boot(n) \/ FinishReload(n)
      PROVE  /\ SyncInv'
             /\ \A i, s \in Nodes : /\ store'[i][s].stamp >= store[i][s].stamp
                                    /\ store'[i][s].data >= store[i][s].data
  BY <1>1, BootPreserves, FinishReloadPreserves
<1>2. ASSUME NEW n \in Nodes, LoadData(n)
      PROVE  SyncInv' /\ store' = store
  BY <1>2, LoadDataPreserves DEF LoadData
<1>3. ASSUME NEW n \in Nodes, TryPush(n) \/ SinglePush(n) \/ \E p \in Nodes : TryPull(n, p)
      PROVE  SyncInv' /\ store' = store
  BY <1>3, SendPreserves DEF TryPush, SinglePush, TryPull
<1>4. ASSUME NEW n \in Nodes, Edit(n) PROVE SyncInv' /\ store' = store
  BY <1>4, EditPreserves DEF Edit
<1>5. ASSUME NEW n \in Nodes, Crash(n) PROVE SyncInv' /\ store' = store
  BY <1>5, CrashPreserves DEF Crash
<1>6. ASSUME NEW n \in Nodes, StartReload(n) \/ FailReload(n) PROVE SyncInv' /\ store' = store
  BY <1>6, ReloadEndsPreserve DEF StartReload, FailReload
<1>7. ASSUME NEW m \in net, Refused(m) \/ Lose(m) \/ Timeout(m) PROVE SyncInv' /\ store' = store
  BY <1>7, FailPreserves DEF Refused, Lose, Timeout
<1>8. ASSUME NEW m \in net, ReceiveGet(m) PROVE SyncInv' /\ store' = store
  BY <1>8, ReceiveGetPreserves DEF ReceiveGet
<1>9. ASSUME NEW m \in net, ReceivePush(m)
      PROVE  /\ SyncInv'
             /\ \A i, s \in Nodes : /\ store'[i][s].stamp >= store[i][s].stamp
                                    /\ store'[i][s].data >= store[i][s].data
  <2>1. /\ m.kind \in {"push", "mappings"} /\ net' = net \ {m}
        /\ store' = [store EXCEPT ![m.to] = Merged(m.to, m.body)]
        /\ UNCHANGED <<file, up, gis, clock, history>>
    BY <1>9 DEF ReceivePush
  <2>2. QED
    BY <1>9, <2>1, ReceivePushPreserves, MergeKeeps
<1>10. ASSUME NEW m \in net, ReceiveMappings(m)
       PROVE  /\ SyncInv'
              /\ \A i, s \in Nodes : /\ store'[i][s].stamp >= store[i][s].stamp
                                     /\ store'[i][s].data >= store[i][s].data
  <2>1. SyncInv'
    BY <1>10, ReceiveMappingsPreserves
  <2>2. CASE m.awaited
    <3>1. /\ m.kind \in {"push", "mappings"} /\ net' = net \ {m}
          /\ store' = [store EXCEPT ![m.to] = Merged(m.to, m.body)]
          /\ UNCHANGED <<file, up, gis, clock, history>>
      BY <1>10, <2>2 DEF ReceiveMappings
    <3>2. QED
      BY <1>10, <2>1, <3>1, MergeKeeps
  <2>3. CASE ~m.awaited
    <3>1. store' = store
      BY <1>10, <2>3 DEF ReceiveMappings
    <3>2. QED
      BY <1>0, <2>1, <3>1
  <2>4. QED
    BY <2>2, <2>3
<1>11. ASSUME UNCHANGED vars PROVE SyncInv' /\ store' = store
  <2>1. \A s \in Nodes : Held(s)' = Held(s)
    BY <1>11 DEF vars, Held
  <2>2. HeldInv' /\ OrderInv' /\ OwnInv' /\ FreshInv' /\ BootedInv'
    BY <1>11, <2>1, PassingOn DEF vars
  <2>3. TypeOK' /\ DownInv' /\ SelfInv' /\ JobInv' /\ PushedWhenDone' /\ OnlyDeclaredCoverage'
    BY <1>11 DEF vars, gis, history, SyncInv, TypeOK, DownInv, SelfInv, JobInv,
                 PushedWhenDone, OnlyDeclaredCoverage
  <2>4. NetInv'
    BY <1>11 DEF vars, history, SyncInv, NetInv
  <2>5. QED
    BY <1>11, <2>2, <2>3, <2>4 DEF SyncInv, vars
<1>12. CASE UNCHANGED vars
  BY <1>0, <1>11, <1>12
<1>13. CASE \E n \in Nodes :
              NodeStep(n) \/ Edit(n) \/ Crash(n) \/ StartReload(n) \/ FailReload(n)
  BY <1>0, <1>1, <1>2, <1>3, <1>4, <1>5, <1>6, <1>13 DEF NodeStep
<1>14. CASE \E m \in net : Deliver(m) \/ Lose(m) \/ Timeout(m)
  BY <1>0, <1>7, <1>8, <1>9, <1>10, <1>14 DEF Deliver
<1>15. QED
  BY <1>12, <1>13, <1>14 DEF Next

\* In any tree of nodes, with messages lost, late and overtaking each other,
\* everything held or under way is something its owner once had (federation/sync.py).
THEOREM SyncInvariant == Spec => []SyncInv
<1>1. SyncInv /\ [Next]_vars => SyncInv'
  BY StepSync
<1>2. QED
  BY <1>1, InitSync, PTL DEF Spec

\* What a node has been told of another never goes back, whatever overtakes, is lost,
\* answers late or restarts (sync.py, coverage.py:303).
THEOREM NeverBack == Spec => CoverageNeverGoesBack
<1>1. SyncInv /\ [Next]_vars =>
        [\A n, s \in Nodes :
           /\ store'[n][s].stamp >= store[n][s].stamp
           /\ store'[n][s].data >= store[n][s].data]_vars
  BY StepSync
<1>2. QED
  BY <1>1, SyncInvariant, PTL DEF Spec, CoverageNeverGoesBack

\* An entry of an LVF is at least as recent as the load its stamp is of, although the
\* GIS thread replaces coverage and stamp one after the other (provisioning.py:148).
THEOREM StampsAreHonest == Spec => []AsRecentAsStamped
<1>1. SyncInv => AsRecentAsStamped
  BY DEF SyncInv, HeldInv, Held, Genuine, AsRecentAsStamped
<1>2. QED
  BY <1>1, SyncInvariant, PTL

\* A startup push counts as done only when the node upstream has what it is about
\* (sync.py:717-746).
THEOREM DoneIsPushed == Spec => []PushedWhenDone
<1>1. SyncInv => PushedWhenDone
  BY DEF SyncInv
<1>2. QED
  BY <1>1, SyncInvariant, PTL

\* A Forest Guide among root AMSs has only what operators declared (sync.py:379).
THEOREM ForestIsDeclared == Spec => []OnlyDeclaredCoverage
<1>1. SyncInv => OnlyDeclaredCoverage
  BY DEF SyncInv
<1>2. QED
  BY <1>1, SyncInvariant, PTL
=============================================================================

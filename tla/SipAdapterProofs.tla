-------------------------- MODULE SipAdapterProofs --------------------------
(***************************************************************************)
(* SipAdapter's two safety properties and its types, for any Call-IDs and  *)
(* any number of SUBSCRIBEs, notifications and state changes.              *)
(***************************************************************************)
EXTENDS SipAdapter, TLAPS

Types ==
  /\ asks \in Nat
  /\ subs \subseteq CallIds
  /\ wire \in [CallIds -> [tag : Nat, transport : Transports \cup {"none"}]]
  /\ told \in [CallIds -> Nat]

\* An unsubscribe that still waits has no live subscription to take the context
\* from, unless one began meanwhile.
ClosingInv == \A x \in closing : x.call \in subs => x.call \in overlapped

\* The context of a live subscription has the tag its subscriber was told.
DialogInv ==
  \A c \in subs : c \in overlapped \/ (wire[c] # NoContext /\ told[c] = wire[c].tag)

AdapterInv == Types /\ ClosingInv /\ DialogInv

\* A context is installed with a transport, so it is one.
LEMMA InstalledContext ==
  ASSUME Types, NEW c \in CallIds, NEW t \in Transports
  PROVE  /\ Installed(c, t) \in [tag : Nat, transport : Transports \cup {"none"}]
         /\ Installed(c, t) # NoContext
         /\ wire[c] # NoContext => Installed(c, t).tag = wire[c].tag
<1>1. wire[c] \in [tag : Nat, transport : Transports \cup {"none"}]
  BY DEF Types
<1>2. asks + 1 \in Nat
  BY DEF Types
<1>3. Installed(c, t).transport = t /\ NoContext.transport = "none" /\ t # "none"
  BY DEF Installed, NoContext, Transports
<1>4. QED
  BY <1>1, <1>2, <1>3 DEF Installed

LEMMA InitAdapter == Init => AdapterInv
<1>. SUFFICES ASSUME Init PROVE AdapterInv
  OBVIOUS
<1>1. NoContext \in [tag : Nat, transport : Transports \cup {"none"}]
  BY DEF NoContext
<1>2. QED
  BY <1>1 DEF Init, AdapterInv, Types, ClosingInv, DialogInv

\* The invariant over the steps of the SUBSCRIBE handler.
LEMMA AskPreserves ==
  ASSUME AdapterInv, NEW c \in CallIds, NEW t \in Transports,
         Accept(c, t) \/ Refuse(c, t) \/ Unsubscribe(c, t)
  PROVE  AdapterInv'
<1>. USE DEF AdapterInv
<1>. DEFINE ctx == Installed(c, t)
<1>1. /\ ctx \in [tag : Nat, transport : Transports \cup {"none"}]
      /\ ctx # NoContext
      /\ wire[c] # NoContext => ctx.tag = wire[c].tag
  BY InstalledContext
<1>2. NoContext \in [tag : Nat, transport : Transports \cup {"none"}] /\ ctx.tag \in Nat
  BY <1>1 DEF NoContext
<1>. HIDE DEF ctx
<1>3. CASE Accept(c, t)
  <2>1. /\ asks' = asks + 1 /\ subs' = subs \cup {c} /\ closing' = closing
        /\ wire' = [wire EXCEPT ![c] = ctx] /\ told' = [told EXCEPT ![c] = ctx.tag]
        /\ overlapped' = overlapped \cup {x.call : x \in {y \in closing : y.call = c}}
    BY <1>3 DEF Accept, Arrives, ctx
  <2>2. Types'
    BY <1>1, <1>2, <2>1 DEF Types
  <2>3. ClosingInv'
    BY <2>1 DEF ClosingInv
  <2>4. DialogInv'
    BY <1>1, <2>1 DEF DialogInv, Types
  <2>5. QED
    BY <2>2, <2>3, <2>4
<1>4. CASE Refuse(c, t)
  <2>1. /\ asks' = asks + 1 /\ subs' = subs /\ closing' = closing
        /\ wire' = [wire EXCEPT ![c] = ctx] /\ told' = told
        /\ overlapped' = overlapped
    BY <1>4 DEF Refuse, Arrives, core, ctx
  <2>2. Types'
    BY <1>1, <2>1 DEF Types
  <2>3. DialogInv'
    BY <1>1, <2>1 DEF DialogInv, Types
  <2>4. QED
    BY <2>1, <2>2, <2>3 DEF ClosingInv
<1>5. CASE Unsubscribe(c, t)
  <2>1. /\ asks' = asks + 1 /\ subs' = subs \ {c} /\ overlapped' = overlapped
        /\ told' = [told EXCEPT ![c] = ctx.tag]
        /\ \/ wire' = [wire EXCEPT ![c] = NoContext]
           \/ wire' = [wire EXCEPT ![c] = ctx]
        /\ \A x \in closing' : x \in closing \/ x.call = c
    BY <1>5 DEF Unsubscribe, Arrives, ctx
  <2>2. Types'
    BY <1>1, <1>2, <2>1 DEF Types
  <2>3. ClosingInv' /\ DialogInv'
    BY <2>1 DEF ClosingInv, DialogInv, Types
  <2>4. QED
    BY <2>2, <2>3
<1>6. QED
  BY <1>3, <1>4, <1>5

LEMMA NextAdapter == AdapterInv /\ [Next]_vars => AdapterInv'
<1>. SUFFICES ASSUME AdapterInv, [Next]_vars PROVE AdapterInv'
  OBVIOUS
<1>. USE DEF AdapterInv, Types, ClosingInv, DialogInv
<1>1. CASE UNCHANGED <<dialog, subs>>
  BY <1>1 DEF dialog
<1>2. ASSUME NEW c \in CallIds, NEW t \in Transports,
             Accept(c, t) \/ Refuse(c, t) \/ Unsubscribe(c, t)
      PROVE  AdapterInv'
  BY <1>2, AskPreserves
<1>3. ASSUME NEW x \in closing, FinishUnsubscribe(x) PROVE AdapterInv'
  <2>1. /\ asks' = asks /\ subs' = subs /\ told' = told /\ overlapped' = overlapped
        /\ closing' = closing \ {x} /\ wire' = [wire EXCEPT ![x.call] = NoContext]
    BY <1>3 DEF FinishUnsubscribe, core
  <2>2. NoContext \in [tag : Nat, transport : Transports \cup {"none"}]
    BY DEF NoContext
  <2>3. \A c \in subs : c = x.call => c \in overlapped
    OBVIOUS
  <2>4. QED
    BY <2>1, <2>2, <2>3
<1>4. ASSUME NEW c \in CallIds, Expire(c) PROVE AdapterInv'
  BY <1>4 DEF Expire, dialog
<1>5. ASSUME NEW c \in CallIds, Report(c) PROVE AdapterInv'
  BY <1>5, <1>1 DEF Report
<1>6. ASSUME NEW i \in DOMAIN outbox, Transmit(i) PROVE AdapterInv'
  BY <1>6, <1>1 DEF Transmit, core
<1>7. CASE BindUdp \/ BindTcp \/ Stop \/ ChangeState
  BY <1>7, <1>1 DEF BindUdp, BindTcp, Stop, ChangeState, core
<1>8. CASE UNCHANGED vars
  BY <1>8, <1>1 DEF vars, core
<1>9. QED
  BY <1>2, <1>3, <1>4, <1>5, <1>6, <1>7, <1>8 DEF Next

\* The notifier's contexts and the core's subscriptions part only when a
\* SUBSCRIBE overlaps an unsubscribe over TCP (_handle_subscribe's await).
THEOREM Reachable == Spec => []SubscribersReachable
<1>1. AdapterInv => SubscribersReachable
  BY DEF AdapterInv, DialogInv, SubscribersReachable
<1>2. QED
  BY InitAdapter, NextAdapter, <1>1, PTL DEF Spec

\* Without such an overlap a live dialog keeps the To tag of its 200.
THEOREM TagKept == Spec => DialogKeepsTag
<1>1. ASSUME AdapterInv, [Next]_vars, NEW c \in subs \cap subs', c \notin overlapped'
      PROVE  told'[c] = told[c]
  <2>. USE DEF AdapterInv, Types
  <2>1. CASE told' = told
    BY <2>1
  <2>2. ASSUME NEW d \in CallIds, NEW t \in Transports, Accept(d, t)
        PROVE  told'[c] = told[c]
    <3>1. /\ told' = [told EXCEPT ![d] = Installed(d, t).tag]
          /\ overlapped \subseteq overlapped'
      BY <2>2 DEF Accept
    <3>2. wire[c] # NoContext /\ told[c] = wire[c].tag
      BY <1>1, <3>1 DEF DialogInv
    <3>3. wire[d] # NoContext => Installed(d, t).tag = wire[d].tag
      BY <1>1, InstalledContext
    <3>4. d = c => Installed(d, t).tag = told[c]
      BY <3>2, <3>3
    <3>5. QED
      BY <3>1, <3>4
  <2>3. ASSUME NEW d \in CallIds, NEW t \in Transports, Unsubscribe(d, t)
        PROVE  told'[c] = told[c]
    <3>1. c # d /\ \E g : told' = [told EXCEPT ![d] = g]
      BY <1>1, <2>3 DEF Unsubscribe
    <3>2. QED
      BY <3>1
  <2>4. ASSUME NEW d \in CallIds, NEW t \in Transports, Refuse(d, t) PROVE told' = told
    BY <2>4 DEF Refuse
  <2>5. ASSUME NEW x \in closing, FinishUnsubscribe(x) PROVE told' = told
    BY <2>5 DEF FinishUnsubscribe
  <2>6. ASSUME NEW d \in CallIds, Expire(d) \/ Report(d) PROVE told' = told
    BY <2>6 DEF Expire, Report, dialog
  <2>7. ASSUME NEW i \in DOMAIN outbox, Transmit(i) PROVE told' = told
    BY <2>7 DEF Transmit, dialog
  <2>8. CASE BindUdp \/ BindTcp \/ Stop \/ ChangeState \/ UNCHANGED vars
    BY <2>8, <2>1 DEF BindUdp, BindTcp, Stop, ChangeState, dialog, vars
  <2>9. QED
    BY <1>1, <2>1, <2>2, <2>3, <2>4, <2>5, <2>6, <2>7, <2>8 DEF Next
<1>2. AdapterInv /\ [Next]_vars
        => [\A c \in subs \cap subs' : c \in overlapped' \/ told'[c] = told[c]]_vars
  BY <1>1
<1>3. QED
  BY InitAdapter, NextAdapter, <1>2, PTL DEF Spec, DialogKeepsTag

-----------------------------------------------------------------------------
(***************************************************************************)
(* The types of all variables.  A context is one of a SUBSCRIBE that came, *)
(* and a task in the outbox carries a state the element has had.           *)
(***************************************************************************)
Counted ==
  /\ asks \in 0 .. MaxAsks /\ state \in Nat
  /\ \A c \in CallIds : wire[c].tag <= asks

TypeInv == TypeOK /\ Counted

Task == [call : CallIds, ctx : Context, version : 0 .. state]

\* A context handed to a task, or installed, has a tag no higher than the count.
LEMMA InstalledIsContext ==
  ASSUME TypeInv, NEW c \in CallIds, NEW t \in Transports, Arrives(c, t)
  PROVE  /\ Installed(c, t) \in Context
         /\ Installed(c, t).tag \in 0 .. asks'
         /\ asks' \in 0 .. MaxAsks /\ asks' = asks + 1
<1>1. asks + 1 \in 1 .. MaxAsks /\ asks' = asks + 1
  BY SipAssumption DEF TypeInv, Counted, Arrives
<1>2. wire[c] # NoContext => wire[c].tag \in 1 .. MaxAsks
  BY DEF TypeInv, TypeOK, Context
<1>3. Installed(c, t).tag = asks + 1 \/ (Installed(c, t).tag = wire[c].tag /\ wire[c] # NoContext)
  BY DEF Installed
<1>4. wire[c].tag <= asks
  BY DEF TypeInv, Counted
<1>5. Installed(c, t).tag \in 1 .. MaxAsks /\ Installed(c, t).tag <= asks + 1
  BY <1>1, <1>2, <1>3, <1>4 DEF TypeInv, Counted
<1>6. Installed(c, t) \in Context
  BY <1>5 DEF Installed, Context
<1>7. QED
  BY <1>1, <1>5, <1>6 DEF TypeInv, Counted

LEMMA TaskTyped ==
  ASSUME TypeInv, NEW c \in CallIds, NEW ctx \in Context
  PROVE  Append(outbox, Notify(c, ctx)) \in Seq(Task)
<1>1. Notify(c, ctx) \in Task
  BY DEF Notify, Task, TypeInv, Counted
<1>2. outbox \in Seq(Task)
  BY DEF TypeInv, TypeOK, Task
<1>3. QED
  BY <1>1, <1>2

\* RemoveAt keeps the elements' type.
LEMMA RemovedTyped ==
  ASSUME NEW S, NEW q \in Seq(S), NEW i \in DOMAIN q
  PROVE  RemoveAt(q, i) \in Seq(S)
<1>1. SubSeq(q, 1, i - 1) \in Seq(S) /\ SubSeq(q, i + 1, Len(q)) \in Seq(S)
  <2>1. Len(q) \in Nat /\ i \in 1 .. Len(q) /\ \A k \in 1 .. Len(q) : q[k] \in S
    OBVIOUS
  <2>2. SubSeq(q, 1, i - 1) \in Seq(S)
    BY <2>1
  <2>3. SubSeq(q, i + 1, Len(q)) \in Seq(S)
    BY <2>1
  <2>4. QED
    BY <2>2, <2>3
<1>2. QED
  BY <1>1 DEF RemoveAt

LEMMA InitTyped == Init => TypeInv
<1>. SUFFICES ASSUME Init PROVE TypeInv
  OBVIOUS
<1>1. NoContext.tag = 0
  BY DEF NoContext
<1>2. outbox \in Seq([call : CallIds, ctx : Context, version : 0 .. state])
  BY DEF Init
<1>3. asks = 0 /\ state = 0 /\ 0 \in 0 .. MaxAsks /\ \A c \in CallIds : wire[c] = NoContext
  BY SipAssumption DEF Init
<1>4. Counted
  BY <1>1, <1>3 DEF Counted
<1>5. told \in [CallIds -> 0 .. asks] /\ reported \in [CallIds -> 0 .. state]
      /\ sent \in [CallIds -> 0 .. state] /\ wire \in [CallIds -> Context \cup {NoContext}]
  BY <1>3 DEF Init
<1>6. TypeOK
  BY <1>2, <1>5 DEF Init, TypeOK
<1>7. QED
  BY <1>4, <1>6 DEF TypeInv

\* The types over the steps of the SUBSCRIBE handler.
LEMMA AskTyped ==
  ASSUME TypeInv, NEW c \in CallIds, NEW t \in Transports,
         Accept(c, t) \/ Refuse(c, t) \/ Unsubscribe(c, t)
  PROVE  TypeInv'
<1>. DEFINE ctx == Installed(c, t)
<1>1. /\ ctx \in Context /\ ctx.tag \in 0 .. asks'
      /\ asks' \in 0 .. MaxAsks /\ asks' = asks + 1
  BY InstalledIsContext DEF Accept, Refuse, Unsubscribe
<1>2. NoContext.tag = 0
  BY DEF NoContext
<1>3. Append(outbox, Notify(c, ctx)) \in Seq([call : CallIds, ctx : Context, version : 0 .. state])
  BY <1>1, TaskTyped DEF Task
<1>. HIDE DEF ctx
<1>4. asks \in Nat /\ state \in Nat /\ 0 .. asks \subseteq 0 .. asks' /\ 1 .. asks \subseteq 1 .. asks'
  BY <1>1, SipAssumption DEF TypeInv, Counted
<1>5. \A d \in CallIds : wire[d].tag \in Nat /\ wire[d].tag <= asks'
  <2>1. ASSUME NEW d \in CallIds PROVE wire[d].tag \in Nat /\ wire[d].tag <= asks
    BY <1>2 DEF TypeInv, TypeOK, Counted, Context
  <2>2. QED
    BY <1>1, <1>4, <2>1
<1>6. CASE Accept(c, t)
  <2>1. /\ wire' = [wire EXCEPT ![c] = ctx] /\ told' = [told EXCEPT ![c] = ctx.tag]
        /\ outbox' = Append(outbox, Notify(c, ctx)) /\ subs' = subs \cup {c}
        /\ reported' = [reported EXCEPT ![c] = state]
        /\ overlapped' = overlapped \cup {x.call : x \in {y \in closing : y.call = c}}
        /\ UNCHANGED <<udp, tcp, starting, stopping, closing, state, sent>>
    BY <1>6 DEF Accept, listeners, ctx
  <2>2. told' \in [CallIds -> 0 .. asks'] /\ wire' \in [CallIds -> Context \cup {NoContext}]
    BY <1>1, <1>4, <2>1 DEF TypeInv, TypeOK
  <2>3. closing' \subseteq [call : CallIds, ask : 1 .. asks']
    BY <1>4, <2>1 DEF TypeInv, TypeOK
  <2>4. overlapped' \subseteq CallIds /\ reported' \in [CallIds -> 0 .. state']
    BY <1>4, <2>1 DEF TypeInv, TypeOK
  <2>5. TypeOK'
    BY <1>3, <2>1, <2>2, <2>3, <2>4 DEF TypeInv, TypeOK
  <2>6. Counted'
    <3>1. \A d \in CallIds : wire'[d].tag <= asks'
      BY <1>1, <1>5, <2>1 DEF TypeInv, TypeOK
    <3>2. QED
      BY <1>1, <1>4, <2>1, <3>1 DEF Counted
  <2>7. QED
    BY <2>5, <2>6 DEF TypeInv
<1>7. CASE Refuse(c, t)
  <2>1. /\ wire' = [wire EXCEPT ![c] = ctx]
        /\ UNCHANGED <<udp, tcp, starting, stopping, told, closing, overlapped, outbox,
                       subs, reported, state, sent>>
    BY <1>7 DEF Refuse, listeners, core, ctx
  <2>2. told' \in [CallIds -> 0 .. asks'] /\ wire' \in [CallIds -> Context \cup {NoContext}]
    BY <1>1, <1>4, <2>1 DEF TypeInv, TypeOK
  <2>3. closing' \subseteq [call : CallIds, ask : 1 .. asks']
    BY <1>4, <2>1 DEF TypeInv, TypeOK
  <2>4. TypeOK'
    BY <2>1, <2>2, <2>3 DEF TypeInv, TypeOK
  <2>5. Counted'
    <3>1. \A d \in CallIds : wire'[d].tag <= asks'
      BY <1>1, <1>5, <2>1 DEF TypeInv, TypeOK
    <3>2. QED
      BY <1>1, <1>4, <2>1, <3>1 DEF Counted
  <2>6. QED
    BY <2>4, <2>5 DEF TypeInv
<1>8. CASE Unsubscribe(c, t)
  <2>1. /\ told' = [told EXCEPT ![c] = ctx.tag] /\ subs' = subs \ {c}
        /\ \/ wire' = [wire EXCEPT ![c] = NoContext] /\ closing' = closing
           \/ /\ wire' = [wire EXCEPT ![c] = ctx]
              /\ closing' = closing \cup {[call |-> c, ask |-> asks + 1]}
        /\ UNCHANGED <<udp, tcp, starting, stopping, overlapped, outbox, reported, state, sent>>
    BY <1>8 DEF Unsubscribe, listeners, ctx
  <2>2. told' \in [CallIds -> 0 .. asks'] /\ wire' \in [CallIds -> Context \cup {NoContext}]
    BY <1>1, <1>4, <2>1 DEF TypeInv, TypeOK
  <2>3. closing' \subseteq [call : CallIds, ask : 1 .. asks']
    BY <1>1, <1>4, <2>1 DEF TypeInv, TypeOK
  <2>4. TypeOK'
    BY <2>1, <2>2, <2>3 DEF TypeInv, TypeOK
  <2>5. Counted'
    <3>1. \A d \in CallIds : wire'[d] \in {wire[d], ctx, NoContext}
      BY <2>1 DEF TypeInv, TypeOK
    <3>2. 0 <= asks' /\ ctx.tag <= asks'
      BY <1>1
    <3>3. \A d \in CallIds : wire'[d].tag <= asks'
      BY <1>2, <1>5, <3>1, <3>2
    <3>4. QED
      BY <1>1, <1>4, <2>1, <3>3 DEF Counted
  <2>6. QED
    BY <2>4, <2>5 DEF TypeInv
<1>9. QED
  BY <1>6, <1>7, <1>8

LEMMA NextTyped == TypeInv /\ [Next]_vars => TypeInv'
<1>. SUFFICES ASSUME TypeInv, [Next]_vars PROVE TypeInv'
  OBVIOUS
<1>1. CASE BindUdp \/ BindTcp \/ Stop
  BY <1>1 DEF BindUdp, BindTcp, Stop, dialog, core, TypeInv, TypeOK, Counted
<1>2. CASE ChangeState
  <2>1. /\ state \in Nat /\ state' = state + 1
        /\ UNCHANGED <<udp, tcp, starting, stopping, wire, told, closing, overlapped, asks,
                       outbox, subs, reported, sent>>
    BY <1>2 DEF ChangeState, listeners, dialog, TypeInv, Counted
  <2>2. 0 .. state \subseteq 0 .. state'
    BY <2>1
  <2>3. Task \subseteq Task' /\ outbox \in Seq(Task)
    BY <2>2 DEF Task, TypeInv, TypeOK
  <2>4. outbox' \in Seq(Task')
    BY <2>1, <2>3
  <2>5. reported' \in [CallIds -> 0 .. state'] /\ sent' \in [CallIds -> 0 .. state']
    BY <2>1, <2>2 DEF TypeInv, TypeOK
  <2>6. QED
    BY <2>1, <2>4, <2>5 DEF Task, TypeInv, TypeOK, Counted
<1>3. ASSUME NEW c \in CallIds, NEW t \in Transports,
             Accept(c, t) \/ Refuse(c, t) \/ Unsubscribe(c, t)
      PROVE  TypeInv'
  BY <1>3, AskTyped
<1>4. ASSUME NEW c \in CallIds, Expire(c) PROVE TypeInv'
  BY <1>4 DEF Expire, listeners, dialog, TypeInv, TypeOK, Counted
<1>5. ASSUME NEW c \in CallIds, Report(c) PROVE TypeInv'
  <2>1. /\ reported' = [reported EXCEPT ![c] = state]
        /\ UNCHANGED <<udp, tcp, starting, stopping, wire, told, closing, overlapped, asks,
                       subs, state, sent>>
    BY <1>5 DEF Report, listeners, dialog
  <2>2. outbox' \in Seq(Task)
    <3>1. CASE wire[c] = NoContext
      BY <1>5, <3>1 DEF Report, Schedule, Task, TypeInv, TypeOK
    <3>2. CASE wire[c] # NoContext
      <4>1. wire[c] \in Context
        BY <3>2 DEF TypeInv, TypeOK
      <4>2. QED
        BY <1>5, <3>2, <4>1, TaskTyped DEF Report, Schedule
    <3>3. QED
      BY <3>1, <3>2
  <2>3. reported' \in [CallIds -> 0 .. state]
    BY <2>1 DEF TypeInv, TypeOK, Counted
  <2>4. QED
    BY <2>1, <2>2, <2>3 DEF Task, TypeInv, TypeOK, Counted
<1>6. ASSUME NEW x \in closing, FinishUnsubscribe(x) PROVE TypeInv'
  <2>1. /\ closing' \subseteq closing /\ wire' = [wire EXCEPT ![x.call] = NoContext]
        /\ UNCHANGED <<udp, tcp, starting, stopping, told, overlapped, asks, outbox,
                       subs, reported, state, sent>>
    BY <1>6 DEF FinishUnsubscribe, listeners, core
  <2>2. NoContext.tag = 0
    BY DEF NoContext
  <2>3. wire' \in [CallIds -> Context \cup {NoContext}] /\ \A c \in CallIds : wire'[c].tag <= asks
    BY <2>1, <2>2, SipAssumption DEF TypeInv, TypeOK, Counted
  <2>4. QED
    BY <2>1, <2>3 DEF TypeInv, TypeOK, Counted
<1>7. ASSUME NEW i \in DOMAIN outbox, Transmit(i) PROVE TypeInv'
  <2>1. /\ outbox' = RemoveAt(outbox, i)
        /\ sent' \in {sent, [sent EXCEPT ![outbox[i].call] = outbox[i].version]}
        /\ UNCHANGED <<udp, tcp, starting, stopping, wire, told, closing, overlapped, asks,
                       subs, reported, state>>
    BY <1>7 DEF Transmit, listeners, dialog, core
  <2>2. outbox \in Seq(Task)
    BY DEF Task, TypeInv, TypeOK
  <2>3. outbox' \in Seq(Task)
    BY <1>7, <2>1, <2>2, RemovedTyped
  <2>4. outbox[i] \in Task
    BY <1>7, <2>2
  <2>5. sent' \in [CallIds -> 0 .. state]
    BY <2>1, <2>4 DEF Task, TypeInv, TypeOK
  <2>6. QED
    BY <2>1, <2>3, <2>5 DEF Task, TypeInv, TypeOK, Counted
<1>8. CASE UNCHANGED vars
  BY <1>8 DEF vars, listeners, dialog, core, TypeInv, TypeOK, Counted
<1>9. QED
  BY <1>1, <1>2, <1>3, <1>4, <1>5, <1>6, <1>7, <1>8 DEF Next

\* All variables of the adapter and of its core keep their types: in particular
\* a scheduled NOTIFY always has a context to go by and a state the element has
\* had, and no subscriber is told a tag that was not given out.
THEOREM TypeCorrect == Spec => []TypeOK
<1>1. TypeInv => TypeOK
  BY DEF TypeInv
<1>2. QED
  BY InitTyped, NextTyped, <1>1, PTL DEF Spec
=============================================================================

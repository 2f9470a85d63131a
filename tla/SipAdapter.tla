----------------------------- MODULE SipAdapter -----------------------------
(***************************************************************************)
(* The SIP adapter of the leader worker (notify/sip_notifier.py): for      *)
(* every Call-ID a wire context, kept beside the subscription that the     *)
(* notifier of i3_fe_core holds.  The event loop runs one handler at a     *)
(* time; a handler is interrupted only where it awaits: while a TCP        *)
(* NOTIFY is sent, and between the steps of start and stop.                *)
(*                                                                         *)
(* Of the core we take what the adapter and its tests rely on: it accepts  *)
(* or refuses a SUBSCRIBE, notifies at once and whenever a subscription    *)
(* lags behind the state, and drops what has expired.  One event package   *)
(* stands for both.  Where a context sends to is left out.                 *)
(***************************************************************************)
EXTENDS Naturals, Sequences, SequencesExt

CONSTANTS
  CallIds,
  Over,      \* Call-ID -> the transports its SUBSCRIBEs may come by
  MaxAsks,   \* bound on SUBSCRIBEs
  MaxChanges \* bound on state changes

Transports == {"UDP", "TCP"}

ASSUME SipAssumption ==
  /\ Over \in [CallIds -> SUBSET Transports]
  /\ {MaxAsks, MaxChanges} \subseteq Nat

VARIABLES
  udp, tcp,   \* are the listeners bound?
  starting,   \* the bind that start() is at, or "done"
  stopping,   \* where stop() is
  wire,       \* _wire: Call-ID -> context
  told,       \* the To tag of the last 200 for a Call-ID
  closing,    \* unsubscribes awaiting their terminating NOTIFY over TCP
  outbox,     \* scheduled _transmit tasks, oldest first
  subs,       \* core: Call-IDs with a live subscription
  reported,   \* core: the state it last had sent, per Call-ID
  state,      \* core: the element's state, as a version
  sent,       \* history: the version last handed to the network, per Call-ID
  overlapped, \* history: Call-IDs whose SUBSCRIBE overlapped an unsubscribe
  asks        \* SUBSCRIBEs so far

listeners == <<udp, tcp, starting, stopping>>
dialog == <<wire, told, closing, overlapped, asks>>
core == <<subs, reported, state>>
vars == <<listeners, dialog, outbox, core, sent>>

NoContext == [tag |-> 0, transport |-> "none"]
Context == [tag : 1 .. MaxAsks, transport : Transports]
Notify(c, ctx) == [call |-> c, ctx |-> ctx, version |-> state]

TypeOK ==
  /\ {udp, tcp} \subseteq BOOLEAN
  /\ starting \in {"udp", "tcp", "done"} /\ stopping \in {"no", "tcp", "udp", "done"}
  /\ wire \in [CallIds -> Context \cup {NoContext}]
  /\ told \in [CallIds -> 0 .. asks]
  /\ closing \subseteq [call : CallIds, ask : 1 .. asks]
  /\ outbox \in Seq([call : CallIds, ctx : Context, version : 0 .. state])
  /\ subs \subseteq CallIds
  /\ reported \in [CallIds -> 0 .. state] /\ sent \in [CallIds -> 0 .. state]
  /\ overlapped \subseteq CallIds

Init ==
  /\ udp = FALSE /\ tcp = FALSE /\ starting = "udp" /\ stopping = "no"
  /\ wire = [c \in CallIds |-> NoContext]
  /\ told = [c \in CallIds |-> 0]
  /\ closing = {} /\ outbox = <<>> /\ subs = {} /\ overlapped = {}
  /\ reported = [c \in CallIds |-> 0] /\ sent = [c \in CallIds |-> 0]
  /\ state = 0 /\ asks = 0

-----------------------------------------------------------------------------
(***************************************************************************)
(* start() and stop(), which the lifespan does not keep apart.             *)
(***************************************************************************)
BindUdp ==
  /\ starting = "udp"
  /\ \/ udp' = TRUE /\ starting' = "tcp"
     \/ starting' = "done" /\ UNCHANGED udp
  /\ UNCHANGED <<tcp, stopping, dialog, outbox, core, sent>>

\* A failure closes the UDP listener again.
BindTcp ==
  /\ starting = "tcp"
  /\ starting' = "done"
  /\ \/ tcp' = TRUE /\ UNCHANGED udp
     \/ udp' = FALSE /\ UNCHANGED tcp
  /\ UNCHANGED <<stopping, dialog, outbox, core, sent>>

Stop ==
  /\ \/ stopping = "no" /\ stopping' = "tcp" /\ UNCHANGED <<udp, tcp>>
     \/ stopping = "tcp" /\ stopping' = "udp" /\ tcp' = FALSE /\ UNCHANGED udp
     \/ stopping = "udp" /\ stopping' = "done" /\ udp' = FALSE /\ UNCHANGED tcp
  /\ UNCHANGED <<starting, dialog, outbox, core, sent>>

-----------------------------------------------------------------------------
(***************************************************************************)
(* _handle_subscribe, for a SUBSCRIBE of Call-ID c that came by t.         *)
(***************************************************************************)
\* Fault: every SUBSCRIBE gets a tag of its own.
Installed_NewTag(c, t) == [tag |-> asks + 1, transport |-> t]

\* The context it installs, before the core decides: a known Call-ID keeps its tag.
Installed(c, t) ==
  [tag |-> IF wire[c] = NoContext THEN asks + 1 ELSE wire[c].tag, transport |-> t]

Arrives(c, t) ==
  /\ asks < MaxAsks
  /\ t \in Over[c]
  /\ IF t = "UDP" THEN udp ELSE tcp
  /\ asks' = asks + 1

\* The core notifies at once; the 200 is sent before that task can run.
Accept(c, t) ==
  /\ Arrives(c, t)
  /\ wire' = [wire EXCEPT ![c] = Installed(c, t)]
  /\ told' = [told EXCEPT ![c] = Installed(c, t).tag]
  /\ outbox' = Append(outbox, Notify(c, Installed(c, t)))
  /\ subs' = subs \cup {c}
  /\ reported' = [reported EXCEPT ![c] = state]
  /\ overlapped' = overlapped \cup {x.call : x \in {y \in closing : y.call = c}}
  /\ UNCHANGED <<listeners, closing, state, sent>>

\* Fault: a refusal cleans the context up.
Refuse_DropsContext(c, t) ==
  /\ Arrives(c, t)
  /\ wire' = [wire EXCEPT ![c] = NoContext]
  /\ UNCHANGED <<listeners, told, closing, overlapped, outbox, core, sent>>

\* 403, 423, 489 or 503: the new context stays.
Refuse(c, t) ==
  /\ Arrives(c, t)
  /\ wire' = [wire EXCEPT ![c] = Installed(c, t)]
  /\ UNCHANGED <<listeners, told, closing, overlapped, outbox, core, sent>>

\* Expires: 0.  The context goes once the terminating NOTIFY is sent: over UDP
\* within the handler.
Unsubscribe(c, t) ==
  /\ Arrives(c, t)
  /\ told' = [told EXCEPT ![c] = Installed(c, t).tag]
  /\ subs' = subs \ {c}
  /\ IF t = "UDP"
     THEN wire' = [wire EXCEPT ![c] = NoContext] /\ UNCHANGED closing
     ELSE /\ wire' = [wire EXCEPT ![c] = Installed(c, t)]
          /\ closing' = closing \cup {[call |-> c, ask |-> asks + 1]}
  /\ UNCHANGED <<listeners, overlapped, outbox, reported, state, sent>>

\* The terminating NOTIFY over TCP was sent, or failed.  A context that is gone
\* already is a KeyError, which the TCP handler logs.
FinishUnsubscribe(x) ==
  /\ x \in closing
  /\ closing' = closing \ {x}
  /\ wire' = [wire EXCEPT ![x.call] = NoContext]
  /\ UNCHANGED <<listeners, told, overlapped, asks, outbox, core, sent>>

-----------------------------------------------------------------------------
(***************************************************************************)
(* The core, and the NOTIFYs it asks for.                                  *)
(***************************************************************************)
ChangeState ==
  /\ state < MaxChanges
  /\ state' = state + 1
  /\ UNCHANGED <<listeners, dialog, outbox, subs, reported, sent>>

Expire(c) ==
  /\ c \in subs
  /\ subs' = subs \ {c}
  /\ UNCHANGED <<listeners, dialog, outbox, reported, state, sent>>

\* _send_notify: without a context there is nothing to do but warn.
Schedule(c) ==
  outbox' = IF wire[c] = NoContext THEN outbox ELSE Append(outbox, Notify(c, wire[c]))

Report(c) ==
  /\ c \in subs /\ reported[c] # state /\ stopping = "no"
  /\ reported' = [reported EXCEPT ![c] = state]
  /\ Schedule(c)
  /\ UNCHANGED <<listeners, dialog, subs, state, sent>>

\* Fault: a task may be passed by a later one.
MayGo_AnyOrder(i) == TRUE

\* The loop runs the tasks in order; those over UDP never wait in between.
MayGo(i) ==
  outbox[i].ctx.transport = "UDP" =>
    \A j \in 1 .. i - 1 : outbox[j].ctx.transport # "UDP"

\* _transmit: a TCP connection may fail, and the UDP listener may be gone.
Transmit(i) ==
  /\ MayGo(i)
  /\ LET n == outbox[i]
         handed == [sent EXCEPT ![n.call] = n.version]
     IN sent' \in IF n.ctx.transport = "TCP" THEN {sent, handed}
                  ELSE {IF udp THEN handed ELSE sent}
  /\ outbox' = RemoveAt(outbox, i)
  /\ UNCHANGED <<listeners, dialog, core>>

-----------------------------------------------------------------------------
Next ==
  \/ BindUdp \/ BindTcp \/ Stop \/ ChangeState
  \/ \E c \in CallIds, t \in Transports : Accept(c, t) \/ Refuse(c, t) \/ Unsubscribe(c, t)
  \/ \E c \in CallIds : Expire(c) \/ Report(c)
  \/ \E x \in closing : FinishUnsubscribe(x)
  \/ \E i \in DOMAIN outbox : Transmit(i)

Spec == Init /\ [][Next]_vars

\* The loop runs its tasks, and the core reports what it has not reported yet.
FairSpec ==
  /\ Spec
  /\ WF_vars(\E i \in DOMAIN outbox : Transmit(i))
  /\ \A c \in CallIds : WF_vars(Report(c))

-----------------------------------------------------------------------------
\* A live subscription can be notified: over refreshes, refusals, expiry and
\* unsubscribes the core's subscription and the adapter's context part only
\* when a SUBSCRIBE overlaps an unsubscribe of its Call-ID that awaits its last
\* NOTIFY over TCP.
SubscribersReachable ==
  \A c \in subs : wire[c] # NoContext \/ c \in overlapped

\* As long as a subscription lives, the subscriber is told one To tag: a dialog
\* that changed it would have its NOTIFYs rejected.
DialogKeepsTag ==
  [][\A c \in subs \cap subs' : c \in overlapped' \/ told'[c] = told[c]]_vars

\* README.md:373-374: NOTIFY is sent "whenever its element or service state
\* changes": when changes end, the last NOTIFY handed to the network for a
\* subscriber over UDP tells the latest state, and not one it overtook.
EndsCurrent ==
  <>[](\A c \in subs : Over[c] = {"UDP"} /\ udp /\ stopping = "no" => sent[c] = state)
=============================================================================

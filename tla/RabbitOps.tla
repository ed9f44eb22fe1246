----------------------------- MODULE RabbitOps ------------------------------
(***************************************************************************)
(* The operations of rabbitmq.Client on its channel (PublishJSON,          *)
(* QueueBind, QueueUnbind, Consume, Ack, Nack), one at a time under chMu,  *)
(* while the reconnect loop replaces the channel, which takes mu but not   *)
(* chMu.  What the loop does to the channel is ChannelLife's.              *)
(*                                                                         *)
(* The broker has one durable queue and keeps it.  A channel it has lost   *)
(* stays open for the client until the client is told, or sees no          *)
(* heartbeat: what is only written to such a channel is lost.              *)
(***************************************************************************)
EXTENDS ChannelLife, FiniteSets

CONSTANTS Messages,     \* what the application publishes
          Publishers,   \* goroutines that publish, bind and unbind
          Workers,      \* goroutines that consume the queue
          NoOne,        \* the value of chMu when nobody holds it
          MaxFault,     \* bound: channels lost or dropped while open
          MaxRequeue    \* bound: deliveries a worker gives back

ASSUME OpsAssumption ==
  /\ MaxChan \in Nat /\ MaxFault \in Nat /\ MaxRequeue \in Nat
  /\ Publishers \cap Workers = {} /\ NoOne \notin Publishers \union Workers

Users == Publishers \union Workers

Deliveries == [chan : Chans, tag : Nat, msg : Messages]

VARIABLES opening,      \* the channel the loop has opened and not stored yet
          declared,     \* its topology is declared
          faults,
          chMu,         \* r.chMu: who holds it
          op,           \* the operation its holder is in, "none" without one
          hand,         \* the channel the operation has read
          body,         \* the messages it publishes: none or one
          got,          \* the deliveries a worker has in hand: none or one
          stream,       \* the channel a worker consumes from
          requeues,
          served,       \* broker: the channels it knows
          bound,        \* broker: the binding of the queue is there
          ready,        \* broker: the messages in the queue
          unacked,      \* broker: the deliveries that wait for an answer
          nextTag,      \* broker: the tag of the next delivery on a channel
          sent,         \* history: messages whose PublishJSON returned nil
          arrived,      \* history: messages the broker put into the queue
          unrouted,     \* history: messages it had no binding for
          finished,     \* history: messages a worker was done with
          unbinds       \* history: the application called QueueUnbind

loopVars == <<lifeVars, opening, declared, faults>>
opVars == <<chMu, op, hand, body>>
workerVars == <<got, stream, requeues>>
queueVars == <<ready, unacked, nextTag>>
brokerVars == <<served, bound, queueVars>>
historyVars == <<sent, arrived, unrouted, finished, unbinds>>
vars == <<loopVars, opVars, workerVars, brokerVars, historyVars>>

Init ==
  /\ LifeInit
  /\ opening = 0 /\ declared = FALSE /\ faults = 0
  /\ chMu = NoOne /\ op = "none" /\ hand = 0 /\ body = {}
  /\ got = [w \in Workers |-> {}]
  /\ stream = [w \in Workers |-> 0]
  /\ requeues = 0
  /\ served = {} /\ bound = FALSE /\ ready = {} /\ unacked = {}
  /\ nextTag = [h \in Chans |-> 1]
  /\ sent = {} /\ arrived = {} /\ unrouted = {} /\ finished = {} /\ unbinds = FALSE

----------------------------------------------------------------------------
(* The reconnect loop and the broker's side of a channel.                  *)

Usable == {h \in Chans : chanState[h] = "open"}

(* The broker puts what was delivered on a lost channel back.              *)
Forget(h) ==
  LET theirs == {d \in unacked : d.chan = h}
  IN  /\ served' = served \ {h}
      /\ unacked' = unacked \ theirs
      /\ ready' = ready \union {d.msg : d \in theirs}
      /\ UNCHANGED <<bound, nextTag>>

OpenChannel(h) ==
  /\ opening = 0 /\ channel = 0
  /\ Open(h)
  /\ opening' = h /\ declared' = FALSE
  /\ served' = served \union {h}
  /\ UNCHANGED <<faults, opVars, workerVars, bound, queueVars, historyVars>>

(* declareTopology binds the queue again.                                  *)
DeclareTopology ==
  /\ opening \in served /\ ~declared
  /\ declared' = TRUE /\ bound' = TRUE
  /\ UNCHANGED <<lifeVars, opening, faults, opVars, workerVars, served, queueVars, historyVars>>

(* Close of a channel, which makes the broker forget it.                   *)
Close(h) == Break({h}) /\ Forget(h)

(* A declaration fails on a channel that is closed, or is refused (a fault)*)
(* and the channel is closed then, before it was stored.                   *)
DeclareFails ==
  /\ opening # 0 /\ ~declared
  /\ \/ opening \notin Usable /\ UNCHANGED <<lifeVars, brokerVars, faults>>
     \/ opening \in Usable /\ Close(opening) /\ faults < MaxFault /\ faults' = faults + 1
  /\ opening' = 0
  /\ UNCHANGED <<declared, opVars, workerVars, historyVars>>

BugInstallChannel ==
  /\ opening # 0
  /\ Install(opening)
  /\ opening' = 0
  /\ UNCHANGED <<declared, faults, opVars, workerVars, brokerVars, historyVars>>

InstallChannel ==
  /\ declared /\ opening # 0
  /\ Install(opening)
  /\ opening' = 0
  /\ UNCHANGED <<declared, faults, opVars, workerVars, brokerVars, historyVars>>

(* teardown and closeChannel: the channel was lost, or Stop takes it.  It  *)
(* is closed afterwards, and an operation may use it in between.           *)
DropChannel ==
  /\ Drop
  /\ \/ channel \notin Usable /\ UNCHANGED faults
     \/ channel \in Usable /\ faults < MaxFault /\ faults' = faults + 1
  /\ UNCHANGED <<opening, declared, opVars, workerVars, brokerVars, historyVars>>

CloseChannel(h) ==
  /\ h \in Usable /\ h \notin {channel, opening}
  /\ Close(h)
  /\ UNCHANGED <<opening, declared, faults, opVars, workerVars, historyVars>>

BrokerLoses(h) ==
  /\ h \in served /\ faults < MaxFault /\ faults' = faults + 1
  /\ Forget(h)
  /\ UNCHANGED <<lifeVars, opening, declared, opVars, workerVars, historyVars>>

ClientNotices(h) ==
  /\ h \in Usable \ served
  /\ Break({h})
  /\ UNCHANGED <<opening, declared, faults, opVars, workerVars, brokerVars, historyVars>>

LoopStep ==
  \/ \E h \in Chans : OpenChannel(h) \/ CloseChannel(h) \/ ClientNotices(h)
  \/ DeclareTopology \/ DeclareFails \/ InstallChannel
  \/ channel \notin Usable /\ DropChannel

----------------------------------------------------------------------------
(* A call gets chMu, whoever waits for it, and reads the channel under mu: *)
(* what may happen between the two is only that the channel is replaced.   *)

Call(u, name, message) ==
  /\ chMu = NoOne
  /\ chMu' = u /\ op' = name /\ hand' = channel /\ body' = message
  /\ UNCHANGED <<loopVars, got, stream, brokerVars, sent, arrived, unrouted>>

CallPublish(p) ==
  /\ \E m \in Messages \ sent : Call(p, "PublishJSON", {m})
  /\ UNCHANGED <<requeues, finished, unbinds>>

CallBind(p) ==
  /\ Call(p, "QueueBind", {})
  /\ UNCHANGED <<requeues, finished, unbinds>>

CallUnbind(p) ==
  /\ Call(p, "QueueUnbind", {})
  /\ unbinds' = TRUE
  /\ UNCHANGED <<requeues, finished>>

(* A worker consumes again when its stream has ended, as it does with the  *)
(* channel it came from.                                                   *)
CallConsume(w) ==
  /\ got[w] = {} /\ stream[w] \notin Usable
  /\ Call(w, "Consume", {})
  /\ UNCHANGED <<requeues, finished, unbinds>>

CallAck(w) ==
  /\ \E d \in got[w] : finished' = finished \union {d.msg}
  /\ Call(w, "Ack", {})
  /\ UNCHANGED <<requeues, unbinds>>

(* Nack without requeue drops the message, with it gives it back.          *)
CallReject(w) ==
  /\ \E d \in got[w] : finished' = finished \union {d.msg}
  /\ Call(w, "Reject", {})
  /\ UNCHANGED <<requeues, unbinds>>

CallRequeue(w) ==
  /\ got[w] # {} /\ requeues < MaxRequeue
  /\ requeues' = requeues + 1
  /\ Call(w, "Requeue", {})
  /\ UNCHANGED <<finished, unbinds>>

Has(u, name) == chMu = u /\ op = name

BugReturns ==
  /\ chMu' = IF hand = 0 THEN chMu ELSE NoOne
  /\ op' = "none" /\ hand' = 0 /\ body' = {}
  /\ UNCHANGED <<loopVars, requeues>>

(* The deferred Unlock.                                                    *)
Returns ==
  /\ chMu' = NoOne
  /\ op' = "none" /\ hand' = 0 /\ body' = {}
  /\ UNCHANGED <<loopVars, requeues>>

----------------------------------------------------------------------------
(* The channel may be another's by now, or none: without one, or with one  *)
(* that is closed, the operation fails.                                    *)

Fails(u) ==
  /\ chMu = u /\ op \in {"PublishJSON", "QueueBind", "QueueUnbind", "Consume"}
  /\ hand \notin Usable
  /\ Returns
  /\ UNCHANGED <<got, stream, brokerVars, historyVars>>

(* A publish is written and not waited for.                                *)
PublishJSON(p) ==
  /\ Has(p, "PublishJSON") /\ hand \in Usable
  /\ Returns
  /\ sent' = sent \union body
  /\ LET routed == IF hand \in served /\ bound THEN body ELSE {}
         dropped == IF hand \in served /\ ~bound THEN body ELSE {}
     IN  /\ ready' = ready \union routed
         /\ arrived' = arrived \union routed
         /\ unrouted' = unrouted \union dropped
  /\ UNCHANGED <<got, stream, served, bound, unacked, nextTag, finished, unbinds>>

(* The other three wait for the broker's answer, with chMu held.           *)
QueueBind(p) ==
  /\ Has(p, "QueueBind") /\ hand \in served
  /\ Returns
  /\ bound' = TRUE
  /\ UNCHANGED <<got, stream, served, queueVars, historyVars>>

QueueUnbind(p) ==
  /\ Has(p, "QueueUnbind") /\ hand \in served
  /\ Returns
  /\ bound' = FALSE
  /\ UNCHANGED <<got, stream, served, queueVars, historyVars>>

Consume(w) ==
  /\ Has(w, "Consume") /\ hand \in served
  /\ Returns
  /\ stream' = [stream EXCEPT ![w] = hand]
  /\ UNCHANGED <<got, brokerVars, historyVars>>

(* A delivery is answered on the channel it came from, whichever is the    *)
(* client's now: the broker knows it by channel and tag.                   *)
BugAnswered(d) == {e \in unacked : e.chan = hand /\ e.tag = d.tag}
Answered(d) == {e \in unacked : e.chan = d.chan /\ e.tag = d.tag}

Ack(w) ==
  /\ chMu = w /\ op \in {"Ack", "Reject"}
  /\ \E d \in got[w] : unacked' = unacked \ Answered(d)
  /\ got' = [got EXCEPT ![w] = {}]
  /\ Returns
  /\ UNCHANGED <<stream, served, bound, ready, nextTag, historyVars>>

Nack(w) ==
  /\ Has(w, "Requeue")
  /\ \E d \in got[w] :
       /\ unacked' = unacked \ Answered(d)
       /\ ready' = ready \union {e.msg : e \in Answered(d)}
  /\ got' = [got EXCEPT ![w] = {}]
  /\ Returns
  /\ UNCHANGED <<stream, served, bound, nextTag, historyVars>>

(* The broker hands a message to a consumer; every channel counts anew.    *)
Deliver(w) ==
  /\ got[w] = {} /\ stream[w] \in served
  /\ \E m \in ready :
       LET d == [chan |-> stream[w], tag |-> nextTag[stream[w]], msg |-> m]
       IN  /\ ready' = ready \ {m}
           /\ unacked' = unacked \union {d}
           /\ got' = [got EXCEPT ![w] = {d}]
  /\ nextTag' = [nextTag EXCEPT ![stream[w]] = @ + 1]
  /\ UNCHANGED <<loopVars, opVars, stream, requeues, served, bound, historyVars>>

Operate(u) ==
  \/ Fails(u)
  \/ u \in Publishers /\ (PublishJSON(u) \/ QueueBind(u) \/ QueueUnbind(u))
  \/ u \in Workers /\ (Consume(u) \/ Ack(u) \/ Nack(u))

----------------------------------------------------------------------------
Next ==
  \/ LoopStep \/ DropChannel \/ \E h \in Chans : BrokerLoses(h)
  \/ \E p \in Publishers : CallPublish(p) \/ CallBind(p) \/ CallUnbind(p)
  \/ \E w \in Workers : CallConsume(w) \/ CallAck(w) \/ CallReject(w) \/ CallRequeue(w)
  \/ \E w \in Workers : Deliver(w)
  \/ \E u \in Users : Operate(u)

Spec == Init /\ [][Next]_vars

(* The loop restores the channel (RabbitClient's Reconnects); workers      *)
(* consume and answer, in the end with Ack; a sync.Mutex starves nobody.   *)
Fairness ==
  /\ WF_vars(LoopStep)
  /\ WF_vars(\E u \in Users : Operate(u))
  /\ \A w \in Workers : SF_vars(CallConsume(w)) /\ SF_vars(CallAck(w)) /\ WF_vars(Deliver(w))

FairSpec == Spec /\ Fairness

----------------------------------------------------------------------------
(* What the operations guarantee.                                          *)

(* Every variable has its type, chMu is held exactly by an operation, and  *)
(* a channel the broker knows is open.                                     *)
TypeOK ==
  /\ channel \in 0 .. MaxChan /\ shown \in 0 .. MaxChan
  /\ chanState \in [Chans -> {"none", "open", "closed"}]
  /\ opening \in 0 .. MaxChan /\ declared \in BOOLEAN /\ faults \in 0 .. MaxFault
  /\ chMu \in Users \union {NoOne}
  /\ op \in {"none", "PublishJSON", "QueueBind", "QueueUnbind", "Consume",
             "Ack", "Reject", "Requeue"}
  /\ hand \in 0 .. MaxChan /\ body \subseteq Messages
  /\ got \in [Workers -> SUBSET Deliveries] /\ \A w \in Workers : Cardinality(got[w]) <= 1
  /\ stream \in [Workers -> 0 .. MaxChan]
  /\ requeues \in 0 .. MaxRequeue
  /\ served \subseteq Usable
  /\ bound \in BOOLEAN /\ ready \subseteq Messages /\ unacked \subseteq Deliveries
  /\ nextTag \in [Chans -> Nat \ {0}]
  /\ sent \union arrived \union unrouted \union finished \subseteq Messages
  /\ unbinds \in BOOLEAN
  /\ chMu = NoOne <=> op = "none"

(* A message that reached the broker waits in the queue, or for an answer, *)
(* until a worker that was given it is done with it: an Ack that comes     *)
(* late, on a channel that was replaced, answers no other delivery.        *)
(* Unless the application unbinds the queue, no message reaches the broker *)
(* before its queue is bound, on the first channel as on every later one.  *)
NoMessageLost ==
  /\ \A m \in arrived :
       m \in ready \/ m \in finished \/ \E d \in unacked : d.msg = m
  /\ unrouted # {} => unbinds

(* What is queued is handled and leaves the broker in the end, whatever    *)
(* channels are lost while it is published, delivered and acknowledged,    *)
(* and no call that fails keeps chMu from those that come after.           *)
Drains ==
  \A m \in Messages :
    m \in arrived ~> m \in finished \ ready /\ \A d \in unacked : d.msg # m
=============================================================================

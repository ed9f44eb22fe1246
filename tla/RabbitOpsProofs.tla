--------------------------- MODULE RabbitOpsProofs ---------------------------
(***************************************************************************)
(* Theorems about RabbitOps, for any sets of messages, publishers and      *)
(* workers and any number of channels, failures and redeliveries.  The     *)
(* inductive invariant is IInv.                                            *)
(***************************************************************************)
EXTENDS RabbitOps, FiniteSetTheorems, TLAPS

(* A worker has at most one delivery in hand.                              *)
HandInv == \A w \in Workers : \A d, e \in got[w] : d = e

(* A channel and a tag name one delivery: those that wait for an answer,   *)
(* and those workers have in hand, also after their channel was lost.      *)
Known == unacked \union UNION {got[w] : w \in Workers}
TagInv ==
  /\ \A d \in Known : d.tag < nextTag[d.chan]
  /\ \A d, e \in Known : d.chan = e.chan /\ d.tag = e.tag => d = e

(* Who acknowledges has a delivery in hand, and is done with its message.  *)
AckInv ==
  op \in {"Ack", "Reject"} =>
    \A w \in Workers : chMu = w => got[w] # {} /\ \A d \in got[w] : d.msg \in finished

(* Unless the application unbinds, the queue is bound before the client    *)
(* shows a channel, and stays bound.                                       *)
BoundInv ==
  ~unbinds =>
    /\ declared \/ channel # 0 \/ hand # 0 => bound
    /\ op # "QueueUnbind"

IInv == TypeOK /\ HandInv /\ TagInv /\ AckInv /\ BoundInv /\ NoMessageLost

(* A set that has no two members has at most one.                          *)
LEMMA AtMostOne ==
  ASSUME NEW S, \A d, e \in S : d = e
  PROVE  Cardinality(S) <= 1
<1>1. CASE S = {}
  BY <1>1, FS_EmptySet
<1>2. CASE S # {}
  <2>1. PICK d : S = {d}
    BY <1>2
  <2>2. Cardinality({d}) = 1
    BY FS_Singleton
  <2> QED BY <2>1, <2>2
<1> QED BY <1>1, <1>2

(* The initial states satisfy the inductive invariant.                     *)
LEMMA InitIInv == Init => IInv
<1> SUFFICES ASSUME Init PROVE IInv
  OBVIOUS
<1> USE OpsAssumption DEF Init, LifeInit, Chans
<1>1. HandInv
  BY DEF HandInv
<1>2. TypeOK
  <2>1. \A w \in Workers : Cardinality(got[w]) <= 1
    BY <1>1, AtMostOne DEF HandInv
  <2>2. /\ channel \in 0 .. MaxChan /\ shown \in 0 .. MaxChan /\ opening \in 0 .. MaxChan
        /\ hand \in 0 .. MaxChan /\ faults \in 0 .. MaxFault /\ requeues \in 0 .. MaxRequeue
    OBVIOUS
  <2>3. /\ stream \in [Workers -> 0 .. MaxChan]
        /\ nextTag \in [Chans -> Nat \ {0}]
    OBVIOUS
  <2>4. declared \in BOOLEAN /\ bound \in BOOLEAN /\ unbinds \in BOOLEAN
    OBVIOUS
  <2> QED BY <2>1, <2>2, <2>3, <2>4 DEF TypeOK
<1>3. TagInv /\ AckInv /\ BoundInv /\ NoMessageLost
  BY DEF TagInv, Known, AckInv, BoundInv, NoMessageLost
<1> QED BY <1>1, <1>2, <1>3 DEF IInv

----------------------------------------------------------------------------
(* A step of the reconnect loop or of the broker's side of a channel.      *)
LEMMA ChannelStep ==
  ASSUME IInv, LoopStep \/ DropChannel \/ \E h \in Chans : BrokerLoses(h)
  PROVE  IInv'
<1> USE OpsAssumption DEF IInv, TypeOK, lifeVars, loopVars, opVars, workerVars, queueVars,
                           brokerVars, historyVars, Usable, Users
<1>0. ASSUME NEW h, Close(h), opening' \in {0, opening}, faults' \in 0 .. MaxFault,
             UNCHANGED <<declared, opVars, workerVars, historyVars>>
      PROVE  IInv'
  <2> USE <1>0 DEF Close, Break, Closed, Forget
  <2>1. HandInv' /\ AckInv' /\ BoundInv'
    BY DEF HandInv, AckInv, BoundInv
  <2>2. TypeOK'
    <3>1. chanState' \in [Chans -> {"none", "open", "closed"}]
      OBVIOUS
    <3>2. served' \subseteq Usable'
      OBVIOUS
    <3>3. ready' \subseteq Messages /\ unacked' \subseteq Deliveries
      BY DEF Deliveries
    <3> QED BY <3>1, <3>2, <3>3
  <2>3. TagInv'
    BY DEF TagInv, Known
  <2>4. NoMessageLost'
    BY DEF NoMessageLost
  <2> QED BY <2>1, <2>2, <2>3, <2>4
<1>1. ASSUME NEW h \in Chans, OpenChannel(h) PROVE IInv'
  <2> USE <1>1 DEF OpenChannel, Open
  <2>1. HandInv' /\ TagInv' /\ AckInv' /\ NoMessageLost'
    BY DEF HandInv, TagInv, Known, AckInv, NoMessageLost
  <2>2. TypeOK'
    <3>1. chanState' \in [Chans -> {"none", "open", "closed"}] /\ h \in 0 .. MaxChan
      BY DEF Chans
    <3>2. served' \subseteq Usable'
      OBVIOUS
    <3> QED BY <3>1, <3>2
  <2>3. BoundInv'
    BY DEF BoundInv
  <2> QED BY <2>1, <2>2, <2>3
<1>2. CASE DeclareTopology
  <2> USE <1>2 DEF DeclareTopology
  <2>1. HandInv' /\ TagInv' /\ AckInv' /\ NoMessageLost'
    BY DEF HandInv, TagInv, Known, AckInv, NoMessageLost
  <2>2. TypeOK'
    OBVIOUS
  <2>3. BoundInv'
    BY DEF BoundInv
  <2> QED BY <2>1, <2>2, <2>3
<1>3. CASE DeclareFails
  <2>1. CASE UNCHANGED <<lifeVars, brokerVars, faults>>
    <3> USE <1>3, <2>1 DEF DeclareFails
    <3>1. HandInv' /\ TagInv' /\ AckInv' /\ BoundInv' /\ NoMessageLost'
      BY DEF HandInv, TagInv, Known, AckInv, BoundInv, NoMessageLost
    <3>2. TypeOK'
      OBVIOUS
    <3> QED BY <3>1, <3>2
  <2>2. CASE Close(opening) /\ faults < MaxFault /\ faults' = faults + 1
    <3>1. UNCHANGED <<declared, opVars, workerVars, historyVars>> /\ opening' = 0
      BY <1>3 DEF DeclareFails
    <3>2. faults' \in 0 .. MaxFault
      BY <2>2
    <3> QED BY <1>0, <2>2, <3>1, <3>2
  <2> QED BY <1>3, <2>1, <2>2 DEF DeclareFails
<1>4. CASE InstallChannel
  <2> USE <1>4 DEF InstallChannel, Install
  <2>1. HandInv' /\ TagInv' /\ AckInv' /\ NoMessageLost'
    BY DEF HandInv, TagInv, Known, AckInv, NoMessageLost
  <2>2. TypeOK'
    OBVIOUS
  <2>3. BoundInv'
    BY DEF BoundInv
  <2> QED BY <2>1, <2>2, <2>3
<1>5. CASE DropChannel
  <2> USE <1>5 DEF DropChannel, Drop
  <2>1. HandInv' /\ TagInv' /\ AckInv' /\ NoMessageLost'
    BY DEF HandInv, TagInv, Known, AckInv, NoMessageLost
  <2>2. TypeOK'
    OBVIOUS
  <2>3. BoundInv'
    BY DEF BoundInv
  <2> QED BY <2>1, <2>2, <2>3
<1>6. ASSUME NEW h \in Chans, BrokerLoses(h) PROVE IInv'
  <2> USE <1>6 DEF BrokerLoses, Forget
  <2>1. HandInv' /\ AckInv' /\ BoundInv'
    BY DEF HandInv, AckInv, BoundInv
  <2>2. TypeOK'
    <3>1. ready' \subseteq Messages /\ unacked' \subseteq Deliveries
      BY DEF Deliveries
    <3>2. faults' \in 0 .. MaxFault /\ served' \subseteq Usable'
      OBVIOUS
    <3> QED BY <3>1, <3>2
  <2>3. TagInv'
    BY DEF TagInv, Known
  <2>4. NoMessageLost'
    BY DEF NoMessageLost
  <2> QED BY <2>1, <2>2, <2>3, <2>4
<1>7. ASSUME NEW h \in Chans, ClientNotices(h) PROVE IInv'
  <2> USE <1>7 DEF ClientNotices, Break, Closed
  <2>1. HandInv' /\ TagInv' /\ AckInv' /\ BoundInv' /\ NoMessageLost'
    BY DEF HandInv, TagInv, Known, AckInv, BoundInv, NoMessageLost
  <2>2. TypeOK'
    OBVIOUS
  <2> QED BY <2>1, <2>2
<1>8. ASSUME NEW h \in Chans, CloseChannel(h) PROVE IInv'
  BY <1>0, <1>8 DEF CloseChannel
<1> QED BY <1>1, <1>2, <1>3, <1>4, <1>5, <1>6, <1>7, <1>8 DEF LoopStep

(* A call that gets chMu.                                                  *)
LEMMA CallStep ==
  ASSUME IInv,
         \/ \E p \in Publishers : CallPublish(p) \/ CallBind(p) \/ CallUnbind(p)
         \/ \E w \in Workers : CallConsume(w) \/ CallAck(w) \/ CallReject(w) \/ CallRequeue(w)
  PROVE  IInv'
<1> USE OpsAssumption DEF IInv, TypeOK, lifeVars, loopVars, opVars, workerVars, queueVars,
                           brokerVars, historyVars, Usable, Users
<1>1. ASSUME NEW p \in Publishers, CallPublish(p) PROVE IInv'
  <2> USE <1>1 DEF CallPublish, Call
  <2>1. HandInv' /\ TagInv' /\ NoMessageLost'
    BY DEF HandInv, TagInv, Known, NoMessageLost
  <2>2. TypeOK'
    OBVIOUS
  <2>3. AckInv'
    BY DEF AckInv
  <2>4. BoundInv'
    BY DEF BoundInv
  <2> QED BY <2>1, <2>2, <2>3, <2>4
<1>2. ASSUME NEW p \in Publishers, CallBind(p) PROVE IInv'
  <2> USE <1>2 DEF CallBind, Call
  <2>1. HandInv' /\ TagInv' /\ NoMessageLost'
    BY DEF HandInv, TagInv, Known, NoMessageLost
  <2>2. TypeOK'
    OBVIOUS
  <2>3. AckInv'
    BY DEF AckInv
  <2>4. BoundInv'
    BY DEF BoundInv
  <2> QED BY <2>1, <2>2, <2>3, <2>4
<1>3. ASSUME NEW p \in Publishers, CallUnbind(p) PROVE IInv'
  <2> USE <1>3 DEF CallUnbind, Call
  <2>1. HandInv' /\ TagInv' /\ NoMessageLost'
    BY DEF HandInv, TagInv, Known, NoMessageLost
  <2>2. TypeOK'
    OBVIOUS
  <2>3. AckInv'
    BY DEF AckInv
  <2>4. BoundInv'
    BY DEF BoundInv
  <2> QED BY <2>1, <2>2, <2>3, <2>4
<1>4. ASSUME NEW w \in Workers, CallConsume(w) PROVE IInv'
  <2> USE <1>4 DEF CallConsume, Call
  <2>1. HandInv' /\ TagInv' /\ NoMessageLost'
    BY DEF HandInv, TagInv, Known, NoMessageLost
  <2>2. TypeOK'
    OBVIOUS
  <2>3. AckInv'
    BY DEF AckInv
  <2>4. BoundInv'
    BY DEF BoundInv
  <2> QED BY <2>1, <2>2, <2>3, <2>4
<1>5. ASSUME NEW w \in Workers, CallAck(w) PROVE IInv'
  <2> USE <1>5 DEF CallAck, Call
  <2>1. HandInv' /\ TagInv'
    BY DEF HandInv, TagInv, Known
  <2>2. TypeOK'
    <3>1. \A d \in Deliveries : d.msg \in Messages
      BY DEF Deliveries
    <3>2. finished' \subseteq Messages
      BY <3>1
    <3> QED BY <3>2
  <2>3. AckInv'
    BY DEF AckInv, HandInv
  <2>4. BoundInv'
    BY DEF BoundInv
  <2>5. NoMessageLost'
    BY DEF NoMessageLost
  <2> QED BY <2>1, <2>2, <2>3, <2>4, <2>5
<1>6. ASSUME NEW w \in Workers, CallReject(w) PROVE IInv'
  <2> USE <1>6 DEF CallReject, Call
  <2>1. HandInv' /\ TagInv'
    BY DEF HandInv, TagInv, Known
  <2>2. TypeOK'
    <3>1. \A d \in Deliveries : d.msg \in Messages
      BY DEF Deliveries
    <3>2. finished' \subseteq Messages
      BY <3>1
    <3> QED BY <3>2
  <2>3. AckInv'
    BY DEF AckInv, HandInv
  <2>4. BoundInv'
    BY DEF BoundInv
  <2>5. NoMessageLost'
    BY DEF NoMessageLost
  <2> QED BY <2>1, <2>2, <2>3, <2>4, <2>5
<1>7. ASSUME NEW w \in Workers, CallRequeue(w) PROVE IInv'
  <2> USE <1>7 DEF CallRequeue, Call
  <2>1. HandInv' /\ TagInv' /\ NoMessageLost'
    BY DEF HandInv, TagInv, Known, NoMessageLost
  <2>2. TypeOK'
    OBVIOUS
  <2>3. AckInv'
    BY DEF AckInv
  <2>4. BoundInv'
    BY DEF BoundInv
  <2> QED BY <2>1, <2>2, <2>3, <2>4
<1> QED BY <1>1, <1>2, <1>3, <1>4, <1>5, <1>6, <1>7

(* What an operation does, and a delivery.                                 *)
LEMMA OperateStep ==
  ASSUME IInv, \/ \E u \in Users : Operate(u)
               \/ \E w \in Workers : Deliver(w)
  PROVE  IInv'
<1> USE OpsAssumption DEF IInv, TypeOK, lifeVars, loopVars, opVars, workerVars, queueVars,
                           brokerVars, historyVars, Usable, Users
<1>1. ASSUME NEW u \in Users, Fails(u) PROVE IInv'
  <2> USE <1>1 DEF Fails, Returns
  <2>1. HandInv' /\ TagInv' /\ NoMessageLost'
    BY DEF HandInv, TagInv, Known, NoMessageLost
  <2>2. TypeOK'
    OBVIOUS
  <2>3. AckInv'
    BY DEF AckInv
  <2>4. BoundInv'
    BY DEF BoundInv
  <2> QED BY <2>1, <2>2, <2>3, <2>4
<1>2. ASSUME NEW p \in Publishers, PublishJSON(p) PROVE IInv'
  <2> USE <1>2 DEF PublishJSON, Has, Returns
  <2>1. HandInv' /\ TagInv'
    BY DEF HandInv, TagInv, Known
  <2>2. TypeOK'
    OBVIOUS
  <2>3. AckInv'
    BY DEF AckInv
  <2>4. BoundInv'
    BY DEF BoundInv
  <2>5. NoMessageLost'
    BY DEF NoMessageLost, BoundInv, Chans
  <2> QED BY <2>1, <2>2, <2>3, <2>4, <2>5
<1>3. ASSUME NEW p \in Publishers, QueueBind(p) PROVE IInv'
  <2> USE <1>3 DEF QueueBind, Has, Returns
  <2>1. HandInv' /\ TagInv' /\ NoMessageLost'
    BY DEF HandInv, TagInv, Known, NoMessageLost
  <2>2. TypeOK'
    OBVIOUS
  <2>3. AckInv'
    BY DEF AckInv
  <2>4. BoundInv'
    BY DEF BoundInv
  <2> QED BY <2>1, <2>2, <2>3, <2>4
<1>4. ASSUME NEW p \in Publishers, QueueUnbind(p) PROVE IInv'
  <2> USE <1>4 DEF QueueUnbind, Has, Returns
  <2>1. HandInv' /\ TagInv' /\ NoMessageLost'
    BY DEF HandInv, TagInv, Known, NoMessageLost
  <2>2. TypeOK'
    <3>1. bound' \in BOOLEAN
      OBVIOUS
    <3> QED BY <3>1
  <2>3. AckInv'
    BY DEF AckInv
  <2>4. BoundInv'
    BY DEF BoundInv
  <2> QED BY <2>1, <2>2, <2>3, <2>4
<1>5. ASSUME NEW w \in Workers, Consume(w) PROVE IInv'
  <2> USE <1>5 DEF Consume, Has, Returns
  <2>1. HandInv' /\ TagInv' /\ NoMessageLost'
    BY DEF HandInv, TagInv, Known, NoMessageLost
  <2>2. TypeOK'
    OBVIOUS
  <2>3. AckInv'
    BY DEF AckInv
  <2>4. BoundInv'
    BY DEF BoundInv
  <2> QED BY <2>1, <2>2, <2>3, <2>4
<1>6. ASSUME NEW w \in Workers, Ack(w) PROVE IInv'
  <2> USE <1>6 DEF Ack, Answered, Returns
  <2>1. BoundInv'
    BY DEF BoundInv
  <2>2. HandInv'
    BY DEF HandInv
  <2>3. TypeOK'
    <3>1. \A v \in Workers : Cardinality(got'[v]) <= 1
      BY <2>2, AtMostOne DEF HandInv
    <3> QED BY <3>1
  <2>4. TagInv'
    BY DEF TagInv, Known
  <2>5. AckInv'
    BY DEF AckInv
  <2>6. NoMessageLost'
    BY DEF NoMessageLost, AckInv, TagInv, Known
  <2> QED BY <2>1, <2>2, <2>3, <2>4, <2>5, <2>6
<1>7. ASSUME NEW w \in Workers, Nack(w) PROVE IInv'
  <2> USE <1>7 DEF Nack, Has, Answered, Returns
  <2>1. BoundInv'
    BY DEF BoundInv
  <2>2. HandInv'
    BY DEF HandInv
  <2>3. TypeOK'
    <3>1. \A v \in Workers : Cardinality(got'[v]) <= 1
      BY <2>2, AtMostOne DEF HandInv
    <3>2. ready' \subseteq Messages /\ unacked' \subseteq Deliveries
      BY DEF Deliveries
    <3>3. got' \in [Workers -> SUBSET Deliveries]
      OBVIOUS
    <3> QED BY <3>1, <3>2, <3>3
  <2>4. TagInv'
    BY DEF TagInv, Known
  <2>5. AckInv'
    BY DEF AckInv
  <2>6. NoMessageLost'
    BY DEF NoMessageLost
  <2> QED BY <2>1, <2>2, <2>3, <2>4, <2>5, <2>6
<1>8. ASSUME NEW w \in Workers, Deliver(w) PROVE IInv'
  <2> DEFINE c == stream[w]
             t == nextTag[c]
  <2>1. PICK m \in ready : /\ ready' = ready \ {m}
                           /\ unacked' = unacked \union {[chan |-> c, tag |-> t, msg |-> m]}
                           /\ got' = [got EXCEPT ![w] = {[chan |-> c, tag |-> t, msg |-> m]}]
    BY <1>8 DEF Deliver
  <2> DEFINE d == [chan |-> c, tag |-> t, msg |-> m]
  <2>2. /\ got[w] = {} /\ c \in served
        /\ nextTag' = [nextTag EXCEPT ![c] = @ + 1]
        /\ UNCHANGED <<loopVars, opVars, stream, requeues, served, bound, historyVars>>
    BY <1>8 DEF Deliver
  <2>3. c \in Chans /\ t \in Nat \ {0}
    BY <2>2
  <2>4. d \in Deliveries /\ d.chan = c /\ d.tag = t /\ d.msg = m
    BY <2>3 DEF Deliveries
  <2> HIDE DEF d
  <2>5. unacked' = unacked \union {d} /\ got' = [got EXCEPT ![w] = {d}]
    BY <2>1 DEF d
  <2>6. Known' \subseteq Known \union {d}
    BY <2>5 DEF Known
  <2>7. nextTag' \in [Chans -> Nat \ {0}] /\ nextTag'[c] = t + 1
    BY <2>2, <2>3
  <2>8. HandInv'
    BY <2>5 DEF HandInv
  <2>9. TypeOK'
    <3>1. \A v \in Workers : Cardinality(got'[v]) <= 1
      BY <2>8, AtMostOne DEF HandInv
    <3>2. ready' \subseteq Messages /\ unacked' \subseteq Deliveries
      BY <2>1, <2>4, <2>5
    <3>3. got' \in [Workers -> SUBSET Deliveries]
      BY <2>4, <2>5
    <3> QED BY <3>1, <3>2, <3>3, <2>2, <2>7
  <2>10. TagInv'
    <3>1. Known \subseteq Deliveries
      BY DEF Known
    <3>2. \A e \in Known : e.chan \in Chans /\ e.tag \in Nat /\ e.tag < nextTag[e.chan]
      BY <3>1 DEF TagInv, Deliveries
    <3>3. \A e \in Known : e.tag < nextTag'[e.chan]
      BY <3>2, <2>2, <2>3
    <3>4. d.tag < nextTag'[d.chan]
      BY <2>3, <2>4, <2>7
    <3>5. \A e \in Known : ~(e.chan = d.chan /\ e.tag = d.tag)
      BY <3>2, <2>3, <2>4
    <3> QED BY <2>6, <3>3, <3>4, <3>5 DEF TagInv
  <2>11. AckInv' /\ BoundInv'
    BY <2>2, <2>5 DEF AckInv, BoundInv
  <2>12. NoMessageLost'
    BY <2>1, <2>2, <2>4, <2>5 DEF NoMessageLost
  <2> QED BY <2>8, <2>9, <2>10, <2>11, <2>12
<1> QED BY <1>1, <1>2, <1>3, <1>4, <1>5, <1>6, <1>7, <1>8 DEF Operate

----------------------------------------------------------------------------
(* Every step of the system preserves the inductive invariant.             *)
LEMMA IInvStep == IInv /\ [Next]_vars => IInv'
<1> SUFFICES ASSUME IInv, [Next]_vars PROVE IInv'
  OBVIOUS
<1>1. CASE LoopStep \/ DropChannel \/ \E h \in Chans : BrokerLoses(h)
  BY <1>1, ChannelStep
<1>2. CASE \/ \E p \in Publishers : CallPublish(p) \/ CallBind(p) \/ CallUnbind(p)
           \/ \E w \in Workers : CallConsume(w) \/ CallAck(w) \/ CallReject(w) \/ CallRequeue(w)
  BY <1>2, CallStep
<1>3. CASE (\E u \in Users : Operate(u)) \/ \E w \in Workers : Deliver(w)
  BY <1>3, OperateStep
<1>4. CASE UNCHANGED vars
  BY <1>4 DEF vars, loopVars, lifeVars, opVars, workerVars, queueVars, brokerVars, historyVars,
              IInv, TypeOK, HandInv, TagInv, Known, AckInv, BoundInv, NoMessageLost, Usable
<1> QED BY <1>1, <1>2, <1>3, <1>4 DEF Next

(* IInv holds in every state the operations can reach.                     *)
THEOREM Invariance == Spec => []IInv
  BY InitIInv, IInvStep, PTL DEF Spec

(* Every variable has its type, chMu is held exactly by an operation, and  *)
(* a channel the broker knows is open.                                     *)
THEOREM TypeCorrect == Spec => []TypeOK
<1>1. IInv => TypeOK
  BY DEF IInv
<1> QED BY <1>1, Invariance, PTL

(* However often the channel is replaced while messages are published,     *)
(* delivered and answered, a message that reached the broker waits there   *)
(* until a worker is done with it, and none finds the queue unbound unless *)
(* the application unbinds it.                                             *)
THEOREM MessagesAreKept == Spec => []NoMessageLost
<1>1. IInv => NoMessageLost
  BY DEF IInv
<1> QED BY <1>1, Invariance, PTL

=============================================================================

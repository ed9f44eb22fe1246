---------------------------- MODULE ChannelLife -----------------------------
(***************************************************************************)
(* What the operations of rabbitmq.Client may assume of its channel,       *)
(* whatever the reconnect loop, Stop and the broker do: channels are opened*)
(* in order, each is shown at most once and only while none is, and a      *)
(* closed one never opens again.  The one shown is taken away before it is *)
(* closed, so an operation may still hold it; a channel may also close     *)
(* while it is shown.  RabbitClient implements this; RabbitOps builds on   *)
(* it.                                                                     *)
(***************************************************************************)
EXTENDS Naturals

CONSTANT MaxChan        \* bound: channels opened

Chans == 1 .. MaxChan

VARIABLES channel,      \* r.channel, 0 when it is nil
          shown,        \* the last channel that was stored there
          chanState     \* "none", "open" or "closed"

lifeVars == <<channel, shown, chanState>>

LifeInit ==
  /\ channel = 0 /\ shown = 0
  /\ chanState = [h \in Chans |-> "none"]

Open(h) ==
  /\ chanState[h] = "none" /\ \A g \in Chans : g < h => chanState[g] # "none"
  /\ chanState' = [chanState EXCEPT ![h] = "open"]
  /\ UNCHANGED <<channel, shown>>

Install(h) ==
  /\ channel = 0 /\ h > shown /\ chanState[h] # "none"
  /\ channel' = h /\ shown' = h
  /\ UNCHANGED chanState

Closed(S) == [h \in Chans |-> IF h \in S /\ chanState[h] = "open" THEN "closed" ELSE chanState[h]]

Drop ==
  /\ channel # 0
  /\ channel' = 0
  /\ UNCHANGED <<shown, chanState>>

Break(S) ==
  /\ chanState' = Closed(S)
  /\ UNCHANGED <<channel, shown>>

LifeNext ==
  \/ \E h \in Chans : Open(h) \/ Install(h)
  \/ Drop
  \/ \E S \in SUBSET Chans : Break(S)

LifeSpec == LifeInit /\ [][LifeNext]_lifeVars
=============================================================================

------------------------------- MODULE Worker -------------------------------
(***************************************************************************)
(* A worker of a service: its handlers are called back by nats.Client and  *)
(* use memcached.Client, and may publish, with the context they are given. *)
(* The trace of a request goes through both clients.                       *)
(***************************************************************************)
EXTENDS CacheClient, NatsMessages

ASSUME WorkerAssumption == Users = Handlers

workerVars == <<vars, msgVars>>

WorkerInit == Init /\ MsgInit

(* The handler's goroutine does one thing at a time.                       *)
Free(h) == opPc[h] = "idle" /\ pubPc[h] = "idle"

(* The cache's tracer starts a span if the context carries one.            *)
UseCache(h) ==
  /\ handling[h] # {} /\ Free(h)
  /\ \E c \in {ctx[h], OptOut(ctx[h])} :
       OpCall(h) /\ (span'[h] = "open" <=> HasTrace(c))
  /\ UNCHANGED msgVars

HandlerPublishes(h) ==
  /\ handling[h] # {} /\ opPc[h] = "idle"
  /\ Publish(h)
  /\ UNCHANGED vars

Manage ==
  /\ \E x \in Callers : StartCall(x) \/ StopCall(x) \/ CallStep(x)
  /\ UNCHANGED msgVars

Cached(h) == OpStep(h) /\ UNCHANGED msgVars

Messaging ==
  /\ \/ Connection
     \/ \E p \in Publishers : Publish(p)
     \/ \E h \in Handlers : Callback(h)
     \/ \E h \in Handlers : Free(h) /\ HandlerReturns(h)
  /\ UNCHANGED vars

WorkerNext ==
  \/ Manage \/ Messaging
  \/ \E h \in Handlers : UseCache(h) \/ Cached(h) \/ HandlerPublishes(h)

WorkerSpec == WorkerInit /\ [][WorkerNext]_workerVars

----------------------------------------------------------------------------
(* What the two clients guarantee together.                                *)

(* Every variable of the two clients has its type.                         *)
WorkerTypeOK == TypeOK /\ MsgTypeOK

Seen(m) == \E h \in Handlers : m \in handling[h]

(* The trace of a request is whole.  A message whose Publish was traced is *)
(* received in the trace, below the span of the Publish; one whose Publish *)
(* had no trace, or opted out, starts none.  A handler's span is open as   *)
(* long as the handler runs, whatever it publishes or asks the cache with  *)
(* that context, so everything below it is inside it; and the span of a    *)
(* Publish ends once, failed exactly if the Publish did.                   *)
TracesJoin ==
  /\ \A m \in Messages :
       /\ state[Receiving(m)] # "none" => parent[Receiving(m)] = Sending(m)
       /\ Seen(m) => (state[Receiving(m)] = "open" <=> state[Sending(m)] # "none")
       /\ ~Seen(m) => state[Receiving(m)] \in {"none", "ended"}
       /\ outcome[m] # "none" => state[Sending(m)] \in
            IF outcome[m] = "ok" THEN {"none", "ended"} ELSE {"none", "failed"}
       /\ parent[Sending(m)] \in Own => state[parent[Sending(m)]] # "none"
  /\ \A h \in Handlers :
       (opPc[h] # "idle" /\ span[h] = "open") \/ (pubPc[h] = "send" /\ next[h] # given[h]) =>
         \E m \in handling[h] : state[Receiving(m)] = "open"
=============================================================================

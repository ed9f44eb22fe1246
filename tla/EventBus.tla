------------------------------ MODULE EventBus ------------------------------
(***************************************************************************)
(* gtk.EventBusTopic (src/gtk/event_bus.go): one topic, the goroutines     *)
(* that publish to it, the worker pool of each subscriber, the calls of    *)
(* the unsubscribe function Subscribe returned, and the goroutine that     *)
(* unsubscribes everyone once the topic's context is cancelled.            *)
(*                                                                         *)
(* A subscription is named by the id its Subscribe call draws.  Operators  *)
(* whose name starts with "Bug" are wrong on purpose: each is the form a   *)
(* plausible mistake would give to the definition that follows it.         *)
(***************************************************************************)
EXTENDS RWMutex, Integers, Sequences, Functions

CONSTANTS Subs,         \* the subscriptions that may be made
          Workers,      \* the worker pool of a subscription
          Publishers,   \* goroutines that call Publish; a member <<s, w>> is
                        \* handler code that publishes from worker w of s
          Users,        \* goroutines that call the returned unsubscribe
          BufferSize,   \* the buffer of a subscription's channel
          MaxPublish    \* bound: how often a publisher publishes

ASSUME BusAssumption ==
  /\ BufferSize \in Nat \ {0}
  /\ MaxPublish \in Nat
  /\ Workers # {}
  /\ Users \cap {"watch", "Subscribe"} = {}

(* The callers of unsubscribe(s): users, the goroutine unsubscribeAll      *)
(* starts for s, and Subscribe itself when it finds the context cancelled. *)
Callers == Users \union {"watch", "Subscribe"}
Pool == Subs \X Workers
Nested == Publishers \cap Pool
Value == Publishers \X (1 .. MaxPublish)
Calls == Subs \X Callers

(* Writers of the topic's mutex; at most one call of unsubscribe(s) gets   *)
(* past its sync.Once, so they need not be told apart by their caller.     *)
SubscribeWriter(s) == <<"Subscribe", s>>
UnsubWriter(s) == <<"unsub", s>>
WatchWriter == <<"unsubscribeAll", "watch">>
Writers == ({"Subscribe", "unsub"} \X Subs) \union {WatchWriter}

ASSUME WriterAssumption == NoOne \notin Writers

VARIABLES subs,         \* t.subs: the registered subscriptions
          unsubs,       \* t.unsubs: the handles unsubscribeAll will call
          chan,         \* chan[s]: the values buffered in the channel of s
          closed,       \* the channels that are closed
          busy,         \* busy[<<s, w>>]: the value fn runs on in worker w of s
          exited,       \* the workers that have left their range loop
          delivered,    \* history: the values fn was called on, per subscription
          subPc,        \* where the call of Subscribe is
          once,         \* the sync.Once of unsubscribe(s)
          unsubPc,      \* where a caller is in its call of unsubscribe(s)
          pubPc,        \* where a publisher is in Publish
          todo,         \* the subscriptions its range has not come to
          sending,      \* the one it is sending to (at most one)
          published,    \* how many calls it has made
          watchPc,      \* where the goroutine watch() is
          cancelled     \* the topic's context is done

chanVars == <<chan, closed, busy, exited, delivered>>
subVars == <<subs, unsubs, subPc>>
unsubVars == <<once, unsubPc>>
pubVars == <<pubPc, todo, sending, published>>
watchVars == <<watchPc, cancelled>>
vars == <<lockVars, chanVars, subVars, unsubVars, pubVars, watchVars>>

Init ==
  /\ LockInit
  /\ subs = {} /\ unsubs = {} /\ closed = {} /\ exited = {}
  /\ chan = [s \in Subs |-> <<>>]
  /\ busy = [x \in Pool |-> {}]
  /\ delivered = [s \in Subs |-> {}]
  /\ subPc = [s \in Subs |-> "idle"]
  /\ once = [s \in Subs |-> "new"]
  /\ unsubPc = [x \in Calls |-> "idle"]
  /\ pubPc = [p \in Publishers |-> "idle"]
  /\ todo = [p \in Publishers |-> {}]
  /\ sending = [p \in Publishers |-> {}]
  /\ published = [p \in Publishers |-> 0]
  /\ watchPc = "waiting" /\ cancelled = FALSE

----------------------------------------------------------------------------
(* Subscribe.  The critical section is one step: nothing in it waits, and  *)
(* what it reads besides the lock's data is ctx.Err().                     *)

SubscribeLock(s) ==
  /\ subPc[s] = "idle"
  /\ Announce(SubscribeWriter(s))
  /\ subPc' = [subPc EXCEPT ![s] = "pending"]
  /\ UNCHANGED <<subs, unsubs, chanVars, unsubVars, pubVars, watchVars>>

BugSeesCancel == FALSE
SeesCancel == cancelled

SubscribeRegister(s) ==
  /\ subPc[s] = "pending" /\ Holds(SubscribeWriter(s))
  /\ subs' = subs \union {s}
  /\ unsubs' = unsubs \union {s}
  /\ Unlock
  /\ IF SeesCancel
       THEN /\ subPc' = [subPc EXCEPT ![s] = "unsub"]
            /\ unsubPc' = [unsubPc EXCEPT ![<<s, "Subscribe">>] = "once"]
       ELSE /\ subPc' = [subPc EXCEPT ![s] = "returned"]
            /\ UNCHANGED unsubPc
  /\ UNCHANGED <<once, chanVars, pubVars, watchVars>>

SubscribeReturn(s) ==
  /\ subPc[s] = "unsub" /\ unsubPc[<<s, "Subscribe">>] = "returned"
  /\ subPc' = [subPc EXCEPT ![s] = "returned"]
  /\ UNCHANGED <<subs, unsubs, lockVars, chanVars, unsubVars, pubVars, watchVars>>

----------------------------------------------------------------------------
(* unsubscribe(s): sync.Once lets one caller in and holds the others back  *)
(* until that one has returned.                                            *)

UnsubCall(s, u) ==
  /\ subPc[s] = "returned" /\ unsubPc[<<s, u>>] \in {"idle", "returned"}
  /\ unsubPc' = [unsubPc EXCEPT ![<<s, u>>] = "once"]
  /\ UNCHANGED <<once, lockVars, chanVars, subVars, pubVars, watchVars>>

OnceFirst(s, c) ==
  /\ unsubPc[<<s, c>>] = "once" /\ once[s] = "new"
  /\ once' = [once EXCEPT ![s] = "running"]
  /\ unsubPc' = [unsubPc EXCEPT ![<<s, c>>] = "lock"]
  /\ UNCHANGED <<lockVars, chanVars, subVars, pubVars, watchVars>>

BugOnceIsOver(s) == once[s] # "new"
OnceIsOver(s) == once[s] = "done"

OnceAgain(s, c) ==
  /\ unsubPc[<<s, c>>] = "once" /\ OnceIsOver(s)
  /\ unsubPc' = [unsubPc EXCEPT ![<<s, c>>] = "returned"]
  /\ UNCHANGED <<once, lockVars, chanVars, subVars, pubVars, watchVars>>

UnsubLock(s, c) ==
  /\ unsubPc[<<s, c>>] = "lock"
  /\ Announce(UnsubWriter(s))
  /\ unsubPc' = [unsubPc EXCEPT ![<<s, c>>] = "pending"]
  /\ UNCHANGED <<once, chanVars, subVars, pubVars, watchVars>>

BugCloseChannel(s) == UNCHANGED closed
CloseChannel(s) == closed' = closed \union {s}

UnsubClose(s, c) ==
  /\ unsubPc[<<s, c>>] = "pending" /\ Holds(UnsubWriter(s))
  /\ IF s \in subs
       THEN subs' = subs \ {s} /\ CloseChannel(s)
       ELSE UNCHANGED <<subs, closed>>
  /\ Unlock
  /\ unsubPc' = [unsubPc EXCEPT ![<<s, c>>] = "join"]
  /\ UNCHANGED <<unsubs, subPc, once, chan, busy, exited, delivered, pubVars, watchVars>>

Joined(s) == \A w \in Workers : <<s, w>> \in exited

UnsubReturn(s, c) ==
  /\ unsubPc[<<s, c>>] = "join" /\ Joined(s)
  /\ once' = [once EXCEPT ![s] = "done"]
  /\ unsubPc' = [unsubPc EXCEPT ![<<s, c>>] = "returned"]
  /\ UNCHANGED <<lockVars, chanVars, subVars, pubVars, watchVars>>

----------------------------------------------------------------------------
(* Publish: the read lock is held from before the range over t.subs until  *)
(* after its last send, the deferred RUnlock also when a send panics.      *)

PublishCall(p) ==
  /\ pubPc[p] = "idle" /\ published[p] < MaxPublish
  /\ p \in Nested => busy[p] # {}
  /\ RLock(p)
  /\ pubPc' = [pubPc EXCEPT ![p] = "rlock"]
  /\ published' = [published EXCEPT ![p] = @ + 1]
  /\ UNCHANGED <<todo, sending, chanVars, subVars, unsubVars, watchVars>>

BugPublishRange(p) ==
  /\ pubPc[p] = "rlock" /\ p \in readers
  /\ todo' = [todo EXCEPT ![p] = subs]
  /\ pubPc' = [pubPc EXCEPT ![p] = "range"]
  /\ RUnlock(p)
  /\ UNCHANGED <<sending, published, chanVars, subVars, unsubVars, watchVars>>

PublishRange(p) ==
  /\ pubPc[p] = "rlock" /\ p \in readers
  /\ todo' = [todo EXCEPT ![p] = subs]
  /\ pubPc' = [pubPc EXCEPT ![p] = "range"]
  /\ UNCHANGED <<sending, published, lockVars, chanVars, subVars, unsubVars, watchVars>>

BugUnvisited(p, s) == todo[p]
Unvisited(p, s) == todo[p] \ {s}

PublishPick(p, s) ==
  /\ pubPc[p] = "range" /\ sending[p] = {} /\ s \in todo[p]
  /\ sending' = [sending EXCEPT ![p] = {s}]
  /\ todo' = [todo EXCEPT ![p] = Unvisited(p, s)]
  /\ UNCHANGED <<pubPc, published, lockVars, chanVars, subVars, unsubVars, watchVars>>

BugHasRoom(s) == Len(chan[s]) <= BufferSize
HasRoom(s) == Len(chan[s]) < BufferSize

(* A send waits for room; a send on a closed channel panics.               *)
PublishSend(p, s) ==
  /\ s \in sending[p]
  /\ s \in closed \/ HasRoom(s)
  /\ sending' = [sending EXCEPT ![p] = {}]
  /\ IF s \in closed
       THEN /\ pubPc' = [pubPc EXCEPT ![p] = "panicked"]
            /\ todo' = [todo EXCEPT ![p] = {}]
            /\ RUnlock(p)
            /\ UNCHANGED chan
       ELSE /\ chan' = [chan EXCEPT ![s] = Append(@, <<p, published[p]>>)]
            /\ UNCHANGED <<pubPc, todo, lockVars>>
  /\ UNCHANGED <<published, closed, busy, exited, delivered, subVars, unsubVars, watchVars>>

BugRangeIsOver(p) == sending[p] = {}
RangeIsOver(p) == todo[p] = {} /\ sending[p] = {}

PublishFinish(p) ==
  /\ pubPc[p] = "range" /\ RangeIsOver(p)
  /\ RUnlock(p)
  /\ pubPc' = [pubPc EXCEPT ![p] = "idle"]
  /\ todo' = [todo EXCEPT ![p] = {}]
  /\ UNCHANGED <<sending, published, chanVars, subVars, unsubVars, watchVars>>

----------------------------------------------------------------------------
(* The workers of a subscription: a buffered value is handed to fn; when   *)
(* the channel is closed and drained the range loop ends.                  *)

WorkerTake(s, w) ==
  /\ <<s, w>> \notin exited /\ busy[<<s, w>>] = {} /\ chan[s] # <<>>
  /\ busy' = [busy EXCEPT ![<<s, w>>] = {Head(chan[s])}]
  /\ chan' = [chan EXCEPT ![s] = Tail(@)]
  /\ delivered' = [delivered EXCEPT ![s] = @ \union {Head(chan[s])}]
  /\ UNCHANGED <<closed, exited, lockVars, subVars, unsubVars, pubVars, watchVars>>

(* fn returns, or panics and is recovered: the worker goes on either way.  *)
(* A handler that publishes is not back before its Publish is.             *)
FnReturn(s, w) ==
  /\ busy[<<s, w>>] # {}
  /\ <<s, w>> \in Nested => pubPc[<<s, w>>] \in {"idle", "panicked"}
  /\ busy' = [busy EXCEPT ![<<s, w>>] = {}]
  /\ UNCHANGED <<chan, closed, exited, delivered, lockVars, subVars, unsubVars, pubVars, watchVars>>

BugMayExit(s) == s \in closed
MayExit(s) == s \in closed /\ chan[s] = <<>>

WorkerExit(s, w) ==
  /\ <<s, w>> \notin exited /\ busy[<<s, w>>] = {} /\ MayExit(s)
  /\ exited' = exited \union {<<s, w>>}
  /\ UNCHANGED <<chan, closed, busy, delivered, lockVars, subVars, unsubVars, pubVars, watchVars>>

----------------------------------------------------------------------------
(* The topic's context, and watch() with unsubscribeAll: the handles are   *)
(* taken under the lock and called after it, each in a goroutine.          *)

Cancel ==
  /\ ~cancelled /\ cancelled' = TRUE
  /\ UNCHANGED <<watchPc, lockVars, chanVars, subVars, unsubVars, pubVars>>

WatchLock ==
  /\ watchPc = "waiting" /\ cancelled
  /\ Announce(WatchWriter)
  /\ watchPc' = "pending"
  /\ UNCHANGED <<cancelled, chanVars, subVars, unsubVars, pubVars>>

WatchCollect ==
  /\ watchPc = "pending" /\ Holds(WatchWriter)
  /\ unsubs' = {}
  /\ Unlock
  /\ unsubPc' = [x \in Calls |->
       IF x[1] \in unsubs /\ x[2] = "watch" THEN "once" ELSE unsubPc[x]]
  /\ watchPc' = "join"
  /\ UNCHANGED <<cancelled, subs, subPc, once, chanVars, pubVars>>

WatchReturn ==
  /\ watchPc = "join"
  /\ \A s \in Subs : unsubPc[<<s, "watch">>] \in {"idle", "returned"}
  /\ watchPc' = "done"
  /\ UNCHANGED <<cancelled, lockVars, chanVars, subVars, unsubVars, pubVars>>

----------------------------------------------------------------------------
UnsubStep(s, c) ==
  OnceFirst(s, c) \/ OnceAgain(s, c) \/ UnsubLock(s, c) \/ UnsubClose(s, c) \/ UnsubReturn(s, c)

SubscribeStep(s) ==
  SubscribeRegister(s) \/ SubscribeReturn(s) \/ UnsubStep(s, "Subscribe")

PublishStep(p) ==
  \/ PublishRange(p) \/ PublishFinish(p)
  \/ \E s \in Subs : PublishPick(p, s) \/ PublishSend(p, s)

WorkerStep(s, w) == WorkerTake(s, w) \/ FnReturn(s, w) \/ WorkerExit(s, w)

WatchStep == WatchLock \/ WatchCollect \/ WatchReturn

Next ==
  \/ \E s \in Subs :
       \/ SubscribeLock(s) \/ SubscribeStep(s)
       \/ \E u \in Users : UnsubCall(s, u)
       \/ \E c \in Users \union {"watch"} : UnsubStep(s, c)
       \/ \E w \in Workers : WorkerStep(s, w)
  \/ \E p \in Publishers : PublishCall(p) \/ PublishStep(p)
  \/ WatchStep
  \/ Cancel

Spec == Init /\ [][Next]_vars

(* A goroutine that can run does; handlers return.  Nobody has to call     *)
(* Subscribe, unsubscribe or Publish, or to cancel the context.            *)
Fairness ==
  /\ \A s \in Subs : WF_vars(SubscribeStep(s))
  /\ \A s \in Subs, c \in Users \union {"watch"} : WF_vars(UnsubStep(s, c))
  /\ \A s \in Subs, w \in Workers : WF_vars(WorkerStep(s, w))
  /\ \A p \in Publishers : WF_vars(PublishStep(p))
  /\ WF_vars(WatchStep)

FairSpec == Spec /\ Fairness

----------------------------------------------------------------------------
(* What a topic guarantees.                                                *)

(* Every variable has its type and no channel holds more than its buffer.  *)
TypeOK ==
  /\ readers \subseteq Publishers /\ blocked \subseteq Publishers
  /\ writer \in Writers \union {NoOne}
  /\ subs \subseteq Subs /\ unsubs \subseteq Subs /\ closed \subseteq Subs
  /\ chan \in [Subs -> Seq(Value)]
  /\ \A s \in Subs : Len(chan[s]) <= BufferSize
  /\ busy \in [Pool -> SUBSET Value]
  /\ exited \subseteq Pool
  /\ delivered \in [Subs -> SUBSET Value]
  /\ subPc \in [Subs -> {"idle", "pending", "unsub", "returned"}]
  /\ once \in [Subs -> {"new", "running", "done"}]
  /\ unsubPc \in [Calls -> {"idle", "once", "lock", "pending", "join", "returned"}]
  /\ pubPc \in [Publishers -> {"idle", "rlock", "range", "panicked"}]
  /\ todo \in [Publishers -> SUBSET Subs]
  /\ sending \in [Publishers -> SUBSET Subs]
  /\ published \in [Publishers -> 0 .. MaxPublish]
  /\ watchPc \in {"waiting", "pending", "join", "done"}
  /\ cancelled \in BOOLEAN

(* The values that reached s: handed to fn, or waiting in its channel.     *)
Accepted(s) == delivered[s] \union Range(chan[s])

(* Publish never sends on a channel unsubscribe closed, however the two    *)
(* interleave (the comment on Publish).                                    *)
NoSendOnClosed == \A p \in Publishers : pubPc[p] # "panicked"

(* When any caller's unsubscribe returns, the first or a later one, nothing*)
(* of the subscription is left: it is not registered, no value is buffered,*)
(* no fn runs and none will (the comment on Subscribe).                    *)
QuietAfterUnsubscribe ==
  \A s \in Subs, c \in Callers : unsubPc[<<s, c>>] = "returned" =>
    /\ s \notin subs /\ chan[s] = <<>>
    /\ \A w \in Workers : busy[<<s, w>>] = {} /\ <<s, w>> \in exited

(* Once unsubscribeAll has taken the handles, a registered subscription is *)
(* one somebody is about to unsubscribe: a Subscribe that raced with the   *)
(* cancellation is not forgotten (the comment at the end of Subscribe).    *)
NoOrphanAfterCancel ==
  watchPc \in {"join", "done"} =>
    \A s \in subs : \E c \in Callers : unsubPc[<<s, c>>] \in {"once", "lock", "pending"}

(* A subscription gets a value at most once: it is never buffered twice,   *)
(* nor buffered again after fn was called on it.                           *)
AtMostOnce ==
  \A s \in Subs :
    /\ \A i, j \in DOMAIN chan[s] : chan[s][i] = chan[s][j] => i = j
    /\ Range(chan[s]) \cap delivered[s] = {}

(* When Publish returns, every subscription registered at that moment has  *)
(* the value.                                                              *)
PublishReachesAll ==
  [][\A p \in Publishers : pubPc[p] = "range" /\ pubPc'[p] = "idle" =>
       \A s \in subs : <<p, published[p]>> \in Accepted(s)]_vars

(* Each subscription is an inbox as FanOut describes it.                   *)
Phase(s) ==
  CASE subPc[s] \in {"idle", "pending"} -> "absent"
    [] s \in subs -> "member"
    [] once[s] = "done" -> "gone"
    [] OTHER -> "leaving"

FO == INSTANCE FanOut WITH
  phase <- [s \in Subs |-> Phase(s)],
  inbox <- chan,
  running <- [s \in Subs |-> UNION {busy[<<s, w>>] : w \in Workers}]

RefinesFanOut == FO!Spec

(* Once the context is cancelled every subscription ends (the comment on   *)
(* NewEventBusTopic).                                                      *)
CancelUnsubscribesAll == \A s \in Subs : (cancelled /\ s \in subs) ~> s \notin subs

(* Every call comes back: Subscribe, also when it has to unsubscribe; the  *)
(* unsubscribe of a user; unsubscribeAll; and Publish.                     *)
CallsReturn ==
  /\ \A s \in Subs : subPc[s] \in {"pending", "unsub"} ~> subPc[s] = "returned"
  /\ \A s \in Subs, u \in Users : unsubPc[<<s, u>>] = "once" ~> unsubPc[<<s, u>>] = "returned"
  /\ watchPc = "pending" ~> watchPc = "done"
  /\ \A p \in Publishers : pubPc[p] = "rlock" ~> pubPc[p] = "idle"

(* A slow subscription catches up, also when it ends first: what Publish   *)
(* buffered does not stay there.                                           *)
BuffersDrain == \A s \in Subs : []<>(chan[s] = <<>>)

----------------------------------------------------------------------------
(* Why the invariants above hold: the inductive invariant of the proofs.   *)

(* A publisher ranges under its read lock over registered subscriptions.   *)
RangeInv ==
  \A p \in Publishers :
    /\ IF pubPc[p] = "range"
         THEN p \in readers /\ todo[p] \subseteq subs /\ sending[p] \subseteq subs
         ELSE todo[p] = {} /\ sending[p] = {}
    /\ pubPc[p] # "idle" => published[p] > 0

(* A channel is registered first and closed when it no longer is.          *)
ClosedInv ==
  /\ closed \cap subs = {}
  /\ \A s \in closed \union subs : subPc[s] \in {"unsub", "returned"}

(* A worker leaves a closed and drained channel, and nothing enters it.    *)
ExitInv ==
  \A s \in Subs, w \in Workers : <<s, w>> \in exited =>
    s \in closed /\ chan[s] = <<>> /\ busy[<<s, w>>] = {}

(* No caller returns before the one sync.Once let in has joined the pool.  *)
OnceInv ==
  \A s \in Subs :
    /\ once[s] = "done" => \A w \in Workers : <<s, w>> \in exited
    /\ \A c \in Callers : unsubPc[<<s, c>>] = "returned" => once[s] = "done"

(* Until they are taken, unsubs has the handle of every subscription.      *)
WatchInv ==
  /\ watchPc \in {"waiting", "pending"} => subs \subseteq unsubs
  /\ watchPc # "waiting" => cancelled

(* What was published reached a registered subscription, or its turn in the*)
(* range under way has yet to come; never both.                            *)
DeliveryInv ==
  /\ \A s \in Subs : \A v \in Accepted(s) : v[2] <= published[v[1]]
  /\ \A p \in Publishers : pubPc[p] = "rlock" =>
       \A s \in Subs : <<p, published[p]>> \notin Accepted(s)
  /\ \A p \in Publishers : pubPc[p] = "range" =>
       /\ todo[p] \cap sending[p] = {}
       /\ \A s, t \in sending[p] : s = t
       /\ \A s \in subs :
            <<p, published[p]>> \in Accepted(s) <=> s \notin todo[p] \union sending[p]

IInv ==
  /\ TypeOK /\ RangeInv /\ ClosedInv /\ ExitInv /\ OnceInv /\ WatchInv /\ DeliveryInv
  /\ NoSendOnClosed /\ NoOrphanAfterCancel /\ AtMostOnce
=============================================================================

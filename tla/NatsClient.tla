----------------------------- MODULE NatsClient -----------------------------
(***************************************************************************)
(* nats.Client (src/nats/nats_client.go): Start, Stop, the goroutine that  *)
(* stops the client when its context ends, and the table of subscriptions. *)
(* Start, Stop, Subscribe and Unsubscribe each call the NATS library       *)
(* between two critical sections, or after one.                            *)
(*                                                                         *)
(* The g-th Start makes the Go channel done number g and, if it succeeds,  *)
(* the connection number g; subscriptions are numbered in the order the    *)
(* library makes them, and 0 is nil.  Reconnects are the library's: a      *)
(* connection is open, however often it is cut off, until it is drained.   *)
(*                                                                         *)
(* Operators whose name starts with "Bug" are wrong on purpose: each is    *)
(* the form a plausible mistake would give to a definition after it.       *)
(***************************************************************************)
EXTENDS Integers

CONSTANTS Callers,      \* goroutines that call Start and Stop
          Users,        \* goroutines that call Subscribe and Unsubscribe
          Subjects,
          MaxStart,     \* bound: successful calls of Start
          MaxSub,       \* bound: subscriptions the library makes
          Careful,      \* the calls of Start and Stop never overlap, and
                        \* Start is called only when Conn() is nil
          Patient       \* Start is called only when the goroutines of the
                        \* earlier Starts have ended

ASSUME NatsAssumption ==
  /\ MaxStart \in Nat /\ MaxSub \in Nat
  /\ Careful \in BOOLEAN /\ Patient \in BOOLEAN
  /\ Subjects # {} /\ Callers \cap Nat = {}

Gens == 1 .. MaxStart           \* the Starts; each has a goroutine watchContext
Stoppers == Callers \union Gens
SubIds == 1 .. MaxSub

VARIABLES running,      \* c.running
          done,         \* c.done: the last Start
          doneClosed,   \* the done channels that are closed
          doubleClose,  \* history: a closed done channel was closed again
          nc,           \* c.nc
          subs,         \* c.subs: the subscription of each subject
          connState,    \* "none", "open", "draining" or "closed"
          subState,     \* "none", "live" or "dead": whether its handler runs
          subConn,      \* the connection of a subscription
          subSubject,   \* its subject
          cancelled,    \* the parent context is done
          pc,           \* where a caller is in Start or Stop, or a watchContext
          mine,         \* the connection it has in hand, or a watcher's c.done
          userPc,       \* where a user is in Subscribe or Unsubscribe
          subject,      \* of its call
          hand          \* the connection, later the subscription, it has in hand

lifeVars == <<running, done, doneClosed, doubleClose, cancelled>>
callVars == <<pc, mine>>
userVars == <<userPc, subject, hand>>
serverVars == <<subState, subConn, subSubject>>
vars == <<lifeVars, nc, subs, connState, serverVars, callVars, userVars>>

NoSubs == [j \in Subjects |-> 0]

Init ==
  /\ running = FALSE /\ done = 0 /\ doneClosed = {} /\ doubleClose = FALSE
  /\ cancelled = FALSE
  /\ nc = 0 /\ subs = NoSubs
  /\ connState = [g \in Gens |-> "none"]
  /\ subState = [i \in SubIds |-> "none"]
  /\ subConn = [i \in SubIds |-> 0]
  /\ subSubject = [i \in SubIds |-> CHOOSE j \in Subjects : TRUE]
  /\ pc = [x \in Stoppers |-> IF x \in Gens THEN "unborn" ELSE "idle"]
  /\ mine = [x \in Stoppers |-> 0]
  /\ userPc = [u \in Users |-> "idle"]
  /\ subject = [u \in Users |-> CHOOSE j \in Subjects : TRUE]
  /\ hand = [u \in Users |-> 0]

Goto(x, label) == pc' = [pc EXCEPT ![x] = label]
UserGoto(u, label) == userPc' = [userPc EXCEPT ![u] = label]

Overlaps == \E x \in Callers : pc[x] # "idle"

CloseDone ==
  /\ doneClosed' = doneClosed \union {done}
  /\ doubleClose' = (doubleClose \/ done \in doneClosed)

----------------------------------------------------------------------------
(* Start: marked running under mu, connected without it, stored under it.  *)

StartMark(x) ==
  /\ pc[x] = "idle" /\ ~running /\ done < MaxStart
  /\ Careful => nc = 0 /\ ~Overlaps
  /\ Patient => \A g \in Gens : pc[g] \in {"unborn", "exit"}
  /\ running' = TRUE /\ done' = done + 1
  /\ Goto(x, "connect")
  /\ mine' = [mine EXCEPT ![x] = done + 1]
  /\ UNCHANGED <<doneClosed, doubleClose, cancelled, nc, subs, connState, serverVars, userVars>>

StartConnect(x) ==
  /\ pc[x] = "connect"
  /\ connState' = [connState EXCEPT ![mine[x]] = "open"]
  /\ Goto(x, "store")
  /\ UNCHANGED <<lifeVars, nc, subs, serverVars, mine, userVars>>

(* A server that is down is no failure; a bad URL or a refused login is.   *)
StartConnectFails(x) ==
  /\ pc[x] = "connect"
  /\ Goto(x, "fail")
  /\ UNCHANGED <<lifeVars, nc, subs, connState, serverVars, mine, userVars>>

StartFail(x) ==
  /\ pc[x] = "fail"
  /\ running' = FALSE
  /\ CloseDone
  /\ Goto(x, "idle")
  /\ UNCHANGED <<done, cancelled, nc, subs, connState, serverVars, mine, userVars>>

StartStore(x) ==
  /\ pc[x] = "store"
  /\ nc' = mine[x]
  /\ pc' = [pc EXCEPT ![x] = "idle", ![mine[x]] = "born"]
  /\ UNCHANGED <<lifeVars, subs, connState, serverVars, mine, userVars>>

----------------------------------------------------------------------------
(* Stop: the connection is taken under mu and drained without it.  The     *)
(* library drains in the background, and closes instead if it cannot.      *)

StopMark(x) ==
  /\ running' = FALSE
  /\ CloseDone
  /\ nc' = 0 /\ subs' = NoSubs
  /\ mine' = [mine EXCEPT ![x] = nc]

BugMayStop == TRUE
MayStop == running

StopCall(x) ==
  /\ pc[x] = "idle" /\ MayStop
  /\ Careful => ~Overlaps
  /\ StopMark(x)
  /\ Goto(x, IF nc = 0 THEN "idle" ELSE "drain")
  /\ UNCHANGED <<done, cancelled, connState, serverVars, userVars>>

KillSubs(c) ==
  subState' = [i \in SubIds |->
    IF subConn[i] = c /\ subState[i] = "live" THEN "dead" ELSE subState[i]]

BugStopDrain(x) ==
  /\ pc[x] = "drain"
  /\ \/ connState' = [connState EXCEPT ![mine[x]] = "draining"]
     \/ UNCHANGED connState
  /\ Goto(x, IF x \in Gens THEN "exit" ELSE "idle")
  /\ UNCHANGED <<lifeVars, nc, subs, serverVars, mine, userVars>>

StopDrain(x) ==
  /\ pc[x] = "drain"
  /\ \/ /\ connState' = [connState EXCEPT ![mine[x]] = "draining"]
        /\ UNCHANGED subState
     \/ /\ connState' = [connState EXCEPT ![mine[x]] = "closed"]
        /\ KillSubs(mine[x])
  /\ Goto(x, IF x \in Gens THEN "exit" ELSE "idle")
  /\ UNCHANGED <<lifeVars, nc, subs, subConn, subSubject, mine, userVars>>

DrainEnds(c) ==
  /\ connState[c] = "draining"
  /\ connState' = [connState EXCEPT ![c] = "closed"]
  /\ KillSubs(c)
  /\ UNCHANGED <<lifeVars, nc, subs, subConn, subSubject, callVars, userVars>>

----------------------------------------------------------------------------
(* watchContext of the g-th Start: c.done is read as its select starts.    *)

WatchStart(g) ==
  /\ pc[g] = "born"
  /\ mine' = [mine EXCEPT ![g] = done]
  /\ Goto(g, "watch")
  /\ UNCHANGED <<lifeVars, nc, subs, connState, serverVars, userVars>>

WatchDone(g) ==
  /\ pc[g] = "watch" /\ mine[g] \in doneClosed
  /\ Goto(g, "exit")
  /\ UNCHANGED <<lifeVars, nc, subs, connState, serverVars, mine, userVars>>

BugSeesCancel(g) == FALSE
SeesCancel(g) == cancelled

WatchCancel(g) ==
  /\ pc[g] = "watch" /\ SeesCancel(g)
  /\ IF MayStop
       THEN StopMark(g) /\ Goto(g, IF nc = 0 THEN "exit" ELSE "drain")
       ELSE Goto(g, "exit") /\ UNCHANGED <<running, doneClosed, doubleClose, nc, subs, mine>>
  /\ UNCHANGED <<done, cancelled, connState, serverVars, userVars>>

Cancel ==
  /\ ~cancelled /\ cancelled' = TRUE
  /\ UNCHANGED <<running, done, doneClosed, doubleClose, nc, subs, connState, serverVars, callVars, userVars>>

----------------------------------------------------------------------------
(* Subscribe: the table is checked, the library asked without the lock,    *)
(* and the table checked again before the subscription is entered.         *)

BugRefuses(j) == subs[j] # 0
Refuses(j) == subs[j] # 0 \/ nc = 0

SubscribeCheck(u, j) ==
  /\ userPc[u] = "idle"
  /\ IF Refuses(j)
       THEN UserGoto(u, "idle") /\ UNCHANGED <<subject, hand>>
       ELSE /\ UserGoto(u, "subscribe")
            /\ subject' = [subject EXCEPT ![u] = j]
            /\ hand' = [hand EXCEPT ![u] = nc]
  /\ UNCHANGED <<lifeVars, nc, subs, connState, serverVars, callVars>>

SubscribeAsk(u) ==
  /\ userPc[u] = "subscribe"
  /\ connState[hand[u]] = "open"
  /\ \E i \in SubIds :
       /\ {k \in SubIds : subState[k] = "none"} = i .. MaxSub
       /\ subState' = [subState EXCEPT ![i] = "live"]
       /\ subConn' = [subConn EXCEPT ![i] = hand[u]]
       /\ subSubject' = [subSubject EXCEPT ![i] = subject[u]]
       /\ hand' = [hand EXCEPT ![u] = i]
  /\ UserGoto(u, "enter")
  /\ UNCHANGED <<lifeVars, nc, subs, connState, callVars, subject>>

(* The connection drains or is closed, or the bound is reached.            *)
SubscribeRefused(u) ==
  /\ userPc[u] = "subscribe"
  /\ connState[hand[u]] # "open" \/ \A i \in SubIds : subState[i] # "none"
  /\ UserGoto(u, "idle")
  /\ hand' = [hand EXCEPT ![u] = 0]
  /\ UNCHANGED <<lifeVars, nc, subs, connState, serverVars, callVars, subject>>

BugTaken(j) == FALSE
Taken(j) == subs[j] # 0

SubscribeEnter(u) ==
  /\ userPc[u] = "enter"
  /\ IF Taken(subject[u])
       THEN UserGoto(u, "release") /\ UNCHANGED <<subs, hand>>
       ELSE /\ subs' = [subs EXCEPT ![subject[u]] = hand[u]]
            /\ hand' = [hand EXCEPT ![u] = 0]
            /\ UserGoto(u, "idle")
  /\ UNCHANGED <<lifeVars, nc, connState, serverVars, callVars, subject>>

(* Unsubscribe takes the entry out of the table and then asks the library, *)
(* as does the Subscribe that lost.                                        *)

BugForget(j) == UNCHANGED subs
Forget(j) == subs' = [subs EXCEPT ![j] = 0]

UnsubscribeTake(u, j) ==
  /\ userPc[u] = "idle" /\ subs[j] # 0
  /\ Forget(j)
  /\ hand' = [hand EXCEPT ![u] = subs[j]]
  /\ UserGoto(u, "release")
  /\ UNCHANGED <<lifeVars, nc, connState, serverVars, callVars, subject>>

(* The library refuses while the connection drains or is closed.           *)
Release(u) ==
  /\ userPc[u] = "release"
  /\ subState' = [subState EXCEPT ![hand[u]] =
       IF connState[subConn[hand[u]]] = "open" THEN "dead" ELSE @]
  /\ hand' = [hand EXCEPT ![u] = 0]
  /\ UserGoto(u, "idle")
  /\ UNCHANGED <<lifeVars, nc, subs, connState, subConn, subSubject, callVars, subject>>

----------------------------------------------------------------------------
StartStep(x) == StartConnect(x) \/ StartConnectFails(x) \/ StartFail(x) \/ StartStore(x)

WatchStep(g) == WatchStart(g) \/ WatchDone(g) \/ WatchCancel(g) \/ StopDrain(g)

UserStep(u) == SubscribeAsk(u) \/ SubscribeRefused(u) \/ SubscribeEnter(u) \/ Release(u)

Next ==
  \/ \E x \in Callers : StartMark(x) \/ StartStep(x) \/ StopCall(x) \/ StopDrain(x)
  \/ \E g \in Gens : WatchStep(g) \/ DrainEnds(g)
  \/ \E u \in Users :
       UserStep(u) \/ \E j \in Subjects : SubscribeCheck(u, j) \/ UnsubscribeTake(u, j)
  \/ Cancel

Spec == Init /\ [][Next]_vars

(* Goroutines that can run do, and a drain ends.  Nobody has to call Start,*)
(* Stop, Subscribe or Unsubscribe, or to cancel.                           *)
Fairness ==
  /\ \A x \in Callers : WF_vars(StartStep(x) \/ StopDrain(x))
  /\ \A g \in Gens : WF_vars(WatchStep(g)) /\ WF_vars(DrainEnds(g))
  /\ \A u \in Users : WF_vars(UserStep(u))

FairSpec == Spec /\ Fairness

----------------------------------------------------------------------------
(* What the client guarantees.                                             *)

(* Every variable has its type, and a call of the library has a connection *)
(* or a subscription to make it on, never nil.                             *)
TypeOK ==
  /\ running \in BOOLEAN /\ cancelled \in BOOLEAN /\ doubleClose \in BOOLEAN
  /\ done \in 0 .. MaxStart /\ doneClosed \subseteq Gens
  /\ nc \in 0 .. MaxStart
  /\ subs \in [Subjects -> 0 .. MaxSub]
  /\ connState \in [Gens -> {"none", "open", "draining", "closed"}]
  /\ subState \in [SubIds -> {"none", "live", "dead"}]
  /\ subConn \in [SubIds -> 0 .. MaxStart]
  /\ subSubject \in [SubIds -> Subjects]
  /\ pc \in [Stoppers -> {"unborn", "born", "watch", "exit",
                          "idle", "connect", "store", "fail", "drain"}]
  /\ mine \in [Stoppers -> 0 .. MaxStart]
  /\ \A x \in Stoppers : pc[x] \in {"store", "drain"} => mine[x] \in Gens
  /\ userPc \in [Users -> {"idle", "subscribe", "enter", "release"}]
  /\ subject \in [Users -> Subjects]
  /\ hand \in [Users -> Gens \union SubIds \union {0}]
  /\ \A u \in Users :
       /\ userPc[u] = "idle" => hand[u] = 0
       /\ userPc[u] = "subscribe" => hand[u] \in Gens
       /\ userPc[u] \in {"enter", "release"} => hand[u] \in SubIds

InHand(i) == \E u \in Users : userPc[u] \in {"enter", "release"} /\ hand[u] = i

(* A handler that runs on the client's connection is in the table, or a    *)
(* call that has not returned will enter or end it: Unsubscribe can reach  *)
(* every handler, also after two calls of Subscribe met.                   *)
NoLostHandler ==
  \A i \in SubIds : subState[i] = "live" /\ subConn[i] = nc =>
    subs[subSubject[i]] = i \/ InHand(i)

(* Stop closes the connection (its comment): a client that is stopped, with*)
(* no call and no watcher under way, has none.                             *)
StopClosesConnection ==
  /\ ~running /\ \A x \in Callers : pc[x] = "idle"
  /\ \A g \in Gens : pc[g] \in {"unborn", "exit"}
  => \A c \in Gens : connState[c] # "open"

(* A connection is the client's, or whoever made it will store it, or      *)
(* whoever took it will drain it; and Stop closes it.                      *)
NoLostConnection ==
  /\ \A c \in Gens : connState[c] = "open" =>
       nc = c \/ \E x \in Stoppers : pc[x] \in {"store", "drain"} /\ mine[x] = c
  /\ StopClosesConnection

(* No done channel is closed twice, which would panic: "Client is a        *)
(* thread-safe wrapper".                                                   *)
NoDoubleClose == ~doubleClose

(* Subscribe and Unsubscribe of one subject, run against each other and    *)
(* against Stop, never leave an entry behind whose handler has ended: while*)
(* the connection it was made on is the client's, the handler runs.        *)
EntryIsLive ==
  \A j \in Subjects : subs[j] # 0 /\ subConn[subs[j]] = nc =>
    subState[subs[j]] = "live"

(* When the context ends every connection is closed and no handler is left.*)
CancelEndsAll ==
  cancelled ~> (\A c \in Gens : connState[c] \in {"none", "closed"}) /\ (\A i \in SubIds : subState[i] # "live")
=============================================================================

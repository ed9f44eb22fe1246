---------------------------- MODULE RabbitClient ----------------------------
(***************************************************************************)
(* rabbitmq.Client (src/rabbitmq/rabbitmq_client.go): the reconnect loop   *)
(* Start spawns, the goroutines that watch a connection and a channel      *)
(* close, Stop, and a broker that closes either at any time.               *)
(*                                                                         *)
(* Connections and channels are numbered in the order they are opened and  *)
(* 0 is nil.  The Go channels connClosed and chanClosed are made with the  *)
(* connection or channel they tell about and have its number; the Go       *)
(* channel done has the number of the Start that made it.  Each use of mu  *)
(* is a step, and so is each call of the AMQP library: what a goroutine    *)
(* took or read under mu is in its hands until it has closed or used it.   *)
(*                                                                         *)
(* Operators whose name starts with "Bug" are wrong on purpose: each is    *)
(* the form a plausible mistake would give to a definition after it.       *)
(***************************************************************************)
EXTENDS Integers, FiniteSets

CONSTANTS Callers,      \* goroutines that call Start and Stop
          MaxStart,     \* bound: successful calls of Start
          MaxFault,     \* bound: failures of the network and the broker
          MaxConn,      \* bound: connections dialled
          MaxChan,      \* bound: channels opened
          Patient       \* Start is called only after the last loop has ended
                        \* and if Connection() and GetChannel() return nil

ASSUME ClientAssumption ==
  /\ MaxStart \in Nat /\ MaxFault \in Nat /\ MaxConn \in Nat /\ MaxChan \in Nat
  /\ Patient \in BOOLEAN
  /\ Callers \cap Nat = {}

Loops == 1 .. MaxStart          \* the loop of each Start
Procs == Loops \union Callers
Conns == 1 .. MaxConn
Chans == 1 .. MaxChan

VARIABLES running,      \* r.running
          done,         \* r.done: the last Start
          stoppedGens,  \* the Starts whose done is closed
          cancelled,    \* the parent context is done
          conn,         \* r.conn
          connClosed,   \* r.connClosed
          channel,      \* r.channel
          chanClosed,   \* r.chanClosed
          connState,    \* "none", "open" or "closed"
          chanState,
          chanConn,     \* the connection a channel was opened on
          connWatch,    \* connections whose watcher waits
          chanWatch,
          connSignal,   \* connections whose connClosed is closed
          chanSignal,
          announced,    \* the last event published, Connected or Disconnected
          pc,           \* where a loop or a call of Stop is
          back,         \* where it goes on after teardown
          held,         \* the connection or channel a goroutine has in hand
          sel,          \* what a loop selects on: done, connClosed, chanClosed
          faults

runVars == <<running, done, stoppedGens, cancelled>>
handleVars == <<conn, connClosed, channel, chanClosed>>
netVars == <<connState, chanState, chanConn>>
watchVars == <<connWatch, chanWatch, connSignal, chanSignal>>
vars == <<runVars, handleVars, netVars, watchVars, announced, pc, back, held, sel, faults>>

Init ==
  /\ running = FALSE /\ done = 0 /\ stoppedGens = {} /\ cancelled = FALSE
  /\ conn = 0 /\ connClosed = 0 /\ channel = 0 /\ chanClosed = 0
  /\ connState = [c \in Conns |-> "none"]
  /\ chanState = [h \in Chans |-> "none"]
  /\ chanConn = [h \in Chans |-> 0]
  /\ connWatch = {} /\ chanWatch = {} /\ connSignal = {} /\ chanSignal = {}
  /\ announced = "nothing"
  /\ pc = [p \in Procs |-> IF p \in Loops THEN "unborn" ELSE "idle"]
  /\ back = [p \in Procs |-> "none"]
  /\ held = [p \in Procs |-> 0]
  /\ sel = [l \in Loops |-> [done |-> 0, conn |-> 0, chan |-> 0]]
  /\ faults = 0

Goto(p, label) == pc' = [pc EXCEPT ![p] = label]

(* stopped(): r.done is read without mu, whatever Start it belongs to.     *)
Stopped == done \in stoppedGens \/ cancelled

ConnAlive == conn # 0 /\ connState[conn] = "open"

(* Close of a connection closes its channels; closing twice is harmless.   *)
ConnsAfterClose(c) ==
  [x \in Conns |-> IF x = c THEN "closed" ELSE connState[x]]
ChanAfterClose(g) ==
  [h \in Chans |-> IF h = g THEN "closed" ELSE chanState[h]]
ChansAfterClose(c) ==
  [h \in Chans |-> IF chanConn[h] = c /\ chanState[h] = "open" THEN "closed" ELSE chanState[h]]

(* The connection with the next number, if the bound leaves one.           *)
FreshConn(c) == c \in Conns /\ c = 1 + Cardinality({x \in Conns : connState[x] # "none"})
FreshChan(h) == h \in Chans /\ h = 1 + Cardinality({x \in Chans : chanState[x] # "none"})

Fault == faults < MaxFault /\ faults' = faults + 1

----------------------------------------------------------------------------
(* Start and Stop.                                                         *)

Start(u) ==
  /\ pc[u] = "idle" /\ ~running /\ done < MaxStart
  /\ Patient => conn = 0 /\ channel = 0 /\ \A l \in Loops : pc[l] \in {"unborn", "exit"}
  /\ running' = TRUE
  /\ done' = done + 1
  /\ Goto(done + 1, "top")
  /\ UNCHANGED <<stoppedGens, cancelled, handleVars, netVars, watchVars, announced, back, held, sel, faults>>

(* Stop marks the client stopped under mu, then tears the connection down. *)
BugStopQuietly(u) ==
  /\ pc[u] = "idle" /\ running
  /\ running' = FALSE
  /\ Goto(u, "teardown")
  /\ back' = [back EXCEPT ![u] = "idle"]
  /\ UNCHANGED <<done, stoppedGens, cancelled, handleVars, netVars, watchVars, announced, held, sel, faults>>

BugStopAgain(u) ==
  /\ pc[u] = "idle"
  /\ running' = FALSE
  /\ stoppedGens' = stoppedGens \union {done}
  /\ Goto(u, "teardown")
  /\ back' = [back EXCEPT ![u] = "idle"]
  /\ UNCHANGED <<done, cancelled, handleVars, netVars, watchVars, announced, held, sel, faults>>

Stop(u) ==
  /\ pc[u] = "idle" /\ running
  /\ running' = FALSE
  /\ stoppedGens' = stoppedGens \union {done}
  /\ Goto(u, "teardown")
  /\ back' = [back EXCEPT ![u] = "idle"]
  /\ UNCHANGED <<done, cancelled, handleVars, netVars, watchVars, announced, held, sel, faults>>

----------------------------------------------------------------------------
(* closeChannel, dropConnection, and teardown, which is one after the      *)
(* other.  They run in a loop and in Stop.  Both take the handle out of the*)
(* client under mu and close it after the unlock.                          *)

CloseChannelAnnounce(p) ==
  /\ pc[p] \in {"teardown", "closeChannel"}
  /\ announced' = "Disconnected"
  /\ Goto(p, IF pc[p] = "teardown" THEN "tdChannel" ELSE "ccChannel")
  /\ UNCHANGED <<runVars, handleVars, netVars, watchVars, back, held, sel, faults>>

BugCloseChannelTake(p) ==
  /\ pc[p] \in {"tdChannel", "ccChannel"}
  /\ held' = [held EXCEPT ![p] = channel]
  /\ Goto(p, IF pc[p] = "tdChannel" THEN "tdChannelClose" ELSE "ccChannelClose")
  /\ UNCHANGED <<runVars, handleVars, netVars, watchVars, announced, back, sel, faults>>

CloseChannelTake(p) ==
  /\ pc[p] \in {"tdChannel", "ccChannel"}
  /\ channel' = 0
  /\ held' = [held EXCEPT ![p] = channel]
  /\ Goto(p, IF pc[p] = "tdChannel" THEN "tdChannelClose" ELSE "ccChannelClose")
  /\ UNCHANGED <<runVars, conn, connClosed, chanClosed, netVars, watchVars, announced, back, sel, faults>>

CloseChannelClose(p) ==
  /\ pc[p] \in {"tdChannelClose", "ccChannelClose"}
  /\ chanState' = ChanAfterClose(held[p])
  /\ held' = [held EXCEPT ![p] = 0]
  /\ Goto(p, IF pc[p] = "tdChannelClose" THEN "tdConn" ELSE "top")
  /\ UNCHANGED <<runVars, handleVars, connState, chanConn, watchVars, announced, back, sel, faults>>

DropConnectionTake(p) ==
  /\ pc[p] \in {"tdConn", "drop"}
  /\ conn' = 0
  /\ held' = [held EXCEPT ![p] = conn]
  /\ Goto(p, IF pc[p] = "tdConn" THEN "tdConnClose" ELSE "dropClose")
  /\ UNCHANGED <<runVars, connClosed, channel, chanClosed, netVars, watchVars, announced, back, sel, faults>>

BugDropConnectionClose(p) ==
  /\ pc[p] \in {"tdConnClose", "dropClose"}
  /\ held' = [held EXCEPT ![p] = 0]
  /\ Goto(p, IF pc[p] = "tdConnClose" THEN back[p] ELSE "dial")
  /\ UNCHANGED <<runVars, handleVars, netVars, watchVars, announced, back, sel, faults>>

DropConnectionClose(p) ==
  /\ pc[p] \in {"tdConnClose", "dropClose"}
  /\ connState' = ConnsAfterClose(held[p])
  /\ chanState' = ChansAfterClose(held[p])
  /\ held' = [held EXCEPT ![p] = 0]
  /\ Goto(p, IF pc[p] = "tdConnClose" THEN back[p] ELSE "dial")
  /\ UNCHANGED <<runVars, handleVars, chanConn, watchVars, announced, back, sel, faults>>

Teardown(p) ==
  \/ CloseChannelAnnounce(p) \/ CloseChannelTake(p) \/ CloseChannelClose(p)
  \/ DropConnectionTake(p) \/ DropConnectionClose(p)

----------------------------------------------------------------------------
(* The reconnect loop of the l-th Start.                                   *)

LoopTop(l) ==
  /\ pc[l] = "top"
  /\ Goto(l, IF Stopped THEN "exit" ELSE "check")
  /\ UNCHANGED <<runVars, handleVars, netVars, watchVars, announced, back, held, sel, faults>>

LoopCheck(l) ==
  /\ pc[l] = "check"
  /\ Goto(l, IF ConnAlive THEN "open" ELSE "drop")
  /\ UNCHANGED <<runVars, handleVars, netVars, watchVars, announced, back, held, sel, faults>>

(* connectWithBackoff.  A dial that is under way may succeed although the  *)
(* client was stopped or its context cancelled meanwhile.                  *)
DialOk(l) ==
  /\ pc[l] = "dial"
  /\ \E c \in Conns :
       /\ FreshConn(c)
       /\ connState' = [connState EXCEPT ![c] = "open"]
       /\ held' = [held EXCEPT ![l] = c]
  /\ Goto(l, "install")
  /\ UNCHANGED <<runVars, handleVars, chanState, chanConn, watchVars, announced, back, sel, faults>>

(* It fails when the context ends, when the retries or the timeout are used*)
(* up (a fault), or at the model's bound.                                  *)
DialFails(l) ==
  /\ pc[l] = "dial"
  /\ \/ Fault
     \/ (cancelled \/ \A c \in Conns : ~FreshConn(c)) /\ UNCHANGED faults
  /\ Goto(l, "wait")
  /\ UNCHANGED <<runVars, handleVars, netVars, watchVars, announced, back, held, sel>>

DialInstall(l) ==
  /\ pc[l] = "install"
  /\ conn' = held[l] /\ connClosed' = held[l]
  /\ connWatch' = connWatch \union {held[l]}
  /\ held' = [held EXCEPT ![l] = 0]
  /\ Goto(l, "open")
  /\ UNCHANGED <<runVars, channel, chanClosed, netVars, chanWatch, connSignal, chanSignal, announced, back, sel, faults>>

(* openChannel: the connection is read under mu, a channel is opened on it,*)
(* the topology is declared on that channel before the client shows it.    *)
OpenChannelRead(l) ==
  /\ pc[l] = "open" /\ ConnAlive
  /\ held' = [held EXCEPT ![l] = conn]
  /\ Goto(l, "opening")
  /\ UNCHANGED <<runVars, handleVars, netVars, watchVars, announced, back, sel, faults>>

OpenChannelOk(l) ==
  /\ pc[l] = "opening" /\ connState[held[l]] = "open"
  /\ \E h \in Chans :
       /\ FreshChan(h)
       /\ chanState' = [chanState EXCEPT ![h] = "open"]
       /\ chanConn' = [chanConn EXCEPT ![h] = held[l]]
       /\ held' = [held EXCEPT ![l] = h]
  /\ Goto(l, "declare")
  /\ UNCHANGED <<runVars, handleVars, connState, watchVars, announced, back, sel, faults>>

(* The connection is gone, Channel() fails (a fault), or a declaration does*)
(* (a fault, or the channel is closed), and the channel is closed then.    *)
OpenChannelFails(l) ==
  /\ \/ pc[l] = "open" /\ ~ConnAlive /\ UNCHANGED <<chanState, faults>>
     \/ /\ pc[l] = "opening" /\ UNCHANGED chanState
        /\ \/ Fault
           \/ (connState[held[l]] = "closed" \/ \A h \in Chans : ~FreshChan(h)) /\ UNCHANGED faults
     \/ /\ pc[l] = "declare" /\ chanState' = ChanAfterClose(held[l])
        /\ Fault \/ (chanState[held[l]] = "closed" /\ UNCHANGED faults)
  /\ held' = [held EXCEPT ![l] = 0]
  /\ Goto(l, "teardown")
  /\ back' = [back EXCEPT ![l] = "wait"]
  /\ UNCHANGED <<runVars, handleVars, connState, chanConn, watchVars, announced, sel>>

OpenChannelInstall(l) ==
  /\ pc[l] = "declare"
  /\ channel' = held[l] /\ chanClosed' = held[l]
  /\ chanWatch' = chanWatch \union {held[l]}
  /\ held' = [held EXCEPT ![l] = 0]
  /\ Goto(l, "announce")
  /\ UNCHANGED <<runVars, conn, connClosed, netVars, connWatch, connSignal, chanSignal, announced, back, sel, faults>>

LoopAnnounce(l) ==
  /\ pc[l] = "announce"
  /\ announced' = "Connected"
  /\ Goto(l, "capture")
  /\ UNCHANGED <<runVars, handleVars, netVars, watchVars, back, held, sel, faults>>

(* connClosed and chanClosed are read under mu, done as select starts.     *)
LoopCapture(l) ==
  /\ pc[l] = "capture"
  /\ sel' = [sel EXCEPT ![l] = [done |-> done, conn |-> connClosed, chan |-> chanClosed]]
  /\ Goto(l, "select")
  /\ UNCHANGED <<runVars, handleVars, netVars, watchVars, announced, back, held, faults>>

SelectStop(l) ==
  /\ pc[l] = "select"
  /\ sel[l].done \in stoppedGens \/ cancelled
  /\ Goto(l, "exit")
  /\ UNCHANGED <<runVars, handleVars, netVars, watchVars, announced, back, held, sel, faults>>

SelectConn(l) ==
  /\ pc[l] = "select" /\ sel[l].conn \in connSignal
  /\ Goto(l, "teardown")
  /\ back' = [back EXCEPT ![l] = "top"]
  /\ UNCHANGED <<runVars, handleVars, netVars, watchVars, announced, held, sel, faults>>

(* A closed connection closes its channel too, so the case of the channel  *)
(* asks whether it is the connection.                                      *)
SelectChan(l) ==
  /\ pc[l] = "select" /\ sel[l].chan \in chanSignal
  /\ IF sel[l].conn \in connSignal
       THEN Goto(l, "teardown") /\ back' = [back EXCEPT ![l] = "top"]
       ELSE Goto(l, "closeChannel") /\ UNCHANGED back
  /\ UNCHANGED <<runVars, handleVars, netVars, watchVars, announced, held, sel, faults>>

(* wait(): r.done is read as select starts; when it and the timer are both *)
(* ready either may be chosen.                                             *)
WaitEnter(l) ==
  /\ pc[l] = "wait"
  /\ sel' = [sel EXCEPT ![l].done = done]
  /\ Goto(l, "waiting")
  /\ UNCHANGED <<runVars, handleVars, netVars, watchVars, announced, back, held, faults>>

WaitStop(l) ==
  /\ pc[l] = "waiting"
  /\ sel[l].done \in stoppedGens \/ cancelled
  /\ Goto(l, "exit")
  /\ UNCHANGED <<runVars, handleVars, netVars, watchVars, announced, back, held, sel, faults>>

WaitTimer(l) ==
  /\ pc[l] = "waiting"
  /\ Goto(l, "top")
  /\ UNCHANGED <<runVars, handleVars, netVars, watchVars, announced, back, held, sel, faults>>

LoopStep(l) ==
  \/ LoopTop(l) \/ LoopCheck(l) \/ DialOk(l) \/ DialFails(l) \/ DialInstall(l)
  \/ OpenChannelRead(l) \/ OpenChannelOk(l) \/ OpenChannelFails(l) \/ OpenChannelInstall(l)
  \/ LoopAnnounce(l) \/ LoopCapture(l) \/ SelectStop(l) \/ SelectConn(l) \/ SelectChan(l)
  \/ WaitEnter(l) \/ WaitStop(l) \/ WaitTimer(l) \/ Teardown(l)

----------------------------------------------------------------------------
(* watchClose: the watcher wakes when its connection or channel closes,    *)
(* whoever closed it, and tells the loop unless the client is stopped.     *)

BugTells == Stopped
Tells == ~Stopped

WatchConn(c) ==
  /\ c \in connWatch /\ connState[c] = "closed"
  /\ connWatch' = connWatch \ {c}
  /\ connSignal' = IF Tells THEN connSignal \union {c} ELSE connSignal
  /\ UNCHANGED <<runVars, handleVars, netVars, chanWatch, chanSignal, announced, pc, back, held, sel, faults>>

WatchChan(h) ==
  /\ h \in chanWatch /\ chanState[h] = "closed"
  /\ chanWatch' = chanWatch \ {h}
  /\ chanSignal' = IF Tells THEN chanSignal \union {h} ELSE chanSignal
  /\ UNCHANGED <<runVars, handleVars, netVars, connWatch, connSignal, announced, pc, back, held, sel, faults>>

----------------------------------------------------------------------------
(* The environment: the broker or the network closes a connection or a     *)
(* channel, and the parent context is cancelled.                           *)

ConnBreaks(c) ==
  /\ connState[c] = "open" /\ Fault
  /\ connState' = ConnsAfterClose(c)
  /\ chanState' = ChansAfterClose(c)
  /\ UNCHANGED <<runVars, handleVars, chanConn, watchVars, announced, pc, back, held, sel>>

ChanBreaks(h) ==
  /\ chanState[h] = "open" /\ Fault
  /\ chanState' = [chanState EXCEPT ![h] = "closed"]
  /\ UNCHANGED <<runVars, handleVars, connState, chanConn, watchVars, announced, pc, back, held, sel>>

Cancel ==
  /\ ~cancelled /\ cancelled' = TRUE
  /\ UNCHANGED <<running, done, stoppedGens, handleVars, netVars, watchVars, announced, pc, back, held, sel, faults>>

Next ==
  \/ \E u \in Callers : Start(u) \/ Stop(u) \/ Teardown(u)
  \/ \E l \in Loops : LoopStep(l)
  \/ \E c \in Conns : WatchConn(c) \/ ConnBreaks(c)
  \/ \E h \in Chans : WatchChan(h) \/ ChanBreaks(h)
  \/ Cancel

Spec == Init /\ [][Next]_vars

(* Goroutines that can run do.  Start, Stop, Cancel and failures need not  *)
(* happen; a dial or an open that stopped failing succeeds.                *)
Fairness ==
  /\ \A l \in Loops : WF_vars(LoopStep(l))
  /\ \A u \in Callers : WF_vars(Teardown(u))
  /\ \A c \in Conns : WF_vars(WatchConn(c))
  /\ \A h \in Chans : WF_vars(WatchChan(h))

FairSpec == Spec /\ Fairness

----------------------------------------------------------------------------
(* What the client guarantees.                                             *)

(* Every variable has its type, and a client that runs has a done that Stop *)
(* can close: it closes neither nil nor a channel that is closed already.   *)
TypeOK ==
  /\ running \in BOOLEAN /\ cancelled \in BOOLEAN
  /\ done \in 0 .. MaxStart /\ stoppedGens \subseteq Loops
  /\ running => done \in Loops \ stoppedGens
  /\ conn \in 0 .. MaxConn /\ connClosed \in 0 .. MaxConn
  /\ channel \in 0 .. MaxChan /\ chanClosed \in 0 .. MaxChan
  /\ connState \in [Conns -> {"none", "open", "closed"}]
  /\ chanState \in [Chans -> {"none", "open", "closed"}]
  /\ chanConn \in [Chans -> 0 .. MaxConn]
  /\ connWatch \subseteq Conns /\ connSignal \subseteq Conns
  /\ chanWatch \subseteq Chans /\ chanSignal \subseteq Chans
  /\ announced \in {"nothing", "Connected", "Disconnected"}
  /\ pc \in [Procs -> {"unborn", "idle", "top", "check", "drop", "dropClose", "dial", "install",
                       "open", "opening", "declare", "announce", "capture", "select", "wait",
                       "waiting", "teardown", "tdChannel", "tdChannelClose", "tdConn",
                       "tdConnClose", "closeChannel", "ccChannel", "ccChannelClose", "exit"}]
  /\ back \in [Procs -> {"none", "idle", "wait", "top"}]
  /\ held \in [Procs -> 0 .. MaxConn + MaxChan]
  /\ sel \in [Loops -> [done : 0 .. MaxStart, conn : 0 .. MaxConn, chan : 0 .. MaxChan]]
  /\ faults \in 0 .. MaxFault

(* A goroutine is about to store or to close a handle it has in hand.      *)
HasConn(p, c) == pc[p] \in {"install", "dropClose", "tdConnClose"} /\ held[p] = c
HasChan(p, h) == pc[p] \in {"declare", "tdChannelClose", "ccChannelClose"} /\ held[p] = h

(* An open connection or channel is the client's, or in the hands of the   *)
(* goroutine that will store or close it next: no failure, Stop or restart *)
(* makes the client lose a handle it will have to close.                   *)
NothingLeaks ==
  /\ \A c \in Conns : connState[c] = "open" => conn = c \/ \E p \in Procs : HasConn(p, c)
  /\ \A h \in Chans : chanState[h] = "open" => channel = h \/ \E p \in Procs : HasChan(p, h)

(* A Stop has taken the connection and is about to close it.               *)
StopCloses(c) == \E u \in Callers : pc[u] = "tdConnClose" /\ held[u] = c

(* A channel users can still publish on is one of the current connection,  *)
(* or of one that a Stop is just closing: the loop never shows a channel   *)
(* that outlives its connection, although a teardown and the loop pass each*)
(* other between the locks.                                                *)
ChannelOnConn ==
  channel # 0 /\ chanState[channel] = "open" =>
    conn = chanConn[channel] \/ StopCloses(chanConn[channel])

(* As long as the client is started and its context alive, it is connected *)
(* again after every failure, on a connection and a channel that are open, *)
(* and its listeners have been told.                                       *)
ChannelAlive == channel # 0 /\ chanState[channel] = "open"
Reconnects ==
  []<>(~running \/ cancelled \/ (ConnAlive /\ ChannelAlive /\ announced = "Connected"))

(* Once the client is stopped or its context has ended, every loop that    *)
(* was started ends (the doc comment of Stop).                             *)
LoopsEnd ==
  \A l \in Loops : (l <= done /\ (~running \/ cancelled)) ~> pc[l] = "exit"

(* To the operations the client is a channel that comes and goes: one at a *)
(* time is shown, each once, in the order they were opened.                *)
Life == INSTANCE ChannelLife WITH shown <- chanClosed
RefinesLife == Life!LifeSpec
=============================================================================

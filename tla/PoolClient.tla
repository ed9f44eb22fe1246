----------------------------- MODULE PoolClient -----------------------------
(***************************************************************************)
(* postgres.Client (src/postgres/postgres_client.go and                    *)
(* postgres_connect.go): Start with its retries, Stop, and the operations, *)
(* which read the pool under the read lock and use it without.             *)
(*                                                                         *)
(* Pools are numbered in the order the attempts make them; 0 is nil.  An   *)
(* operation is a query whose rows are read, or a transaction: either way  *)
(* it holds one connection of its pool from Acquire to Release, and the    *)
(* application's code runs in between.  That code may use the client       *)
(* again: the inner operation of the same user.                            *)
(*                                                                         *)
(* Operators whose name starts with "Bug" are wrong on purpose: each is    *)
(* the form a plausible mistake would give to a definition after it.       *)
(***************************************************************************)
EXTENDS RWMutex, Integers, FiniteSets

CONSTANTS Callers,      \* goroutines that call Start and Stop
          Users,        \* goroutines that use the client
          Reentrant,    \* whether a user uses it while it holds a connection
          MaxConns,     \* connections of a pool
          MaxRetries,   \* the option WithMaxRetries; 0 is no limit
          MaxStart,     \* bound: calls of Start
          MaxPool,      \* bound: pools made
          Careful       \* calls of Start and Stop do not overlap, and Start is
                        \* called only when Pool() is nil

ASSUME PoolAssumption ==
  /\ MaxConns \in Nat \ {0} /\ MaxRetries \in Nat
  /\ MaxStart \in Nat /\ MaxPool \in Nat
  /\ Reentrant \in BOOLEAN /\ Careful \in BOOLEAN
  /\ NoOne \notin Callers

Ops == Users \X {"outer", "inner"}
Pools == 1 .. MaxPool

VARIABLES pool,         \* p.pool
          poolState,    \* "none", "open", "closing" or "closed"
          pc,           \* where a caller is in Start or Stop
          attempt,      \* the attempts its Start has made
          mine,         \* the pool its Start has made
          starts,       \* how often Start was called
          stopped,      \* history: the last call was Stop
          opPc,         \* where an operation is
          hand          \* the pool it read

callVars == <<pc, attempt, mine, starts, stopped>>
opVars == <<opPc, hand>>
vars == <<lockVars, pool, poolState, callVars, opVars>>

Init ==
  /\ LockInit
  /\ pool = 0 /\ poolState = [c \in Pools |-> "none"]
  /\ pc = [x \in Callers |-> "idle"]
  /\ attempt = [x \in Callers |-> 0]
  /\ mine = [x \in Callers |-> 0]
  /\ starts = 0 /\ stopped = FALSE
  /\ opPc = [o \in Ops |-> "idle"]
  /\ hand = [o \in Ops |-> 0]

Goto(x, label) == pc' = [pc EXCEPT ![x] = label]
OpGoto(o, label) == opPc' = [opPc EXCEPT ![o] = label]
Overlaps == \E x \in Callers : pc[x] # "idle"
InUse(c) == {o \in Ops : opPc[o] = "use" /\ hand[o] = c}

----------------------------------------------------------------------------
(* Start: attempts, each a new pool that is pinged, with waits in between. *)
(* The library gives up while it waits or before, when the time is over or *)
(* the context is done, and one failed attempt is the last one.  A Start   *)
(* that is given a bad URL ends before its first attempt and changes       *)
(* nothing.                                                                *)

StartCall(x) ==
  /\ pc[x] = "idle" /\ starts < MaxStart
  /\ Careful => ~Overlaps /\ pool = 0
  /\ starts' = starts + 1 /\ stopped' = FALSE
  /\ attempt' = [attempt EXCEPT ![x] = 0]
  /\ Goto(x, "attempt")
  /\ UNCHANGED <<lockVars, pool, poolState, mine, opVars>>

Attempt(x) ==
  /\ pc[x] = "attempt"
  /\ \E c \in Pools :
       /\ {k \in Pools : poolState[k] = "none"} = c .. MaxPool
       /\ poolState' = [poolState EXCEPT ![c] = "open"]
       /\ mine' = [mine EXCEPT ![x] = c]
  /\ attempt' = [attempt EXCEPT ![x] = @ + 1]
  /\ Goto(x, "ping")
  /\ UNCHANGED <<lockVars, pool, starts, stopped, opVars>>

PingOk(x) ==
  /\ pc[x] = "ping"
  /\ Goto(x, "set")
  /\ UNCHANGED <<lockVars, pool, poolState, attempt, mine, starts, stopped, opVars>>

BugEnough(x) == MaxRetries > 0 /\ attempt[x] > MaxRetries
Enough(x) == MaxRetries > 0 /\ attempt[x] >= MaxRetries

BugDiscard(x) == UNCHANGED poolState
Discard(x) == poolState' = [poolState EXCEPT ![mine[x]] = "closed"]

PingFails(x) ==
  /\ pc[x] = "ping"
  /\ Discard(x)
  /\ Goto(x, IF Enough(x) THEN "idle" ELSE "wait")
  /\ UNCHANGED <<lockVars, pool, attempt, mine, starts, stopped, opVars>>

Retry(x) ==
  /\ pc[x] = "wait"
  /\ Goto(x, "attempt")
  /\ UNCHANGED <<lockVars, pool, poolState, attempt, mine, starts, stopped, opVars>>

GiveUp(x) ==
  /\ pc[x] = "wait"
  /\ Goto(x, "idle")
  /\ UNCHANGED <<lockVars, pool, poolState, attempt, mine, starts, stopped, opVars>>

SetLock(x) ==
  /\ pc[x] = "set"
  /\ Announce(x)
  /\ Goto(x, "setting")
  /\ UNCHANGED <<pool, poolState, attempt, mine, starts, stopped, opVars>>

SetPool(x) ==
  /\ pc[x] = "setting" /\ Holds(x)
  /\ pool' = mine[x]
  /\ Unlock
  /\ Goto(x, "idle")
  /\ UNCHANGED <<poolState, attempt, mine, starts, stopped, opVars>>

----------------------------------------------------------------------------
(* Stop: the lock is held while the pool closes, and closing waits for the *)
(* connections that are in use.                                            *)

StopCall(x) ==
  /\ pc[x] = "idle"
  /\ Careful => ~Overlaps
  /\ stopped' = TRUE
  /\ Goto(x, "stop")
  /\ UNCHANGED <<lockVars, pool, poolState, attempt, mine, starts, opVars>>

StopLock(x) ==
  /\ pc[x] = "stop"
  /\ Announce(x)
  /\ Goto(x, "stopping")
  /\ UNCHANGED <<pool, poolState, attempt, mine, starts, stopped, opVars>>

BugStopNil(x) ==
  /\ pc[x] = "stopping" /\ Holds(x) /\ pool = 0
  /\ Goto(x, "idle")
  /\ UNCHANGED <<lockVars, pool, poolState, attempt, mine, starts, stopped, opVars>>

StopNil(x) ==
  /\ pc[x] = "stopping" /\ Holds(x) /\ pool = 0
  /\ Unlock
  /\ Goto(x, "idle")
  /\ UNCHANGED <<pool, poolState, attempt, mine, starts, stopped, opVars>>

StopClose(x) ==
  /\ pc[x] = "stopping" /\ Holds(x) /\ pool # 0
  /\ poolState' = [poolState EXCEPT ![pool] = "closing"]
  /\ Goto(x, "closing")
  /\ UNCHANGED <<lockVars, pool, attempt, mine, starts, stopped, opVars>>

BugClear == UNCHANGED pool
Clear == pool' = 0

StopEnd(x) ==
  /\ pc[x] = "closing" /\ InUse(pool) = {}
  /\ poolState' = [poolState EXCEPT ![pool] = "closed"]
  /\ Clear
  /\ Unlock
  /\ Goto(x, "idle")
  /\ UNCHANGED <<attempt, mine, starts, stopped, opVars>>

----------------------------------------------------------------------------
(* An operation: the pool is read under the read lock; nil is an error.    *)

OpCall(o) ==
  /\ opPc[o] = "idle" /\ opPc[<<o[1], "inner">>] = "idle"
  /\ o[2] = "inner" => Reentrant /\ opPc[<<o[1], "outer">>] = "use"
  /\ RLock(o)
  /\ OpGoto(o, "rlock")
  /\ UNCHANGED <<pool, poolState, callVars, hand>>

BugOpUnlock(o) == IF pool = 0 THEN UNCHANGED lockVars ELSE RUnlock(o)
OpUnlock(o) == RUnlock(o)

Disconnected == pool = 0

OpRead(o) ==
  /\ opPc[o] = "rlock" /\ o \in readers
  /\ hand' = [hand EXCEPT ![o] = pool]
  /\ OpUnlock(o)
  /\ OpGoto(o, IF Disconnected THEN "idle" ELSE "acquire")
  /\ UNCHANGED <<pool, poolState, callVars>>

(* The pool hands out its connections while it is open.                    *)
Acquire(o) ==
  /\ opPc[o] = "acquire" /\ Cardinality(InUse(hand[o])) < MaxConns
  /\ OpGoto(o, IF poolState[hand[o]] = "open" THEN "use" ELSE "idle")
  /\ UNCHANGED <<lockVars, pool, poolState, callVars, hand>>

(* The caller's context ends, or the database fails.                       *)
AcquireFails(o) ==
  /\ opPc[o] = "acquire"
  /\ OpGoto(o, "idle")
  /\ UNCHANGED <<lockVars, pool, poolState, callVars, hand>>

(* Rows are closed, a transaction commits or is rolled back: the deferred  *)
(* Rollback gives the connection back however fn ends.                     *)
Release(o) ==
  /\ opPc[o] = "use" /\ (o[2] = "inner" \/ opPc[<<o[1], "inner">>] = "idle")
  /\ OpGoto(o, "idle")
  /\ UNCHANGED <<lockVars, pool, poolState, callVars, hand>>

----------------------------------------------------------------------------
StartStep(x) ==
  \/ Attempt(x) \/ PingOk(x) \/ PingFails(x) \/ Retry(x) \/ GiveUp(x)
  \/ SetLock(x) \/ SetPool(x)

StopStep(x) == StopLock(x) \/ StopNil(x) \/ StopClose(x) \/ StopEnd(x)

OpStep(o) == OpRead(o) \/ Release(o)

Next ==
  \/ \E x \in Callers : StartCall(x) \/ StopCall(x) \/ StartStep(x) \/ StopStep(x)
  \/ \E o \in Ops : OpCall(o) \/ OpStep(o) \/ Acquire(o) \/ AcquireFails(o)

Spec == Init /\ [][Next]_vars

(* Goroutines that can run do; the application's code ends.  The pool hands*)
(* connections out in the order they were asked for, so nobody is passed   *)
(* over for ever.  Nobody has to call anything.                            *)
Fairness ==
  /\ \A x \in Callers : WF_vars(StartStep(x) \/ StopStep(x))
  /\ \A o \in Ops : WF_vars(OpStep(o)) /\ SF_vars(Acquire(o))

FairSpec == Spec /\ Fairness

----------------------------------------------------------------------------
(* What the client guarantees.                                             *)

(* Every variable has its type; whoever is to use a pool has one; a Start  *)
(* makes at most as many attempts as WithMaxRetries allows.                *)
TypeOK ==
  /\ readers \subseteq Ops /\ blocked \subseteq Ops
  /\ writer \in Callers \union {NoOne}
  /\ pool \in 0 .. MaxPool
  /\ poolState \in [Pools -> {"none", "open", "closing", "closed"}]
  /\ pc \in [Callers -> {"idle", "attempt", "ping", "wait", "set", "setting",
                         "stop", "stopping", "closing"}]
  /\ attempt \in [Callers -> Nat]
  /\ MaxRetries > 0 => \A x \in Callers : attempt[x] <= MaxRetries
  /\ mine \in [Callers -> 0 .. MaxPool]
  /\ \A x \in Callers : pc[x] \in {"ping", "set", "setting"} => mine[x] \in Pools
  /\ \A x \in Callers : pc[x] = "closing" => pool \in Pools
  /\ starts \in 0 .. MaxStart /\ stopped \in BOOLEAN
  /\ opPc \in [Ops -> {"idle", "rlock", "acquire", "use"}]
  /\ hand \in [Ops -> 0 .. MaxPool]
  /\ \A o \in Ops : opPc[o] \in {"acquire", "use"} => hand[o] \in Pools

(* Who reads the client's pool never gets one that closes or is closed:    *)
(* Stop shuts it and takes it away in one critical section.                *)
PoolIsLive ==
  writer = NoOne \/ readers # {} => pool = 0 \/ poolState[pool] = "open"

(* An open pool is the client's, or that of a Start which will store it or *)
(* close it: no retry and no restart leaves one behind.                    *)
NoLostPool ==
  \A c \in Pools : poolState[c] = "open" =>
    pool = c \/ \E x \in Callers : pc[x] \in {"ping", "set", "setting"} /\ mine[x] = c

(* After Stop, and no later Start, there is no pool and no connection of   *)
(* one is in use ("Stop closes the underlying connection and clears the    *)
(* handle").                                                               *)
StoppedHasNoPool ==
  stopped /\ ~Overlaps =>
    /\ pool = 0
    /\ \A c \in Pools : poolState[c] # "open" /\ InUse(c) = {}

(* Stop comes back, although it waits with the lock held.                  *)
StopReturns == \A x \in Callers : pc[x] = "stop" ~> pc[x] = "idle"

(* Start and Stop come back, and so does every operation, also when a Stop *)
(* keeps it from the lock or from its pool.                                *)
CallsReturn ==
  /\ StopReturns
  /\ \A x \in Callers : pc[x] = "attempt" ~> pc[x] = "idle"
  /\ \A o \in Ops : opPc[o] = "rlock" ~> opPc[o] = "idle"
=============================================================================

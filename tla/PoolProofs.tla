----------------------------- MODULE PoolProofs -----------------------------
(***************************************************************************)
(* Theorems about PoolClient, for any sets of callers and users, any number*)
(* of calls, retries, pools and connections.  The inductive invariant is   *)
(* IInv.  What only holds if calls of Start and Stop do not overlap has    *)
(* Careful as its hypothesis.                                              *)
(***************************************************************************)
EXTENDS PoolClient, TLAPS

(* A pool in the hands of the Start that made it, which nobody else uses.  *)
Holding(x) == pc[x] \in {"ping", "set", "setting"}

(* Who waits for the readers or is through holds the lock alone.           *)
LockInv ==
  \A x \in Callers :
    /\ pc[x] \in {"setting", "stopping", "closing"} <=> writer = x
    /\ pc[x] = "closing" => readers = {}

(* The client's pool is open unless a Stop closes it; a Start's is open    *)
(* and its own.                                                            *)
HandleInv ==
  /\ \A x \in Callers : Holding(x) => poolState[mine[x]] = "open" /\ mine[x] # pool
  /\ \A x, y \in Callers : Holding(x) /\ Holding(y) /\ mine[x] = mine[y] => x = y
  /\ pool # 0 => poolState[pool] =
       IF \E x \in Callers : pc[x] = "closing" THEN "closing" ELSE "open"
  /\ \A c \in Pools : poolState[c] = "closing" => c = pool

(* An operation has a pool that was the client's, and one it has a         *)
(* connection of is not closed.                                            *)
OpInv ==
  \A o \in Ops :
    /\ opPc[o] \in {"acquire", "use"} =>
         /\ poolState[hand[o]] # "none"
         /\ \A x \in Callers : Holding(x) => mine[x] # hand[o]
    /\ opPc[o] = "use" => poolState[hand[o]] \in {"open", "closing"}

(* A Start that tries again has attempts left.                             *)
AttemptInv ==
  MaxRetries > 0 =>
    \A x \in Callers : pc[x] \in {"attempt", "wait"} => attempt[x] < MaxRetries

(* One call at a time: a Start finds no pool, a Stop leaves none, and no   *)
(* open pool is overwritten.                                               *)
OneCall ==
  /\ \A x, y \in Callers : pc[x] # "idle" /\ pc[y] # "idle" => x = y
  /\ \A x \in Callers :
       pc[x] \in {"attempt", "ping", "wait", "set", "setting"} => pool = 0 /\ ~stopped
  /\ stopped /\ ~Overlaps => pool = 0
  /\ NoLostPool

CarefulInv == Careful => OneCall

IInv == TypeOK /\ LockInv /\ HandleInv /\ OpInv /\ AttemptInv /\ CarefulInv

(* The initial states satisfy the inductive invariant.                     *)
LEMMA InitIInv == Init => IInv
<1> SUFFICES ASSUME Init PROVE IInv
  OBVIOUS
<1> USE PoolAssumption DEF Init, LockInit, Pools, Ops
<1>1. TypeOK
  <2>1. pool \in 0 .. MaxPool /\ starts \in 0 .. MaxStart
    OBVIOUS
  <2>2. attempt \in [Callers -> Nat] /\ mine \in [Callers -> 0 .. MaxPool]
    OBVIOUS
  <2>3. hand \in [Ops -> 0 .. MaxPool]
    OBVIOUS
  <2>4. MaxRetries > 0 => \A x \in Callers : attempt[x] <= MaxRetries
    OBVIOUS
  <2> QED BY <2>1, <2>2, <2>3, <2>4 DEF TypeOK
<1>2. LockInv /\ HandleInv /\ OpInv /\ AttemptInv
  BY DEF LockInv, HandleInv, OpInv, AttemptInv, Holding
<1>3. CarefulInv
  BY DEF CarefulInv, OneCall, NoLostPool
<1> QED BY <1>1, <1>2, <1>3 DEF IInv

----------------------------------------------------------------------------
(* A step of Start or Stop.                                                *)
LEMMA CallerStep ==
  ASSUME IInv, NEW x \in Callers, StartCall(x) \/ StopCall(x) \/ StartStep(x) \/ StopStep(x)
  PROVE  IInv'
<1> USE PoolAssumption DEF IInv, TypeOK, Goto, lockVars, callVars, opVars, Pools, Holding
<1>1. CASE StartCall(x)
  <2> USE <1>1 DEF StartCall
  <2>0. /\ starts' \in 0 .. MaxStart /\ attempt' \in [Callers -> Nat]
        /\ MaxRetries > 0 => \A y \in Callers : attempt'[y] <= MaxRetries
    OBVIOUS
  <2>1. TypeOK'
    BY <2>0
  <2>2. LockInv'
    BY DEF LockInv
  <2>3. HandleInv'
    BY DEF HandleInv, LockInv
  <2>4. OpInv'
    BY DEF OpInv, HandleInv
  <2>5. AttemptInv'
    BY DEF AttemptInv
  <2>6. CarefulInv'
    BY DEF CarefulInv, OneCall, NoLostPool, HandleInv, Overlaps
  <2> QED BY <2>1, <2>2, <2>3, <2>4, <2>5, <2>6
<1>2. CASE Attempt(x)
  <2> USE <1>2 DEF Attempt
  <2>a. PICK c \in Pools : /\ {k \in Pools : poolState[k] = "none"} = c .. MaxPool
                           /\ poolState' = [poolState EXCEPT ![c] = "open"]
                           /\ mine' = [mine EXCEPT ![x] = c]
    OBVIOUS
  <2>b. c \in c .. MaxPool
    BY DEF Pools
  <2>0. poolState[c] = "none"
    BY <2>a, <2>b
  <2>1. TypeOK'
    BY DEF LockInv, AttemptInv
  <2>2. LockInv'
    BY DEF LockInv
  <2>3. HandleInv'
    BY <2>0, <2>a DEF HandleInv, LockInv
  <2>4. OpInv'
    BY DEF OpInv, HandleInv
  <2>5. AttemptInv'
    BY DEF AttemptInv
  <2>6. CarefulInv'
    <3> SUFFICES ASSUME Careful PROVE OneCall'
      BY DEF CarefulInv
    <3>1. OneCall
      BY DEF CarefulInv
    <3>2. \A y, z \in Callers : pc'[y] # "idle" /\ pc'[z] # "idle" => y = z
      BY <3>1 DEF OneCall, Overlaps
    <3>3. /\ \A y \in Callers :
               pc'[y] \in {"attempt", "ping", "wait", "set", "setting"} => pool' = 0 /\ ~stopped'
          /\ stopped' /\ ~Overlaps' => pool' = 0
      BY <3>1, <3>2 DEF OneCall, Overlaps
    <3>4. NoLostPool'
      <4> SUFFICES ASSUME NEW d \in Pools, poolState'[d] = "open"
                   PROVE  pool' = d \/ \E y \in Callers : Holding(y)' /\ mine'[y] = d
        BY DEF NoLostPool
      <4>1. CASE d = c
        BY <2>a, <4>1
      <4>2. CASE d # c
        <5>1. pool = d \/ \E y \in Callers : Holding(y) /\ mine[y] = d
          BY <2>a, <4>2, <3>1 DEF OneCall, NoLostPool
        <5> QED BY <2>a, <5>1
      <4> QED BY <4>1, <4>2
    <3> QED BY <3>2, <3>3, <3>4 DEF OneCall
  <2> QED BY <2>1, <2>2, <2>3, <2>4, <2>5, <2>6
<1>3. CASE PingOk(x)
  <2> USE <1>3 DEF PingOk
  <2>1. TypeOK'
    BY DEF LockInv, AttemptInv
  <2>2. LockInv'
    BY DEF LockInv
  <2>3. HandleInv'
    BY DEF HandleInv, LockInv
  <2>4. OpInv'
    BY DEF OpInv, HandleInv
  <2>5. AttemptInv'
    BY DEF AttemptInv
  <2>6. CarefulInv'
    BY DEF CarefulInv, OneCall, NoLostPool, HandleInv, Overlaps
  <2> QED BY <2>1, <2>2, <2>3, <2>4, <2>5, <2>6
<1>4. CASE PingFails(x)
  <2> USE <1>4 DEF PingFails, Discard, Enough
  <2>1. TypeOK'
    BY DEF LockInv, AttemptInv
  <2>2. LockInv'
    BY DEF LockInv
  <2>3. HandleInv'
    BY DEF HandleInv, LockInv
  <2>4. OpInv'
    BY DEF OpInv, HandleInv
  <2>5. AttemptInv'
    BY DEF AttemptInv
  <2>6. CarefulInv'
    BY DEF CarefulInv, OneCall, NoLostPool, HandleInv, Overlaps
  <2> QED BY <2>1, <2>2, <2>3, <2>4, <2>5, <2>6
<1>5. CASE Retry(x)
  <2> USE <1>5 DEF Retry
  <2>1. TypeOK'
    BY DEF LockInv, AttemptInv
  <2>2. LockInv'
    BY DEF LockInv
  <2>3. HandleInv'
    BY DEF HandleInv, LockInv
  <2>4. OpInv'
    BY DEF OpInv, HandleInv
  <2>5. AttemptInv'
    BY DEF AttemptInv
  <2>6. CarefulInv'
    <3> SUFFICES ASSUME Careful PROVE OneCall'
      BY DEF CarefulInv
    <3>1. OneCall
      BY DEF CarefulInv
    <3>2. \A y, z \in Callers : pc'[y] # "idle" /\ pc'[z] # "idle" => y = z
      BY <3>1 DEF OneCall, Overlaps
    <3>3. /\ \A y \in Callers :
               pc'[y] \in {"attempt", "ping", "wait", "set", "setting"} => pool' = 0 /\ ~stopped'
          /\ stopped' /\ ~Overlaps' => pool' = 0
      BY <3>1, <3>2 DEF OneCall, Overlaps
    <3>4. NoLostPool'
      BY <3>1 DEF OneCall, NoLostPool, HandleInv
    <3> QED BY <3>2, <3>3, <3>4 DEF OneCall
  <2> QED BY <2>1, <2>2, <2>3, <2>4, <2>5, <2>6
<1>6. CASE GiveUp(x)
  <2> USE <1>6 DEF GiveUp
  <2>1. TypeOK'
    BY DEF LockInv, AttemptInv
  <2>2. LockInv'
    BY DEF LockInv
  <2>3. HandleInv'
    BY DEF HandleInv, LockInv
  <2>4. OpInv'
    BY DEF OpInv, HandleInv
  <2>5. AttemptInv'
    BY DEF AttemptInv
  <2>6. CarefulInv'
    <3> SUFFICES ASSUME Careful PROVE OneCall'
      BY DEF CarefulInv
    <3>1. OneCall
      BY DEF CarefulInv
    <3>2. \A y, z \in Callers : pc'[y] # "idle" /\ pc'[z] # "idle" => y = z
      BY <3>1 DEF OneCall, Overlaps
    <3>3. /\ \A y \in Callers :
               pc'[y] \in {"attempt", "ping", "wait", "set", "setting"} => pool' = 0 /\ ~stopped'
          /\ stopped' /\ ~Overlaps' => pool' = 0
      BY <3>1, <3>2 DEF OneCall, Overlaps
    <3>4. NoLostPool'
      BY <3>1 DEF OneCall, NoLostPool, HandleInv
    <3> QED BY <3>2, <3>3, <3>4 DEF OneCall
  <2> QED BY <2>1, <2>2, <2>3, <2>4, <2>5, <2>6
<1>7. CASE SetLock(x)
  <2> USE <1>7 DEF SetLock, Announce
  <2>1. TypeOK'
    BY DEF LockInv, AttemptInv
  <2>2. LockInv'
    BY DEF LockInv
  <2>3. HandleInv'
    BY DEF HandleInv, LockInv
  <2>4. OpInv'
    BY DEF OpInv, HandleInv
  <2>5. AttemptInv'
    BY DEF AttemptInv
  <2>6. CarefulInv'
    BY DEF CarefulInv, OneCall, NoLostPool, HandleInv, Overlaps
  <2> QED BY <2>1, <2>2, <2>3, <2>4, <2>5, <2>6
<1>8. CASE SetPool(x)
  <2> USE <1>8 DEF SetPool, Holds, Unlock
  <2>1. TypeOK'
    BY DEF LockInv, AttemptInv
  <2>2. LockInv'
    BY DEF LockInv
  <2>3. HandleInv'
    BY DEF HandleInv, LockInv
  <2>4. OpInv'
    BY DEF OpInv, HandleInv
  <2>5. AttemptInv'
    BY DEF AttemptInv
  <2>6. CarefulInv'
    <3> SUFFICES ASSUME Careful PROVE OneCall'
      BY DEF CarefulInv
    <3>1. OneCall
      BY DEF CarefulInv
    <3>2. \A y, z \in Callers : pc'[y] # "idle" /\ pc'[z] # "idle" => y = z
      BY <3>1 DEF OneCall, Overlaps
    <3>3. /\ \A y \in Callers :
               pc'[y] \in {"attempt", "ping", "wait", "set", "setting"} => pool' = 0 /\ ~stopped'
          /\ stopped' /\ ~Overlaps' => pool' = 0
      BY <3>1, <3>2 DEF OneCall, Overlaps
    <3>4. NoLostPool'
      BY <3>1 DEF OneCall, NoLostPool, HandleInv
    <3> QED BY <3>2, <3>3, <3>4 DEF OneCall
  <2> QED BY <2>1, <2>2, <2>3, <2>4, <2>5, <2>6
<1>9. CASE StopCall(x)
  <2> USE <1>9 DEF StopCall
  <2>1. TypeOK'
    BY DEF LockInv, AttemptInv
  <2>2. LockInv'
    BY DEF LockInv
  <2>3. HandleInv'
    BY DEF HandleInv, LockInv
  <2>4. OpInv'
    BY DEF OpInv, HandleInv
  <2>5. AttemptInv'
    BY DEF AttemptInv
  <2>6. CarefulInv'
    <3> SUFFICES ASSUME Careful PROVE OneCall'
      BY DEF CarefulInv
    <3>1. OneCall
      BY DEF CarefulInv
    <3>2. \A y, z \in Callers : pc'[y] # "idle" /\ pc'[z] # "idle" => y = z
      BY <3>1 DEF OneCall, Overlaps
    <3>3. /\ \A y \in Callers :
               pc'[y] \in {"attempt", "ping", "wait", "set", "setting"} => pool' = 0 /\ ~stopped'
          /\ stopped' /\ ~Overlaps' => pool' = 0
      BY <3>1, <3>2 DEF OneCall, Overlaps
    <3>4. NoLostPool'
      BY <3>1 DEF OneCall, NoLostPool, HandleInv
    <3> QED BY <3>2, <3>3, <3>4 DEF OneCall
  <2> QED BY <2>1, <2>2, <2>3, <2>4, <2>5, <2>6
<1>10. CASE StopLock(x)
  <2> USE <1>10 DEF StopLock, Announce
  <2>1. TypeOK'
    BY DEF LockInv, AttemptInv
  <2>2. LockInv'
    BY DEF LockInv
  <2>3. HandleInv'
    BY DEF HandleInv, LockInv
  <2>4. OpInv'
    BY DEF OpInv, HandleInv
  <2>5. AttemptInv'
    BY DEF AttemptInv
  <2>6. CarefulInv'
    BY DEF CarefulInv, OneCall, NoLostPool, HandleInv, Overlaps
  <2> QED BY <2>1, <2>2, <2>3, <2>4, <2>5, <2>6
<1>11. CASE StopNil(x)
  <2> USE <1>11 DEF StopNil, Holds, Unlock
  <2>1. TypeOK'
    BY DEF LockInv, AttemptInv
  <2>2. LockInv'
    BY DEF LockInv
  <2>3. HandleInv'
    BY DEF HandleInv, LockInv
  <2>4. OpInv'
    BY DEF OpInv, HandleInv
  <2>5. AttemptInv'
    BY DEF AttemptInv
  <2>6. CarefulInv'
    BY DEF CarefulInv, OneCall, NoLostPool, HandleInv, Overlaps
  <2> QED BY <2>1, <2>2, <2>3, <2>4, <2>5, <2>6
<1>12. CASE StopClose(x)
  <2> USE <1>12 DEF StopClose, Holds
  <2>1. TypeOK'
    BY DEF LockInv, AttemptInv
  <2>2. LockInv'
    BY DEF LockInv
  <2>3. HandleInv'
    BY DEF HandleInv, LockInv
  <2>4. OpInv'
    BY DEF OpInv, HandleInv
  <2>5. AttemptInv'
    BY DEF AttemptInv
  <2>6. CarefulInv'
    BY DEF CarefulInv, OneCall, NoLostPool, HandleInv, Overlaps
  <2> QED BY <2>1, <2>2, <2>3, <2>4, <2>5, <2>6
<1>13. CASE StopEnd(x)
  <2> USE <1>13 DEF StopEnd, Clear, Unlock, InUse
  <2>1. TypeOK'
    BY DEF LockInv, AttemptInv
  <2>2. LockInv'
    BY DEF LockInv
  <2>3. HandleInv'
    BY DEF HandleInv, LockInv
  <2>4. OpInv'
    BY DEF OpInv, HandleInv
  <2>5. AttemptInv'
    BY DEF AttemptInv
  <2>6. CarefulInv'
    BY DEF CarefulInv, OneCall, NoLostPool, HandleInv, Overlaps
  <2> QED BY <2>1, <2>2, <2>3, <2>4, <2>5, <2>6
<1> QED BY <1>1, <1>2, <1>3, <1>4, <1>5, <1>6, <1>7, <1>8, <1>9, <1>10, <1>11, <1>12, <1>13 DEF StartStep, StopStep

(* A step of an operation: the client and its pools stay as they are.       *)
LEMMA OperationStep ==
  ASSUME IInv, NEW o \in Ops, OpCall(o) \/ OpStep(o) \/ Acquire(o) \/ AcquireFails(o)
  PROVE  IInv'
<1> USE PoolAssumption DEF IInv, TypeOK, OpGoto, callVars, lockVars, Pools, Holding
<1>0. ASSUME UNCHANGED <<pool, poolState, callVars>>
      PROVE  HandleInv' /\ AttemptInv' /\ CarefulInv'
  BY <1>0 DEF HandleInv, AttemptInv, CarefulInv, OneCall, NoLostPool, Overlaps
<1>1. CASE OpCall(o)
  <2> USE <1>1 DEF OpCall, RLock
  <2>1. TypeOK'
    OBVIOUS
  <2>2. LockInv'
    BY DEF LockInv
  <2>3. OpInv'
    BY DEF OpInv, HandleInv, LockInv
  <2> QED BY <1>0, <2>1, <2>2, <2>3
<1>2. CASE OpRead(o)
  <2> USE <1>2 DEF OpRead, OpUnlock, RUnlock, Disconnected
  <2>1. TypeOK'
    OBVIOUS
  <2>2. LockInv'
    BY DEF LockInv
  <2>3. OpInv'
    BY DEF OpInv, HandleInv, LockInv
  <2> QED BY <1>0, <2>1, <2>2, <2>3
<1>3. CASE Acquire(o)
  <2> USE <1>3 DEF Acquire
  <2>1. TypeOK'
    OBVIOUS
  <2>2. LockInv'
    BY DEF LockInv
  <2>3. OpInv'
    BY DEF OpInv, HandleInv, LockInv
  <2> QED BY <1>0, <2>1, <2>2, <2>3
<1>4. CASE AcquireFails(o)
  <2> USE <1>4 DEF AcquireFails
  <2>1. TypeOK'
    OBVIOUS
  <2>2. LockInv'
    BY DEF LockInv
  <2>3. OpInv'
    BY DEF OpInv, HandleInv, LockInv
  <2> QED BY <1>0, <2>1, <2>2, <2>3
<1>5. CASE Release(o)
  <2> USE <1>5 DEF Release
  <2>1. TypeOK'
    OBVIOUS
  <2>2. LockInv'
    BY DEF LockInv
  <2>3. OpInv'
    BY DEF OpInv, HandleInv, LockInv
  <2> QED BY <1>0, <2>1, <2>2, <2>3
<1> QED BY <1>1, <1>2, <1>3, <1>4, <1>5 DEF OpStep

(* IInv is inductive.                                                      *)
LEMMA IInvStep == IInv /\ [Next]_vars => IInv'
<1>1. ASSUME IInv, UNCHANGED vars PROVE IInv'
  BY <1>1 DEF vars, lockVars, callVars, opVars, IInv, TypeOK, LockInv, HandleInv, Holding, OpInv,
     AttemptInv, CarefulInv, OneCall, NoLostPool, Overlaps
<1> QED BY <1>1, CallerStep, OperationStep DEF Next

(* IInv holds of every reachable state.                                    *)
THEOREM Invariance == Spec => []IInv
<1> QED BY InitIInv, IInvStep, PTL DEF Spec

(* Every variable keeps its type, whoever is to use a pool has one, and no *)
(* Start makes more attempts than WithMaxRetries allows.                   *)
THEOREM TypeCorrect == Spec => []TypeOK
<1>1. IInv => TypeOK
  BY DEF IInv
<1> QED BY <1>1, Invariance, PTL

(* Nobody who gets the read lock finds a pool that closes or is closed,    *)
(* also when any number of calls of Start and Stop overlap.                *)
THEOREM PoolReadIsLive == Spec => []PoolIsLive
<1>1. IInv => PoolIsLive
  BY PoolAssumption DEF IInv, TypeOK, LockInv, HandleInv, PoolIsLive
<1> QED BY <1>1, Invariance, PTL

(* No retry, failure or restart leaves an open pool behind that no one     *)
(* will close, if calls of Start and Stop do not overlap.                  *)
THEOREM NoPoolIsLost ==
  ASSUME Careful
  PROVE  Spec => []NoLostPool
<1>1. IInv => NoLostPool
  BY DEF IInv, CarefulInv, OneCall
<1> QED BY <1>1, Invariance, PTL

(* After Stop no pool is open and no connection in use, if calls of Start  *)
(* and Stop do not overlap: Stop has waited for those that were.           *)
THEOREM StopLeavesNothing ==
  ASSUME Careful
  PROVE  Spec => []StoppedHasNoPool
<1>1. IInv => StoppedHasNoPool
  <2> SUFFICES ASSUME IInv, stopped, ~Overlaps
               PROVE  pool = 0 /\ \A c \in Pools : poolState[c] # "open" /\ InUse(c) = {}
    BY DEF StoppedHasNoPool
  <2>1. pool = 0 /\ NoLostPool
    BY DEF IInv, CarefulInv, OneCall
  <2>2. \A x \in Callers : pc[x] = "idle"
    BY DEF Overlaps
  <2>3. \A c \in Pools : poolState[c] \notin {"open", "closing"}
    BY <2>1, <2>2, PoolAssumption DEF IInv, HandleInv, NoLostPool, Pools
  <2> QED BY <2>1, <2>3 DEF InUse, IInv, OpInv, TypeOK
<1> QED BY <1>1, Invariance, PTL
=============================================================================

----------------------------- MODULE NatsProofs -----------------------------
(***************************************************************************)
(* Theorems about NatsClient, for any sets of callers, users and subjects, *)
(* and any number of Starts and subscriptions.  The inductive invariant is *)
(* IInv.  What only holds if calls of Start and Stop do not overlap has    *)
(* Careful as its hypothesis; Patient, that a Start comes after the        *)
(* watchers of the earlier ones.                                           *)
(***************************************************************************)
EXTENDS NatsClient, TLAPS

(* A caller in Start, with a connection to make or to store.               *)
Starting(x) == pc[x] \in {"connect", "store", "fail"}

(* The g-th connection was never the client's, so nobody can have it.      *)
Unseen(g) ==
  /\ nc # g /\ pc[g] = "unborn"
  /\ \A i \in SubIds : subConn[i] # g
  /\ \A u \in Users : userPc[u] = "subscribe" => hand[u] # g
  /\ \A x \in Stoppers : pc[x] = "drain" => mine[x] # g

(* Callers start, stop and drain; watchers watch and drain.  The number of *)
(* a Start is taken, and only those are closed.                            *)
PlaceInv ==
  /\ \A x \in Callers : pc[x] \in {"idle", "connect", "store", "fail", "drain"}
  /\ \A g \in Gens : pc[g] \in {"unborn", "born", "watch", "exit", "drain"}
  /\ \A x \in Callers : Starting(x) => mine[x] \in Gens /\ mine[x] <= done
  /\ running => done \in Gens
  /\ \A g \in doneClosed : g <= done

(* The connection of a Start is its own, and nobody's, until it is stored. *)
FreshInv ==
  /\ \A x \in Callers : Starting(x) => Unseen(mine[x])
  /\ \A x, y \in Callers : Starting(x) /\ Starting(y) /\ mine[x] = mine[y] => x = y
  /\ \A g \in Gens : g > done => Unseen(g)
  /\ \A x \in Callers : pc[x] = "store" => connState[mine[x]] = "open"

(* The client's connection is open, and nobody drains it.                  *)
ConnInv ==
  /\ nc # 0 => connState[nc] = "open"
  /\ \A x \in Stoppers : pc[x] = "drain" => mine[x] # nc

Has(u) == userPc[u] \in {"enter", "release"}

(* A subscription is in the table, under its subject, or in the hands of   *)
(* one user, never both; one that is to be entered has not ended before    *)
(* its connection was taken away.                                          *)
TableInv ==
  /\ \A i \in SubIds : subState[i] # "none" => subConn[i] \in Gens
  /\ \A j \in Subjects : subs[j] # 0 =>
       /\ subState[subs[j]] # "none" /\ subSubject[subs[j]] = j
       /\ \A u \in Users : Has(u) => hand[u] # subs[j]
  /\ \A u \in Users : Has(u) => subState[hand[u]] # "none"
  /\ \A u \in Users : userPc[u] = "enter" =>
       /\ subSubject[hand[u]] = subject[u]
       /\ subConn[hand[u]] = nc => subState[hand[u]] = "live"
  /\ \A u, v \in Users : Has(u) /\ Has(v) /\ hand[u] = hand[v] => u = v

HandlerInv == TableInv /\ NoLostHandler /\ EntryIsLive

(* One call at a time: a Start finds no connection and overwrites none.    *)
ConnectionKept ==
  \A c \in Gens : connState[c] = "open" =>
    nc = c \/ \E x \in Stoppers : pc[x] \in {"store", "drain"} /\ mine[x] = c
OneCall ==
  /\ \A x, y \in Callers : pc[x] # "idle" /\ pc[y] # "idle" => x = y
  /\ \A x \in Callers : Starting(x) => nc = 0
  /\ ConnectionKept

CarefulInv == Careful => OneCall

(* No watcher meets a Start: it has the client, which is running, and its  *)
(* done channel is open, to itself.                                        *)
OneOwner ==
  /\ \A x \in Callers : Starting(x) =>
       running /\ \A g \in Gens : pc[g] \in {"unborn", "exit"}
  /\ nc # 0 => running
  /\ running => done \notin doneClosed
  /\ NoDoubleClose

PatientInv == Careful /\ Patient => OneOwner

IInv == TypeOK /\ PlaceInv /\ FreshInv /\ ConnInv /\ HandlerInv /\ CarefulInv /\ PatientInv

(* Callers and watchers are the ones who stop, and no caller is a number.  *)
LEMMA StoppersAre ==
  /\ Gens \subseteq Stoppers /\ Callers \subseteq Stoppers /\ Gens \cap Callers = {}
  /\ \A x \in Stoppers : x \in Gens \/ x \in Callers
  /\ Gens \subseteq Nat /\ Gens \subseteq 0 .. MaxStart /\ 0 \notin Gens
  /\ SubIds \subseteq 0 .. MaxSub /\ 0 \notin SubIds
  /\ \A g \in 0 .. MaxStart : g # 0 => g \in Gens
  /\ \A i \in 0 .. MaxSub : i # 0 => i \in SubIds
BY NatsAssumption DEF Stoppers, Gens, SubIds

(* The initial states satisfy the inductive invariant.                     *)
LEMMA InitIInv == Init => IInv
<1> SUFFICES ASSUME Init PROVE IInv
  OBVIOUS
<1> USE NatsAssumption, StoppersAre DEF Init, NoSubs
<1>0. \A x \in Stoppers : pc[x] = IF x \in Gens THEN "unborn" ELSE "idle"
  OBVIOUS
<1>1. TypeOK
  <2>1. done \in 0 .. MaxStart /\ nc \in 0 .. MaxStart /\ subs \in [Subjects -> 0 .. MaxSub]
    OBVIOUS
  <2>2. subConn \in [SubIds -> 0 .. MaxStart] /\ mine \in [Stoppers -> 0 .. MaxStart]
    OBVIOUS
  <2>3. hand \in [Users -> Gens \union SubIds \union {0}]
    OBVIOUS
  <2>4. running \in BOOLEAN /\ cancelled \in BOOLEAN /\ doubleClose \in BOOLEAN
    OBVIOUS
  <2>5. /\ subSubject \in [SubIds -> Subjects] /\ subject \in [Users -> Subjects]
        /\ connState \in [Gens -> {"none", "open", "draining", "closed"}]
        /\ subState \in [SubIds -> {"none", "live", "dead"}]
        /\ userPc \in [Users -> {"idle", "subscribe", "enter", "release"}]
    OBVIOUS
  <2>6. pc \in [Stoppers -> {"unborn", "born", "watch", "exit",
                             "idle", "connect", "store", "fail", "drain"}]
    OBVIOUS
  <2> QED BY <1>0, <2>1, <2>2, <2>3, <2>4, <2>5, <2>6 DEF TypeOK
<1>2. PlaceInv /\ FreshInv /\ ConnInv
  BY <1>0 DEF PlaceInv, FreshInv, ConnInv, Starting, Unseen
<1>3. HandlerInv
  BY DEF HandlerInv, TableInv, Has, NoLostHandler, EntryIsLive
<1>4. CarefulInv /\ PatientInv
  BY <1>0 DEF CarefulInv, OneCall, ConnectionKept, PatientInv, OneOwner, NoDoubleClose, Starting
<1> QED BY <1>1, <1>2, <1>3, <1>4 DEF IInv

----------------------------------------------------------------------------
(* With the table empty and the connection gone no handler is expected.    *)
LEMMA StopMarkHandlers ==
  ASSUME IInv, NEW x, StopMark(x), UNCHANGED <<serverVars, userVars>>
  PROVE  HandlerInv'
<1> USE NatsAssumption, StoppersAre DEF IInv, TypeOK, StopMark, NoSubs, serverVars, userVars
<1>1. nc' = 0 /\ \A j \in Subjects : subs'[j] = 0
  OBVIOUS
<1>2. \A i \in SubIds : subState[i] # "none" => subConn[i] # 0
  BY DEF HandlerInv, TableInv
<1>3. TableInv'
  BY <1>1, <1>2 DEF HandlerInv, TableInv, Has
<1>4. NoLostHandler' /\ EntryIsLive'
  BY <1>1, <1>2 DEF NoLostHandler, EntryIsLive
<1> QED BY <1>3, <1>4 DEF HandlerInv

(* A step of Start, or the first of Stop.                                  *)
LEMMA CallerStep ==
  ASSUME IInv, NEW x \in Callers, StartMark(x) \/ StartStep(x) \/ StopCall(x)
  PROVE  IInv'
<1> USE NatsAssumption, StoppersAre DEF IInv, TypeOK, Goto, UserGoto, lifeVars, callVars, userVars, serverVars, Starting
<1>0. ASSUME UNCHANGED <<nc, subs, serverVars, userVars>> PROVE HandlerInv'
  BY <1>0 DEF HandlerInv, TableInv, Has, NoLostHandler, EntryIsLive, InHand
<1>1. CASE StartMark(x)
  <2> USE <1>1 DEF StartMark
  <2>1. TypeOK'
    BY DEF PlaceInv
  <2>2. PlaceInv'
    BY DEF PlaceInv
  <2>3. FreshInv'
    BY DEF FreshInv, Unseen, PlaceInv
  <2>4. ConnInv'
    BY DEF ConnInv, FreshInv, Unseen
  <2>5. CarefulInv'
    BY DEF CarefulInv, OneCall, ConnectionKept, Overlaps, PlaceInv, ConnInv
  <2>6. PatientInv'
    BY DEF PatientInv, OneOwner, NoDoubleClose, CarefulInv, OneCall, PlaceInv, Overlaps
  <2> QED BY <1>0, <2>1, <2>2, <2>3, <2>4, <2>5, <2>6
<1>2. CASE StartConnect(x)
  <2> USE <1>2 DEF StartConnect
  <2>1. TypeOK'
    BY DEF PlaceInv
  <2>2. PlaceInv'
    BY DEF PlaceInv
  <2>3. FreshInv'
    BY DEF FreshInv, Unseen, PlaceInv
  <2>4. ConnInv'
    BY DEF ConnInv, FreshInv, Unseen
  <2>5. CarefulInv'
    BY DEF CarefulInv, OneCall, ConnectionKept, Overlaps, PlaceInv, ConnInv
  <2>6. PatientInv'
    BY DEF PatientInv, OneOwner, NoDoubleClose, CarefulInv, OneCall, PlaceInv, Overlaps
  <2> QED BY <1>0, <2>1, <2>2, <2>3, <2>4, <2>5, <2>6
<1>3. CASE StartConnectFails(x)
  <2> USE <1>3 DEF StartConnectFails
  <2>1. TypeOK'
    BY DEF PlaceInv
  <2>2. PlaceInv'
    BY DEF PlaceInv
  <2>3. FreshInv'
    BY DEF FreshInv, Unseen, PlaceInv
  <2>4. ConnInv'
    BY DEF ConnInv, FreshInv, Unseen
  <2>5. CarefulInv'
    BY DEF CarefulInv, OneCall, ConnectionKept, Overlaps, PlaceInv, ConnInv
  <2>6. PatientInv'
    BY DEF PatientInv, OneOwner, NoDoubleClose, CarefulInv, OneCall, PlaceInv, Overlaps
  <2> QED BY <1>0, <2>1, <2>2, <2>3, <2>4, <2>5, <2>6
<1>4. CASE StartFail(x)
  <2> USE <1>4 DEF StartFail, CloseDone
  <2>1. TypeOK'
    <3>a. done \in Gens
      BY DEF PlaceInv
    <3>b. doneClosed' = doneClosed \union {done} /\ running' \in BOOLEAN
      OBVIOUS
    <3>c. doubleClose' \in BOOLEAN
      BY Zenon
    <3>1. doneClosed' \subseteq Gens /\ running' \in BOOLEAN /\ doubleClose' \in BOOLEAN
      BY <3>a, <3>b, <3>c
    <3>2. pc' \in [Stoppers -> {"unborn", "born", "watch", "exit",
                                "idle", "connect", "store", "fail", "drain"}]
      OBVIOUS
    <3> QED BY <3>1, <3>2
  <2>2. PlaceInv'
    BY DEF PlaceInv
  <2>3. FreshInv'
    BY DEF FreshInv, Unseen, PlaceInv
  <2>4. ConnInv'
    BY DEF ConnInv, FreshInv, Unseen
  <2>5. CarefulInv'
    BY DEF CarefulInv, OneCall, ConnectionKept, Overlaps, PlaceInv, ConnInv
  <2>6. PatientInv'
    BY DEF PatientInv, OneOwner, NoDoubleClose, CarefulInv, OneCall, PlaceInv, Overlaps
  <2> QED BY <1>0, <2>1, <2>2, <2>3, <2>4, <2>5, <2>6
<1>5. CASE StartStore(x)
  <2> USE <1>5 DEF StartStore
  <2>1. TypeOK'
    BY DEF PlaceInv
  <2>2. PlaceInv'
    BY DEF PlaceInv
  <2>3. FreshInv'
    BY DEF FreshInv, Unseen, PlaceInv
  <2>4. ConnInv'
    BY DEF ConnInv, FreshInv, Unseen
  <2>5. HandlerInv'
    <3>1. \A i \in SubIds : subConn[i] # nc'
      BY DEF FreshInv, Unseen
    <3>a. \A u \in Users : userPc[u] = "enter" => subConn[hand[u]] # nc'
      BY <3>1
    <3>b. UNCHANGED <<subs, serverVars, userVars>>
      OBVIOUS
    <3> HIDE DEF StartStore
    <3>2. TableInv'
      BY <3>a, <3>b DEF HandlerInv, TableInv, Has
    <3> USE DEF StartStore
    <3>3. NoLostHandler' /\ EntryIsLive'
      BY <3>1 DEF NoLostHandler, EntryIsLive
    <3> QED BY <3>2, <3>3 DEF HandlerInv
  <2>6. CarefulInv'
    <3> SUFFICES ASSUME Careful PROVE OneCall'
      BY DEF CarefulInv
    <3>1. OneCall /\ nc = 0
      BY DEF CarefulInv, OneCall
    <3>2. \A y \in Callers : pc'[y] = "idle"
      BY <3>1 DEF OneCall, PlaceInv
    <3>3. ASSUME NEW c \in Gens, connState[c] = "open"
          PROVE  nc' = c \/ \E y \in Stoppers : pc'[y] \in {"store", "drain"} /\ mine[y] = c
      <4>1. PICK y \in Stoppers : pc[y] \in {"store", "drain"} /\ mine[y] = c
        BY <3>1, <3>3 DEF OneCall, ConnectionKept
      <4>2. CASE y = x
        BY <4>1, <4>2
      <4>3. CASE y # x
        BY <4>1, <4>3 DEF FreshInv, Unseen
      <4> QED BY <4>2, <4>3
    <3> QED BY <3>2, <3>3 DEF OneCall, ConnectionKept
  <2>7. PatientInv'
    BY DEF PatientInv, OneOwner, NoDoubleClose, CarefulInv, OneCall, PlaceInv, Overlaps
  <2> QED BY <2>1, <2>2, <2>3, <2>4, <2>5, <2>6, <2>7
<1>6. CASE StopCall(x)
  <2> USE <1>6 DEF StopCall, StopMark, CloseDone, MayStop, NoSubs
  <2>1. TypeOK'
    <3>a. done \in Gens
      BY DEF PlaceInv
    <3>b. doneClosed' = doneClosed \union {done} /\ running' \in BOOLEAN
      OBVIOUS
    <3>c. doubleClose' \in BOOLEAN
      BY Zenon
    <3>1. doneClosed' \subseteq Gens /\ running' \in BOOLEAN /\ doubleClose' \in BOOLEAN
      BY <3>a, <3>b, <3>c
    <3>2. pc' \in [Stoppers -> {"unborn", "born", "watch", "exit",
                                "idle", "connect", "store", "fail", "drain"}]
      OBVIOUS
    <3>3. nc' \in 0 .. MaxStart /\ subs' \in [Subjects -> 0 .. MaxSub]
      OBVIOUS
    <3>4. /\ mine' \in [Stoppers -> 0 .. MaxStart]
          /\ \A y \in Stoppers : pc'[y] \in {"store", "drain"} => mine'[y] \in Gens
      OBVIOUS
    <3> QED BY <3>1, <3>2, <3>3, <3>4
  <2>2. PlaceInv'
    BY DEF PlaceInv
  <2>3. FreshInv'
    BY DEF FreshInv, Unseen, PlaceInv
  <2>4. ConnInv'
    BY DEF ConnInv, FreshInv, Unseen
  <2>5. HandlerInv'
    BY StopMarkHandlers
  <2>6. CarefulInv'
    BY DEF CarefulInv, OneCall, ConnectionKept, Overlaps, PlaceInv, ConnInv
  <2>7. PatientInv'
    BY DEF PatientInv, OneOwner, NoDoubleClose, CarefulInv, OneCall, PlaceInv, Overlaps
  <2> QED BY <2>1, <2>2, <2>3, <2>4, <2>5, <2>6, <2>7
<1> QED BY <1>1, <1>2, <1>3, <1>4, <1>5, <1>6 DEF StartStep

(* A drain, or a step of a watcher.                                        *)
LEMMA WatcherStep ==
  ASSUME IInv, NEW x \in Stoppers,
         \/ StopDrain(x)
         \/ x \in Gens /\ (WatchStart(x) \/ WatchDone(x) \/ WatchCancel(x) \/ DrainEnds(x))
  PROVE  IInv'
<1> USE NatsAssumption, StoppersAre DEF IInv, TypeOK, Goto, UserGoto, lifeVars, callVars, userVars, serverVars, Starting
<1>0. ASSUME UNCHANGED <<nc, subs, serverVars, userVars>> PROVE HandlerInv'
  BY <1>0 DEF HandlerInv, TableInv, Has, NoLostHandler, EntryIsLive, InHand
<1>1. CASE StopDrain(x)
  <2> USE <1>1 DEF StopDrain, KillSubs
  <2>1. TypeOK'
    BY DEF PlaceInv
  <2>2. PlaceInv'
    BY DEF PlaceInv
  <2>3. FreshInv'
    BY DEF FreshInv, Unseen, PlaceInv
  <2>4. ConnInv'
    BY DEF ConnInv, FreshInv, Unseen
  <2>5. HandlerInv'
    <3>1. /\ \A i \in SubIds : subConn[i] = nc => subState'[i] = subState[i]
          /\ \A i \in SubIds : subState'[i] = "none" <=> subState[i] = "none"
          /\ \A i \in SubIds : subState'[i] = "live" => subState[i] = "live"
      BY DEF ConnInv
    <3> HIDE DEF StopDrain, KillSubs
    <3>2. UNCHANGED <<nc, subs, subConn, subSubject, userVars>>
      BY DEF StopDrain
    <3>a. \A u \in Users : Has(u) =>
            /\ subConn[hand[u]] = nc => subState'[hand[u]] = subState[hand[u]]
            /\ subState'[hand[u]] = "none" <=> subState[hand[u]] = "none"
      BY <3>1 DEF Has
    <3>b. \A j \in Subjects : subs[j] # 0 =>
            (subState'[subs[j]] = "none" <=> subState[subs[j]] = "none")
      BY <3>1
    <3>c. TableInv
      BY DEF HandlerInv
    <3>3. TableInv'
      BY <3>1, <3>2, <3>a, <3>b, <3>c DEF TableInv, Has
    <3>4. NoLostHandler' /\ EntryIsLive'
      BY <3>1, <3>2 DEF HandlerInv, TableInv, NoLostHandler, EntryIsLive, InHand
    <3> QED BY <3>3, <3>4 DEF HandlerInv
  <2>6. CarefulInv'
    BY DEF CarefulInv, OneCall, ConnectionKept, Overlaps, PlaceInv, ConnInv
  <2>7. PatientInv'
    BY DEF PatientInv, OneOwner, NoDoubleClose, CarefulInv, OneCall, PlaceInv, Overlaps
  <2> QED BY <2>1, <2>2, <2>3, <2>4, <2>5, <2>6, <2>7
<1>2. CASE x \in Gens /\ DrainEnds(x)
  <2> USE <1>2 DEF DrainEnds, KillSubs
  <2>1. TypeOK'
    BY DEF PlaceInv
  <2>2. PlaceInv'
    BY DEF PlaceInv
  <2>3. FreshInv'
    BY DEF FreshInv, Unseen, PlaceInv
  <2>4. ConnInv'
    BY DEF ConnInv, FreshInv, Unseen
  <2>5. HandlerInv'
    BY DEF HandlerInv, FreshInv, Unseen, ConnInv, TableInv, Has, NoLostHandler, EntryIsLive, InHand
  <2>6. CarefulInv'
    BY DEF CarefulInv, OneCall, ConnectionKept, Overlaps, PlaceInv, ConnInv
  <2>7. PatientInv'
    BY DEF PatientInv, OneOwner, NoDoubleClose, CarefulInv, OneCall, PlaceInv, Overlaps
  <2> QED BY <2>1, <2>2, <2>3, <2>4, <2>5, <2>6, <2>7
<1>3. CASE x \in Gens /\ WatchStart(x)
  <2> USE <1>3 DEF WatchStart
  <2>1. TypeOK'
    BY DEF PlaceInv
  <2>2. PlaceInv'
    BY DEF PlaceInv
  <2>3. FreshInv'
    BY DEF FreshInv, Unseen, PlaceInv
  <2>4. ConnInv'
    BY DEF ConnInv, FreshInv, Unseen
  <2>5. CarefulInv'
    BY DEF CarefulInv, OneCall, ConnectionKept, Overlaps, PlaceInv, ConnInv
  <2>6. PatientInv'
    BY DEF PatientInv, OneOwner, NoDoubleClose, CarefulInv, OneCall, PlaceInv, Overlaps
  <2> QED BY <1>0, <2>1, <2>2, <2>3, <2>4, <2>5, <2>6
<1>4. CASE x \in Gens /\ WatchDone(x)
  <2> USE <1>4 DEF WatchDone
  <2>1. TypeOK'
    BY DEF PlaceInv
  <2>2. PlaceInv'
    BY DEF PlaceInv
  <2>3. FreshInv'
    BY DEF FreshInv, Unseen, PlaceInv
  <2>4. ConnInv'
    BY DEF ConnInv, FreshInv, Unseen
  <2>5. CarefulInv'
    BY DEF CarefulInv, OneCall, ConnectionKept, Overlaps, PlaceInv, ConnInv
  <2>6. PatientInv'
    BY DEF PatientInv, OneOwner, NoDoubleClose, CarefulInv, OneCall, PlaceInv, Overlaps
  <2> QED BY <1>0, <2>1, <2>2, <2>3, <2>4, <2>5, <2>6
<1>5. CASE x \in Gens /\ WatchCancel(x)
  <2> USE <1>5 DEF WatchCancel, StopMark, CloseDone, MayStop, NoSubs, SeesCancel
  <2>1. TypeOK'
    <3>1. CASE running
      <4>a. done \in Gens
        BY <3>1 DEF PlaceInv
      <4>b. doneClosed' = doneClosed \union {done} /\ running' \in BOOLEAN
        BY <3>1
      <4>c. doubleClose' \in BOOLEAN
        BY <3>1, Zenon
      <4>1. doneClosed' \subseteq Gens /\ running' \in BOOLEAN /\ doubleClose' \in BOOLEAN
        BY <4>a, <4>b, <4>c
      <4>2. pc' \in [Stoppers -> {"unborn", "born", "watch", "exit",
                                  "idle", "connect", "store", "fail", "drain"}]
        OBVIOUS
      <4>3. nc' \in 0 .. MaxStart /\ subs' \in [Subjects -> 0 .. MaxSub]
        OBVIOUS
      <4>4. /\ mine' \in [Stoppers -> 0 .. MaxStart]
            /\ \A y \in Stoppers : pc'[y] \in {"store", "drain"} => mine'[y] \in Gens
        OBVIOUS
      <4> QED BY <4>1, <4>2, <4>3, <4>4
    <3>2. CASE ~running
      <4>1. pc' = [pc EXCEPT ![x] = "exit"]
        BY <3>2
      <4>2. /\ UNCHANGED <<running, doneClosed, doubleClose, nc, subs, mine>>
            /\ UNCHANGED <<done, cancelled, connState, serverVars, userVars>>
        BY <3>2
      <4> HIDE DEF WatchCancel
      <4> QED BY <4>1, <4>2
    <3> QED BY <3>1, <3>2
  <2>2. PlaceInv'
    <3>1. CASE running
      <4>1. /\ pc' = [pc EXCEPT ![x] = IF nc = 0 THEN "exit" ELSE "drain"]
            /\ mine' = [mine EXCEPT ![x] = nc]
            /\ ~running' /\ done' = done /\ doneClosed' = doneClosed \union {done}
        BY <3>1
      <4> HIDE DEF WatchCancel
      <4> QED BY <3>1, <4>1 DEF PlaceInv
    <3>2. CASE ~running
      <4>1. /\ pc' = [pc EXCEPT ![x] = "exit"]
            /\ UNCHANGED <<running, doneClosed, mine, done>>
        BY <3>2
      <4> HIDE DEF WatchCancel
      <4> QED BY <3>2, <4>1 DEF PlaceInv
    <3> QED BY <3>1, <3>2
  <2>3. FreshInv'
    BY DEF FreshInv, Unseen, PlaceInv
  <2>4. ConnInv'
    BY DEF ConnInv, FreshInv, Unseen
  <2>5. HandlerInv'
    <3>1. CASE running
      BY <3>1, StopMarkHandlers
    <3>2. CASE ~running
      BY <3>2 DEF HandlerInv, TableInv, Has, NoLostHandler, EntryIsLive, InHand
    <3> QED BY <3>1, <3>2
  <2>6. CarefulInv'
    BY DEF CarefulInv, OneCall, ConnectionKept, Overlaps, PlaceInv, ConnInv
  <2>7. PatientInv'
    BY DEF PatientInv, OneOwner, NoDoubleClose, CarefulInv, OneCall, PlaceInv, Overlaps
  <2> QED BY <2>1, <2>2, <2>3, <2>4, <2>5, <2>6, <2>7
<1> QED BY <1>1, <1>2, <1>3, <1>4, <1>5

(* A step of Subscribe or Unsubscribe: the client stays as it is.          *)
LEMMA UserStepInv ==
  ASSUME IInv, NEW u \in Users, NEW j \in Subjects,
         UserStep(u) \/ SubscribeCheck(u, j) \/ UnsubscribeTake(u, j)
  PROVE  IInv'
<1> USE NatsAssumption, StoppersAre DEF IInv, TypeOK, Goto, UserGoto, lifeVars, callVars, userVars, serverVars, Starting
<1>0. ASSUME UNCHANGED <<lifeVars, nc, connState, callVars>>
      PROVE  PlaceInv' /\ ConnInv' /\ CarefulInv' /\ PatientInv'
  BY <1>0 DEF PlaceInv, ConnInv, CarefulInv, OneCall, ConnectionKept, PatientInv, OneOwner, NoDoubleClose
<1>1. CASE SubscribeCheck(u, j)
  <2> USE <1>1 DEF SubscribeCheck, Refuses
  <2>1. TypeOK'
    BY DEF PlaceInv
  <2>2. FreshInv'
    BY DEF FreshInv, Unseen, PlaceInv
  <2>3. HandlerInv'
    <3>1. TableInv'
      BY DEF HandlerInv, TableInv, Has
    <3>2. NoLostHandler' /\ EntryIsLive'
      BY DEF HandlerInv, NoLostHandler, EntryIsLive, InHand
    <3> QED BY <3>1, <3>2 DEF HandlerInv
  <2> QED BY <1>0, <2>1, <2>2, <2>3
<1>2. CASE SubscribeAsk(u)
  <2> USE <1>2 DEF SubscribeAsk
  <2>1. TypeOK'
    <3>1. PICK i \in SubIds : /\ subState' = [subState EXCEPT ![i] = "live"]
                             /\ subConn' = [subConn EXCEPT ![i] = hand[u]]
                             /\ subSubject' = [subSubject EXCEPT ![i] = subject[u]]
                             /\ hand' = [hand EXCEPT ![u] = i]
      OBVIOUS
    <3> HIDE DEF SubscribeAsk
    <3>2. userPc[u] = "subscribe" /\ userPc' = [userPc EXCEPT ![u] = "enter"]
          /\ UNCHANGED <<lifeVars, nc, subs, connState, callVars, subject>>
      BY DEF SubscribeAsk
    <3>3. subConn' \in [SubIds -> 0 .. MaxStart] /\ subSubject' \in [SubIds -> Subjects]
      BY <3>1, <3>2
    <3>4. subState' \in [SubIds -> {"none", "live", "dead"}]
      BY <3>1
    <3> QED BY <3>1, <3>2, <3>3, <3>4
  <2>2. FreshInv'
    BY DEF FreshInv, Unseen, PlaceInv
  <2>3. HandlerInv'
    BY DEF HandlerInv, FreshInv, Unseen, ConnInv, TableInv, Has, NoLostHandler, EntryIsLive, InHand
  <2> QED BY <1>0, <2>1, <2>2, <2>3
<1>3. CASE SubscribeRefused(u)
  <2> USE <1>3 DEF SubscribeRefused
  <2>1. TypeOK'
    BY DEF PlaceInv
  <2>2. FreshInv'
    BY DEF FreshInv, Unseen, PlaceInv
  <2>3. HandlerInv'
    BY DEF HandlerInv, FreshInv, Unseen, ConnInv, TableInv, Has, NoLostHandler, EntryIsLive, InHand
  <2> QED BY <1>0, <2>1, <2>2, <2>3
<1>4. CASE SubscribeEnter(u)
  <2> USE <1>4 DEF SubscribeEnter, Taken
  <2>1. TypeOK'
    <3>1. subject[u] \in Subjects /\ hand[u] \in SubIds
      OBVIOUS
    <3>2. subs' \in [Subjects -> 0 .. MaxSub]
      BY <3>1
    <3> QED BY <3>2
  <2>2. FreshInv'
    BY DEF FreshInv, Unseen, PlaceInv
  <2>3. HandlerInv'
    BY DEF HandlerInv, FreshInv, Unseen, ConnInv, TableInv, Has, NoLostHandler, EntryIsLive, InHand
  <2> QED BY <1>0, <2>1, <2>2, <2>3
<1>5. CASE UnsubscribeTake(u, j)
  <2> USE <1>5 DEF UnsubscribeTake, Forget
  <2>1. TypeOK'
    BY DEF PlaceInv
  <2>2. FreshInv'
    BY DEF FreshInv, Unseen, PlaceInv
  <2>3. HandlerInv'
    BY DEF HandlerInv, FreshInv, Unseen, ConnInv, TableInv, Has, NoLostHandler, EntryIsLive, InHand
  <2> QED BY <1>0, <2>1, <2>2, <2>3
<1>6. CASE Release(u)
  <2> USE <1>6 DEF Release
  <2>1. TypeOK'
    <3>1. subState' \in [SubIds -> {"none", "live", "dead"}]
      OBVIOUS
    <3> QED BY <3>1
  <2>2. FreshInv'
    BY DEF FreshInv, Unseen, PlaceInv
  <2>3. HandlerInv'
    BY DEF HandlerInv, FreshInv, Unseen, ConnInv, TableInv, Has, NoLostHandler, EntryIsLive, InHand
  <2> QED BY <1>0, <2>1, <2>2, <2>3
<1> QED BY <1>1, <1>2, <1>3, <1>4, <1>5, <1>6 DEF UserStep

----------------------------------------------------------------------------
(* Every step of the system preserves the inductive invariant.             *)
LEMMA IInvStep == IInv /\ [Next]_vars => IInv'
<1> SUFFICES ASSUME IInv, [Next]_vars PROVE IInv'
  OBVIOUS
<1>1. ASSUME NEW x \in Callers, StartMark(x) \/ StartStep(x) \/ StopCall(x) PROVE IInv'
  BY <1>1, CallerStep
<1>2. ASSUME NEW x \in Callers, StopDrain(x) PROVE IInv'
  BY <1>2, StoppersAre, WatcherStep
<1>3. ASSUME NEW g \in Gens, WatchStep(g) \/ DrainEnds(g) PROVE IInv'
  BY <1>3, StoppersAre, WatcherStep DEF WatchStep
<1>4. ASSUME NEW u \in Users,
             UserStep(u) \/ \E j \in Subjects : SubscribeCheck(u, j) \/ UnsubscribeTake(u, j)
      PROVE  IInv'
  BY <1>4, UserStepInv, NatsAssumption
<1>5. CASE Cancel
  BY <1>5, StoppersAre DEF Cancel, serverVars, callVars, userVars, IInv, TypeOK, PlaceInv, FreshInv,
     Unseen, Starting, ConnInv, HandlerInv, TableInv, Has, NoLostHandler, EntryIsLive, InHand,
     CarefulInv, OneCall, ConnectionKept, PatientInv, OneOwner, NoDoubleClose
<1>6. CASE UNCHANGED vars
  BY <1>6 DEF vars, lifeVars, serverVars, callVars, userVars, IInv, TypeOK, PlaceInv, FreshInv,
     Unseen, Starting, ConnInv, HandlerInv, TableInv, Has, NoLostHandler, EntryIsLive, InHand,
     CarefulInv, OneCall, ConnectionKept, PatientInv, OneOwner, NoDoubleClose
<1> QED BY <1>1, <1>2, <1>3, <1>4, <1>5, <1>6 DEF Next

(* IInv holds in every state the client can reach.                         *)
THEOREM Invariance == Spec => []IInv
  BY InitIInv, IInvStep, PTL DEF Spec

(* Every variable keeps its type, and no call of the library is made on    *)
(* nil, whoever stops the client or takes the entry away meanwhile.        *)
THEOREM TypeCorrect == Spec => []TypeOK
<1>1. IInv => TypeOK
  BY DEF IInv
<1> QED BY <1>1, Invariance, PTL

(* Unsubscribe can reach every handler that runs on the client's           *)
(* connection, however calls of Subscribe, Unsubscribe, Start and Stop     *)
(* meet.                                                                   *)
THEOREM HandlersAreReachable == Spec => []NoLostHandler
<1>1. IInv => NoLostHandler
  BY DEF IInv, HandlerInv
<1> QED BY <1>1, Invariance, PTL

(* No entry of the table is left whose handler has ended while its         *)
(* connection is the client's, however the calls meet.                     *)
THEOREM EntriesAreLive == Spec => []EntryIsLive
<1>1. IInv => EntryIsLive
  BY DEF IInv, HandlerInv
<1> QED BY <1>1, Invariance, PTL

(* No done channel is closed twice, if calls of Start and Stop do not      *)
(* overlap and a Start comes after the watchers of the earlier ones.       *)
THEOREM NoPanic ==
  ASSUME Careful, Patient
  PROVE  Spec => []NoDoubleClose
<1>1. IInv => NoDoubleClose
  BY DEF IInv, PatientInv, OneOwner
<1> QED BY <1>1, Invariance, PTL

(* An open connection is the client's, or a Start's that will store it, or *)
(* whoever took it will drain it, and Stop leaves none open, on the same   *)
(* two conditions.                                                         *)
THEOREM ConnectionsAreKept ==
  ASSUME Careful, Patient
  PROVE  Spec => []NoLostConnection
<1>1. IInv => NoLostConnection
  <2> SUFFICES ASSUME IInv PROVE NoLostConnection
    OBVIOUS
  <2>1. ConnectionKept /\ (nc # 0 => running)
    BY DEF IInv, CarefulInv, OneCall, PatientInv, OneOwner
  <2>2. StopClosesConnection
    BY <2>1, StoppersAre DEF StopClosesConnection, ConnectionKept
  <2> QED BY <2>1, <2>2 DEF NoLostConnection, ConnectionKept
<1> QED BY <1>1, Invariance, PTL
=============================================================================

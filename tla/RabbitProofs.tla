---------------------------- MODULE RabbitProofs ----------------------------
(***************************************************************************)
(* Theorems about RabbitClient, for any number of callers, Starts,         *)
(* failures, connections and channels, and the proof that it implements    *)
(* ChannelLife.  The inductive invariant is IInv.  What only holds if Start*)
(* waits for the last loop has Patient as its hypothesis.                  *)
(***************************************************************************)
EXTENDS RabbitClient, FiniteSetTheorems, TLAPS

(* Stop only tears down, and whoever tears down knows where it goes on.    *)
TearingDown == {"teardown", "tdChannel", "tdChannelClose", "tdConn", "tdConnClose"}
PlaceInv ==
  /\ \A u \in Callers : pc[u] \in {"idle"} \union TearingDown /\ back[u] \in {"none", "idle"}
  /\ \A p \in Procs : pc[p] \in TearingDown => back[p] # "none"
  /\ stoppedGens \subseteq 1 .. done

(* A goroutine has a handle in hand where it is going to use one.          *)
InHand == {"install", "dropClose", "tdConnClose", "opening",
           "declare", "tdChannelClose", "ccChannelClose"}

(* Channels are opened in order, and the client shows one that was opened  *)
(* or none, as whoever closes one has one that was opened in hand.         *)
HandInv ==
  /\ \A l \in Loops :
       /\ pc[l] \in {"install", "opening"} => held[l] \in Conns
       /\ pc[l] = "declare" => held[l] \in Chans /\ chanState[held[l]] # "none"
  /\ \A p \in Procs : pc[p] \in {"tdChannelClose", "ccChannelClose"} =>
       held[p] = 0 \/ (held[p] \in Chans /\ chanState[held[p]] # "none")
  /\ channel \in {0, chanClosed}
  /\ chanClosed # 0 => chanState[chanClosed] # "none"

Used == {h \in Chans : chanState[h] # "none"}
OrderInv == \E k \in 0 .. MaxChan : Used = 1 .. k

Live(l) == pc[l] \notin {"unborn", "exit"}

(* Where a loop knows that the client has no connection, and no channel.   *)
NoConn == {"dropClose", "dial", "install"}
NoChannel == {"top", "check", "drop", "dropClose", "dial", "install", "open", "opening",
              "declare", "wait", "waiting", "tdChannelClose", "ccChannelClose", "tdConn",
              "tdConnClose"}

(* One loop at a time: it has no connection while it dials and no channel  *)
(* before it opens one.  It opens one on the connection of the client, or  *)
(* on one that Stop took meanwhile and is going to close, which closes the *)
(* channel too.                                                            *)
OneLoop ==
  /\ \A l, m \in Loops : Live(l) /\ Live(m) => l = m
  /\ \A l \in Loops :
       /\ pc[l] \in NoConn => conn = 0
       /\ pc[l] \in NoChannel => channel = 0
       /\ pc[l] = "opening" /\ connState[held[l]] = "open" => conn = held[l] \/ StopCloses(held[l])
       /\ pc[l] = "declare" => held[l] > chanClosed
       /\ pc[l] = "declare" /\ chanState[held[l]] = "open" =>
            conn = chanConn[held[l]] \/ StopCloses(chanConn[held[l]])
  /\ NothingLeaks
  /\ ChannelOnConn

PatientInv == Patient => OneLoop

IInv == TypeOK /\ PlaceInv /\ HandInv /\ OrderInv /\ PatientInv

(* The initial states satisfy the inductive invariant.                     *)
LEMMA InitIInv == Init => IInv
<1> SUFFICES ASSUME Init PROVE IInv
  OBVIOUS
<1> USE ClientAssumption DEF Init, Procs, Loops, Conns, Chans
<1>1. TypeOK
  <2>1. /\ done \in 0 .. MaxStart /\ conn \in 0 .. MaxConn /\ connClosed \in 0 .. MaxConn
        /\ channel \in 0 .. MaxChan /\ chanClosed \in 0 .. MaxChan /\ faults \in 0 .. MaxFault
    OBVIOUS
  <2>2. running \in BOOLEAN /\ cancelled \in BOOLEAN
    OBVIOUS
  <2>3. chanConn \in [Chans -> 0 .. MaxConn]
    OBVIOUS
  <2>4. held \in [Procs -> 0 .. MaxConn + MaxChan]
    OBVIOUS
  <2>5. sel \in [Loops -> [done : 0 .. MaxStart, conn : 0 .. MaxConn, chan : 0 .. MaxChan]]
    OBVIOUS
  <2> QED BY <2>1, <2>2, <2>3, <2>4, <2>5 DEF TypeOK
<1>2. PlaceInv /\ HandInv
  <2>1. \A u \in Callers : u \in Procs /\ u \notin Loops
    OBVIOUS
  <2>2. \A u \in Callers : pc[u] = "idle"
    BY <2>1
  <2>3. \A p \in Procs : pc[p] \in {"unborn", "idle"}
    OBVIOUS
  <2>4. \A l \in Loops : l \in Procs
    OBVIOUS
  <2> QED BY <2>2, <2>3, <2>4 DEF PlaceInv, TearingDown, HandInv
<1>3. OrderInv
  <2>1. Used = {} /\ 1 .. 0 = {} /\ 0 \in 0 .. MaxChan
    BY DEF Used
  <2> QED BY <2>1 DEF OrderInv
<1>4. PatientInv
  BY DEF PatientInv, OneLoop, NothingLeaks, ChannelOnConn, Live, NoConn, NoChannel
<1> QED BY <1>1, <1>2, <1>3, <1>4 DEF IInv

(* The next channel is the first one that was not opened.                  *)
LEMMA FreshIsNext ==
  ASSUME TypeOK, OrderInv, NEW h, FreshChan(h)
  PROVE  h \in Chans /\ chanState[h] = "none" /\ Used = 1 .. (h - 1)
<1>1. PICK k \in 0 .. MaxChan : Used = 1 .. k
  BY DEF OrderInv
<1>2. Cardinality(1 .. k) = k
  BY <1>1, FS_Interval, ClientAssumption
<1>3. h = 1 + k /\ h \in Chans
  BY <1>1, <1>2 DEF FreshChan, Used
<1> QED BY <1>1, <1>3, ClientAssumption DEF Used, Chans

----------------------------------------------------------------------------
(* Loops and callers are the processes, and no caller is a loop.            *)
LEMMA ProcsAre ==
  /\ Loops \subseteq Procs /\ Callers \subseteq Procs /\ Loops \cap Callers = {}
  /\ \A p \in Procs : p \in Loops \/ p \in Callers
  /\ Conns \subseteq 0 .. MaxConn /\ Chans \subseteq 0 .. MaxChan
  /\ Conns \subseteq 0 .. MaxConn + MaxChan /\ Chans \subseteq 0 .. MaxConn + MaxChan
  /\ 0 \notin Conns /\ 0 \notin Chans /\ 0 \in 0 .. MaxConn + MaxChan
BY ClientAssumption DEF Procs, Loops, Conns, Chans

(* A goroutine that goes on, with no handle in hand before and after,      *)
(* changes nothing else that the invariant is about.                       *)
LEMMA MoveInv ==
  ASSUME IInv, TypeOK', PlaceInv', NEW p \in Procs,
         UNCHANGED <<handleVars, netVars, held>>,
         \A q \in Procs : q # p => pc'[q] = pc[q],
         pc[p] \notin InHand, pc'[p] \notin InHand,
         p \in Loops => /\ Live(p)
                        /\ pc'[p] \notin NoConn
                        /\ pc'[p] \in NoChannel => pc[p] \in NoChannel
  PROVE  IInv'
<1> USE ProcsAre DEF IInv, handleVars, netVars
<1>1. HandInv'
  BY DEF HandInv, InHand
<1>2. OrderInv'
  BY DEF OrderInv, Used
<1>3. PatientInv'
  <2> SUFFICES ASSUME Patient PROVE OneLoop'
    BY DEF PatientInv
  <2>0. OneLoop
    BY DEF PatientInv
  <2>1. \A l, m \in Loops : Live(l)' /\ Live(m)' => l = m
    BY <2>0 DEF OneLoop, Live
  <2>2. \A c : StopCloses(c) => StopCloses(c)'
    BY DEF StopCloses, InHand
  <2>3. NothingLeaks'
    BY <2>0 DEF OneLoop, NothingLeaks, HasConn, HasChan, InHand
  <2>4. ChannelOnConn'
    BY <2>0, <2>2 DEF OneLoop, ChannelOnConn
  <2>5. \A l \in Loops :
          /\ pc'[l] \in NoConn => conn' = 0
          /\ pc'[l] \in NoChannel => channel' = 0
    BY <2>0 DEF OneLoop
  <2>6. \A l \in Loops : pc'[l] \in {"opening", "declare"} => pc'[l] = pc[l]
    BY DEF InHand
  <2> QED BY <2>0, <2>1, <2>2, <2>3, <2>4, <2>5, <2>6 DEF OneLoop
<1> QED BY <1>1, <1>2, <1>3

(* A step of a loop, but for its teardown.                                 *)
LEMMA LoopStepInv ==
  ASSUME IInv, NEW l \in Loops, LoopStep(l), ~Teardown(l)
  PROVE  IInv'
<1> USE ClientAssumption, ProcsAre DEF TypeOK, Goto, runVars, handleVars, netVars, watchVars
<1>0. TypeOK /\ PlaceInv /\ HandInv /\ OrderInv /\ PatientInv /\ l \in Procs
  BY DEF IInv
<1> USE <1>0
<1>1. CASE LoopTop(l)
  <2> USE <1>1 DEF LoopTop
  <2>1. TypeOK'
    OBVIOUS
  <2>2. PlaceInv'
    BY DEF PlaceInv, TearingDown
  <2>3. /\ pc[l] \notin InHand /\ pc'[l] \notin InHand /\ Live(l)
        /\ pc'[l] \notin NoConn /\ (pc'[l] \in NoChannel => pc[l] \in NoChannel)
    BY DEF InHand, Live, NoConn, NoChannel
  <2>4. UNCHANGED <<handleVars, netVars, held>> /\ \A q \in Procs : q # l => pc'[q] = pc[q]
    OBVIOUS
  <2> HIDE <1>1 DEF LoopTop, TypeOK
  <2> QED BY <2>1, <2>2, <2>3, <2>4, MoveInv
<1>2. CASE LoopCheck(l)
  <2> USE <1>2 DEF LoopCheck
  <2>1. TypeOK'
    OBVIOUS
  <2>2. PlaceInv'
    BY DEF PlaceInv, TearingDown
  <2>3. /\ pc[l] \notin InHand /\ pc'[l] \notin InHand /\ Live(l)
        /\ pc'[l] \notin NoConn /\ (pc'[l] \in NoChannel => pc[l] \in NoChannel)
    BY DEF InHand, Live, NoConn, NoChannel
  <2>4. UNCHANGED <<handleVars, netVars, held>> /\ \A q \in Procs : q # l => pc'[q] = pc[q]
    OBVIOUS
  <2> HIDE <1>2 DEF LoopCheck, TypeOK
  <2> QED BY <2>1, <2>2, <2>3, <2>4, MoveInv
<1>3. CASE DialFails(l)
  <2> USE <1>3 DEF DialFails, Fault
  <2>1. TypeOK'
    OBVIOUS
  <2>2. PlaceInv'
    BY DEF PlaceInv, TearingDown
  <2>3. /\ pc[l] \notin InHand /\ pc'[l] \notin InHand /\ Live(l)
        /\ pc'[l] \notin NoConn /\ (pc'[l] \in NoChannel => pc[l] \in NoChannel)
    BY DEF InHand, Live, NoConn, NoChannel
  <2>4. UNCHANGED <<handleVars, netVars, held>> /\ \A q \in Procs : q # l => pc'[q] = pc[q]
    OBVIOUS
  <2> HIDE <1>3 DEF DialFails, TypeOK, Fault
  <2> QED BY <2>1, <2>2, <2>3, <2>4, MoveInv
<1>4. CASE LoopAnnounce(l)
  <2> USE <1>4 DEF LoopAnnounce
  <2>1. TypeOK'
    OBVIOUS
  <2>2. PlaceInv'
    BY DEF PlaceInv, TearingDown
  <2>3. /\ pc[l] \notin InHand /\ pc'[l] \notin InHand /\ Live(l)
        /\ pc'[l] \notin NoConn /\ (pc'[l] \in NoChannel => pc[l] \in NoChannel)
    BY DEF InHand, Live, NoConn, NoChannel
  <2>4. UNCHANGED <<handleVars, netVars, held>> /\ \A q \in Procs : q # l => pc'[q] = pc[q]
    OBVIOUS
  <2> HIDE <1>4 DEF LoopAnnounce, TypeOK
  <2> QED BY <2>1, <2>2, <2>3, <2>4, MoveInv
<1>5. CASE LoopCapture(l)
  <2> USE <1>5 DEF LoopCapture
  <2>1. TypeOK'
    OBVIOUS
  <2>2. PlaceInv'
    BY DEF PlaceInv, TearingDown
  <2>3. /\ pc[l] \notin InHand /\ pc'[l] \notin InHand /\ Live(l)
        /\ pc'[l] \notin NoConn /\ (pc'[l] \in NoChannel => pc[l] \in NoChannel)
    BY DEF InHand, Live, NoConn, NoChannel
  <2>4. UNCHANGED <<handleVars, netVars, held>> /\ \A q \in Procs : q # l => pc'[q] = pc[q]
    OBVIOUS
  <2> HIDE <1>5 DEF LoopCapture, TypeOK
  <2> QED BY <2>1, <2>2, <2>3, <2>4, MoveInv
<1>6. CASE SelectStop(l)
  <2> USE <1>6 DEF SelectStop
  <2>1. TypeOK'
    OBVIOUS
  <2>2. PlaceInv'
    BY DEF PlaceInv, TearingDown
  <2>3. /\ pc[l] \notin InHand /\ pc'[l] \notin InHand /\ Live(l)
        /\ pc'[l] \notin NoConn /\ (pc'[l] \in NoChannel => pc[l] \in NoChannel)
    BY DEF InHand, Live, NoConn, NoChannel
  <2>4. UNCHANGED <<handleVars, netVars, held>> /\ \A q \in Procs : q # l => pc'[q] = pc[q]
    OBVIOUS
  <2> HIDE <1>6 DEF SelectStop, TypeOK
  <2> QED BY <2>1, <2>2, <2>3, <2>4, MoveInv
<1>7. CASE SelectConn(l)
  <2> USE <1>7 DEF SelectConn
  <2>1. TypeOK'
    OBVIOUS
  <2>2. PlaceInv'
    BY DEF PlaceInv, TearingDown
  <2>3. /\ pc[l] \notin InHand /\ pc'[l] \notin InHand /\ Live(l)
        /\ pc'[l] \notin NoConn /\ (pc'[l] \in NoChannel => pc[l] \in NoChannel)
    BY DEF InHand, Live, NoConn, NoChannel
  <2>4. UNCHANGED <<handleVars, netVars, held>> /\ \A q \in Procs : q # l => pc'[q] = pc[q]
    OBVIOUS
  <2> HIDE <1>7 DEF SelectConn, TypeOK
  <2> QED BY <2>1, <2>2, <2>3, <2>4, MoveInv
<1>8. CASE SelectChan(l)
  <2> USE <1>8 DEF SelectChan
  <2>1. TypeOK'
    OBVIOUS
  <2>2. PlaceInv'
    BY DEF PlaceInv, TearingDown
  <2>3. /\ pc[l] \notin InHand /\ pc'[l] \notin InHand /\ Live(l)
        /\ pc'[l] \notin NoConn /\ (pc'[l] \in NoChannel => pc[l] \in NoChannel)
    BY DEF InHand, Live, NoConn, NoChannel
  <2>4. UNCHANGED <<handleVars, netVars, held>> /\ \A q \in Procs : q # l => pc'[q] = pc[q]
    OBVIOUS
  <2> HIDE <1>8 DEF SelectChan, TypeOK
  <2> QED BY <2>1, <2>2, <2>3, <2>4, MoveInv
<1>9. CASE WaitEnter(l)
  <2> USE <1>9 DEF WaitEnter
  <2>1. TypeOK'
    OBVIOUS
  <2>2. PlaceInv'
    BY DEF PlaceInv, TearingDown
  <2>3. /\ pc[l] \notin InHand /\ pc'[l] \notin InHand /\ Live(l)
        /\ pc'[l] \notin NoConn /\ (pc'[l] \in NoChannel => pc[l] \in NoChannel)
    BY DEF InHand, Live, NoConn, NoChannel
  <2>4. UNCHANGED <<handleVars, netVars, held>> /\ \A q \in Procs : q # l => pc'[q] = pc[q]
    OBVIOUS
  <2> HIDE <1>9 DEF WaitEnter, TypeOK
  <2> QED BY <2>1, <2>2, <2>3, <2>4, MoveInv
<1>10. CASE WaitStop(l)
  <2> USE <1>10 DEF WaitStop
  <2>1. TypeOK'
    OBVIOUS
  <2>2. PlaceInv'
    BY DEF PlaceInv, TearingDown
  <2>3. /\ pc[l] \notin InHand /\ pc'[l] \notin InHand /\ Live(l)
        /\ pc'[l] \notin NoConn /\ (pc'[l] \in NoChannel => pc[l] \in NoChannel)
    BY DEF InHand, Live, NoConn, NoChannel
  <2>4. UNCHANGED <<handleVars, netVars, held>> /\ \A q \in Procs : q # l => pc'[q] = pc[q]
    OBVIOUS
  <2> HIDE <1>10 DEF WaitStop, TypeOK
  <2> QED BY <2>1, <2>2, <2>3, <2>4, MoveInv
<1>11. CASE WaitTimer(l)
  <2> USE <1>11 DEF WaitTimer
  <2>1. TypeOK'
    OBVIOUS
  <2>2. PlaceInv'
    BY DEF PlaceInv, TearingDown
  <2>3. /\ pc[l] \notin InHand /\ pc'[l] \notin InHand /\ Live(l)
        /\ pc'[l] \notin NoConn /\ (pc'[l] \in NoChannel => pc[l] \in NoChannel)
    BY DEF InHand, Live, NoConn, NoChannel
  <2>4. UNCHANGED <<handleVars, netVars, held>> /\ \A q \in Procs : q # l => pc'[q] = pc[q]
    OBVIOUS
  <2> HIDE <1>11 DEF WaitTimer, TypeOK
  <2> QED BY <2>1, <2>2, <2>3, <2>4, MoveInv
<1>12. CASE DialOk(l)
  <2> USE <1>12 DEF DialOk
  <2>0. PICK c \in Conns :
          /\ connState' = [connState EXCEPT ![c] = "open"]
          /\ held' = [held EXCEPT ![l] = c]
    OBVIOUS
  <2>1. TypeOK'
    BY <2>0
  <2>2. PlaceInv'
    BY DEF PlaceInv, TearingDown
  <2>3. HandInv'
    BY <2>0 DEF HandInv
  <2>4. OrderInv'
    BY DEF OrderInv, Used
  <2>5. PatientInv'
    <3> SUFFICES ASSUME Patient PROVE OneLoop'
      BY DEF PatientInv
    <3>0. OneLoop
      BY DEF PatientInv
    <3>1. \A k, m \in Loops : Live(k)' /\ Live(m)' => k = m
      BY <3>0 DEF OneLoop, Live
    <3>2. \A k \in Loops : k # l => ~Live(k)'
      BY <3>0 DEF OneLoop, Live
    <3>3. \A d : StopCloses(d) => StopCloses(d)'
      BY DEF StopCloses
    <3>4. NothingLeaks'
      <4>1. HasConn(l, c)'
        BY <2>0 DEF HasConn
      <4>2. \A d \in Conns : d # c /\ connState'[d] = "open" =>
              conn' = d \/ \E p \in Procs : HasConn(p, d)'
        BY <2>0, <3>0 DEF OneLoop, NothingLeaks, HasConn
      <4>3. \A h \in Chans : chanState'[h] = "open" =>
              channel' = h \/ \E p \in Procs : HasChan(p, h)'
        BY <2>0, <3>0 DEF OneLoop, NothingLeaks, HasChan
      <4> QED BY <4>1, <4>2, <4>3 DEF NothingLeaks
    <3>5. ChannelOnConn'
      BY <3>0, <3>3 DEF OneLoop, ChannelOnConn
    <3>6. conn' = 0 /\ channel' = 0 /\ pc'[l] = "install"
      BY <3>0 DEF OneLoop, NoConn, NoChannel
    <3> QED BY <3>1, <3>2, <3>4, <3>5, <3>6 DEF OneLoop, Live, NoConn, NoChannel
  <2> QED BY <2>1, <2>2, <2>3, <2>4, <2>5 DEF IInv
<1>13. CASE DialInstall(l)
  <2> USE <1>13 DEF DialInstall
  <2>0. held[l] \in Conns
    BY DEF HandInv
  <2>1. TypeOK'
    <3>1. conn' = held[l] /\ connClosed' = held[l] /\ connWatch' = connWatch \union {held[l]}
      OBVIOUS
    <3>2. conn' \in 0 .. MaxConn /\ connClosed' \in 0 .. MaxConn /\ connWatch' \subseteq Conns
      BY <2>0, <3>1
    <3>3. held' \in [Procs -> 0 .. MaxConn + MaxChan]
      OBVIOUS
    <3> QED BY <3>2, <3>3
  <2>2. PlaceInv'
    BY DEF PlaceInv, TearingDown
  <2>3. HandInv'
    BY DEF HandInv
  <2>4. OrderInv'
    BY DEF OrderInv, Used
  <2>5. PatientInv'
    <3> SUFFICES ASSUME Patient PROVE OneLoop'
      BY DEF PatientInv
    <3>0. OneLoop
      BY DEF PatientInv
    <3>1. \A k, m \in Loops : Live(k)' /\ Live(m)' => k = m
      BY <3>0 DEF OneLoop, Live
    <3>2. \A k \in Loops : k # l => ~Live(k)'
      BY <3>0 DEF OneLoop, Live
    <3>3. \A d : StopCloses(d) => StopCloses(d)'
      BY DEF StopCloses
    <3>4. conn = 0 /\ channel = 0 /\ pc'[l] = "open"
      BY <3>0 DEF OneLoop, NoConn, NoChannel
    <3>5. NothingLeaks'
      BY <2>0, <3>0, <3>4 DEF OneLoop, NothingLeaks, HasConn, HasChan
    <3>6. ChannelOnConn'
      BY <3>4 DEF ChannelOnConn
    <3> QED BY <3>1, <3>2, <3>4, <3>5, <3>6 DEF OneLoop, Live, NoConn, NoChannel
  <2> QED BY <2>1, <2>2, <2>3, <2>4, <2>5 DEF IInv
<1>14. CASE OpenChannelRead(l)
  <2> USE <1>14 DEF OpenChannelRead, ConnAlive
  <2>0. conn \in Conns
    BY DEF Conns
  <2>1. TypeOK'
    BY <2>0
  <2>2. PlaceInv'
    BY DEF PlaceInv, TearingDown
  <2>3. HandInv'
    BY <2>0 DEF HandInv
  <2>4. OrderInv'
    BY DEF OrderInv, Used
  <2>5. PatientInv'
    <3> SUFFICES ASSUME Patient PROVE OneLoop'
      BY DEF PatientInv
    <3>0. OneLoop
      BY DEF PatientInv
    <3>1. \A k, m \in Loops : Live(k)' /\ Live(m)' => k = m
      BY <3>0 DEF OneLoop, Live
    <3>2. \A k \in Loops : k # l => ~Live(k)'
      BY <3>0 DEF OneLoop, Live
    <3>3. \A d : StopCloses(d) => StopCloses(d)'
      BY DEF StopCloses
    <3>4. channel = 0 /\ pc'[l] = "opening" /\ held'[l] = conn
      BY <3>0 DEF OneLoop, NoChannel
    <3>5. NothingLeaks'
      BY <3>0 DEF OneLoop, NothingLeaks, HasConn, HasChan
    <3>6. ChannelOnConn'
      BY <3>4 DEF ChannelOnConn
    <3> QED BY <3>1, <3>2, <3>4, <3>5, <3>6 DEF OneLoop, Live, NoConn, NoChannel
  <2> QED BY <2>1, <2>2, <2>3, <2>4, <2>5 DEF IInv
<1>15. CASE OpenChannelOk(l)
  <2> USE <1>15 DEF OpenChannelOk
  <2>a. PICK h \in Chans :
          /\ FreshChan(h)
          /\ chanState' = [chanState EXCEPT ![h] = "open"]
          /\ chanConn' = [chanConn EXCEPT ![h] = held[l]]
          /\ held' = [held EXCEPT ![l] = h]
    OBVIOUS
  <2>b. chanState[h] = "none" /\ Used = 1 .. (h - 1) /\ h \in Nat
    <3> HIDE DEF TypeOK
    <3> QED BY <2>a, FreshIsNext DEF Chans
  <2>c. held[l] \in Conns
    BY DEF HandInv
  <2>1. TypeOK'
    BY <2>a, <2>c
  <2>2. PlaceInv'
    BY DEF PlaceInv, TearingDown
  <2>3. HandInv'
    BY <2>a, <2>b DEF HandInv
  <2>4. OrderInv'
    <3>1. Used' = Used \union {h}
      BY <2>a DEF Used
    <3>2. Used' = 1 .. h
      BY <2>b, <3>1
    <3> QED BY <2>a, <3>2 DEF OrderInv, Chans
  <2>5. PatientInv'
    <3> SUFFICES ASSUME Patient PROVE OneLoop'
      BY DEF PatientInv
    <3>0. OneLoop
      BY DEF PatientInv
    <3>1. \A k, m \in Loops : Live(k)' /\ Live(m)' => k = m
      BY <3>0 DEF OneLoop, Live
    <3>2. \A k \in Loops : k # l => ~Live(k)'
      BY <3>0 DEF OneLoop, Live
    <3>3. \A d : StopCloses(d) => StopCloses(d)'
      BY DEF StopCloses
    <3>4. channel = 0 /\ (conn = held[l] \/ StopCloses(held[l]))
      BY <3>0 DEF OneLoop, NoChannel
    <3>5. NothingLeaks'
      <4>1. HasChan(l, h)'
        BY <2>a DEF HasChan
      <4>2. \A g \in Chans : g # h /\ chanState'[g] = "open" =>
              channel' = g \/ \E p \in Procs : HasChan(p, g)'
        BY <2>a, <3>0 DEF OneLoop, NothingLeaks, HasChan
      <4>3. \A c \in Conns : connState'[c] = "open" =>
              conn' = c \/ \E p \in Procs : HasConn(p, c)'
        BY <2>a, <3>0 DEF OneLoop, NothingLeaks, HasConn
      <4> QED BY <4>1, <4>2, <4>3 DEF NothingLeaks
    <3>6. ChannelOnConn'
      BY <3>4 DEF ChannelOnConn
    <3>7. h > chanClosed
      <4>1. chanClosed = 0 \/ chanClosed \in Used
        BY DEF HandInv, Used, Chans
      <4> QED BY <2>b, <4>1, <2>a DEF Chans
    <3>8. pc'[l] = "declare" /\ held'[l] = h /\ chanConn'[h] = held[l]
      BY <2>a
    <3>9. conn' = chanConn'[held'[l]] \/ StopCloses(chanConn[held[l]])'
      BY <3>3, <3>4, <3>8
    <3> QED BY <3>1, <3>2, <3>4, <3>5, <3>6, <3>7, <3>8, <3>9 DEF OneLoop, Live, NoConn, NoChannel
  <2> QED BY <2>1, <2>2, <2>3, <2>4, <2>5 DEF IInv
<1>16. CASE OpenChannelFails(l)
  <2> USE <1>16 DEF OpenChannelFails, Fault, ChanAfterClose
  <2>0. held' = [held EXCEPT ![l] = 0] /\ pc' = [pc EXCEPT ![l] = "teardown"]
        /\ pc[l] \in {"open", "opening", "declare"}
    OBVIOUS
  <2>a. /\ \A h \in Chans : chanState'[h] = "none" <=> chanState[h] = "none"
        /\ \A h \in Chans : chanState'[h] = "open" <=>
             chanState[h] = "open" /\ ~(pc[l] = "declare" /\ h = held[l])
    BY DEF HandInv
  <2>1. TypeOK'
    OBVIOUS
  <2>2. PlaceInv'
    BY DEF PlaceInv, TearingDown
  <2>3. HandInv'
    <3>1. \A q \in Procs : q # l => pc'[q] = pc[q] /\ held'[q] = held[q]
      BY <2>0
    <3>2. pc'[l] = "teardown" /\ UNCHANGED <<channel, chanClosed>>
      BY <2>0
    <3>3. HandInv /\ chanClosed \in 0 .. MaxChan
      OBVIOUS
    <3> HIDE <1>16, <1>0 DEF OpenChannelFails, Fault, TypeOK
    <3> QED BY <2>a, <3>1, <3>2, <3>3 DEF HandInv, Chans
  <2>4. OrderInv'
    <3>1. Used' = Used
      BY <2>a DEF Used
    <3> QED BY <3>1 DEF OrderInv
  <2>5. PatientInv'
    <3> SUFFICES ASSUME Patient PROVE OneLoop'
      BY DEF PatientInv
    <3>0. OneLoop
      BY DEF PatientInv
    <3>1. \A k, m \in Loops : Live(k)' /\ Live(m)' => k = m
      BY <3>0 DEF OneLoop, Live
    <3>2. \A k \in Loops : k # l => ~Live(k)'
      BY <3>0 DEF OneLoop, Live
    <3>3. \A d : StopCloses(d) => StopCloses(d)'
      BY DEF StopCloses
    <3>4. NothingLeaks'
      BY <2>0, <2>a, <3>0 DEF OneLoop, NothingLeaks, HasConn, HasChan
    <3>5. channel = 0
      BY <2>0, <3>0 DEF OneLoop, NoChannel
    <3>6. ChannelOnConn'
      BY <3>5 DEF ChannelOnConn
    <3> QED BY <2>0, <3>1, <3>2, <3>4, <3>6 DEF OneLoop, Live, NoConn, NoChannel
  <2> QED BY <2>1, <2>2, <2>3, <2>4, <2>5 DEF IInv
<1>17. CASE OpenChannelInstall(l)
  <2> USE <1>17 DEF OpenChannelInstall
  <2>0. held[l] \in Chans
    BY DEF HandInv
  <2>1. TypeOK'
    <3>1. channel' = held[l] /\ chanClosed' = held[l] /\ chanWatch' = chanWatch \union {held[l]}
      OBVIOUS
    <3>2. channel' \in 0 .. MaxChan /\ chanClosed' \in 0 .. MaxChan /\ chanWatch' \subseteq Chans
      BY <2>0, <3>1
    <3>3. held' \in [Procs -> 0 .. MaxConn + MaxChan]
      OBVIOUS
    <3> QED BY <3>2, <3>3
  <2>2. PlaceInv'
    BY DEF PlaceInv, TearingDown
  <2>3. HandInv'
    BY DEF HandInv
  <2>4. OrderInv'
    BY DEF OrderInv, Used
  <2>5. PatientInv'
    <3> SUFFICES ASSUME Patient PROVE OneLoop'
      BY DEF PatientInv
    <3>0. OneLoop
      BY DEF PatientInv
    <3>1. \A k, m \in Loops : Live(k)' /\ Live(m)' => k = m
      BY <3>0 DEF OneLoop, Live
    <3>2. \A k \in Loops : k # l => ~Live(k)'
      BY <3>0 DEF OneLoop, Live
    <3>3. \A d : StopCloses(d) => StopCloses(d)'
      BY DEF StopCloses
    <3>4. channel = 0 /\ pc'[l] = "announce"
      BY <3>0 DEF OneLoop, NoChannel
    <3>5. NothingLeaks'
      BY <2>0, <3>0, <3>4 DEF OneLoop, NothingLeaks, HasConn, HasChan
    <3>6. ChannelOnConn'
      <4>1. chanState[held[l]] = "open" => conn = chanConn[held[l]] \/ StopCloses(chanConn[held[l]])
        BY <3>0 DEF OneLoop
      <4>2. channel' = held[l] /\ chanState' = chanState /\ conn' = conn /\ chanConn' = chanConn
        OBVIOUS
      <4>3. StopCloses(chanConn[held[l]]) => StopCloses(chanConn[channel])'
        BY <4>2 DEF StopCloses
      <4> QED BY <4>1, <4>2, <4>3 DEF ChannelOnConn
    <3> QED BY <3>1, <3>2, <3>4, <3>5, <3>6 DEF OneLoop, Live, NoConn, NoChannel
  <2> QED BY <2>1, <2>2, <2>3, <2>4, <2>5 DEF IInv
<1> QED BY <1>1, <1>2, <1>3, <1>4, <1>5, <1>6, <1>7, <1>8, <1>9, <1>10, <1>11, <1>12, <1>13, <1>14, <1>15, <1>16, <1>17 DEF LoopStep

(* A step of a teardown, by a loop or by Stop.                             *)
LEMMA TeardownStep ==
  ASSUME IInv, NEW p \in Procs, Teardown(p)
  PROVE  IInv'
<1> USE ClientAssumption, ProcsAre DEF TypeOK, Goto, runVars, handleVars, netVars, watchVars
<1>0. TypeOK /\ PlaceInv /\ HandInv /\ OrderInv /\ PatientInv
  BY DEF IInv
<1> USE <1>0
<1>1. CASE CloseChannelAnnounce(p)
  <2> USE <1>1 DEF CloseChannelAnnounce
  <2>1. TypeOK'
    OBVIOUS
  <2>2. PlaceInv'
    BY DEF PlaceInv, TearingDown
  <2>3. /\ pc[p] \notin InHand /\ pc'[p] \notin InHand /\ Live(p)
        /\ pc'[p] \notin NoConn /\ pc'[p] \notin NoChannel
    BY DEF InHand, Live, NoConn, NoChannel
  <2>4. UNCHANGED <<handleVars, netVars, held>> /\ \A q \in Procs : q # p => pc'[q] = pc[q]
    OBVIOUS
  <2> HIDE <1>1 DEF CloseChannelAnnounce, TypeOK
  <2> QED BY <2>1, <2>2, <2>3, <2>4, MoveInv
<1>2. CASE CloseChannelTake(p)
  <2> USE <1>2 DEF CloseChannelTake
  <2>0. pc'[p] \in {"tdChannelClose", "ccChannelClose"} /\ held'[p] = channel /\ channel' = 0
    OBVIOUS
  <2>1. TypeOK'
    OBVIOUS
  <2>2. PlaceInv'
    BY DEF PlaceInv, TearingDown
  <2>3. HandInv'
    BY DEF HandInv, Chans
  <2>4. OrderInv'
    BY DEF OrderInv, Used
  <2>5. PatientInv'
    <3> SUFFICES ASSUME Patient PROVE OneLoop'
      BY DEF PatientInv
    <3>0. OneLoop
      BY DEF PatientInv
    <3>1. \A k, m \in Loops : Live(k)' /\ Live(m)' => k = m
      BY <3>0 DEF OneLoop, Live
    <3>2. \A k \in Loops : k # p => pc'[k] = pc[k] /\ held'[k] = held[k]
      OBVIOUS
    <3>3. NothingLeaks'
      <4>1. \A c \in Conns : connState'[c] = "open" =>
              conn' = c \/ \E q \in Procs : HasConn(q, c)'
        BY <3>0 DEF OneLoop, NothingLeaks, HasConn
      <4>2. \A h \in Chans : chanState'[h] = "open" /\ h # channel => \E q \in Procs : HasChan(q, h)'
        BY <3>0 DEF OneLoop, NothingLeaks, HasChan
      <4>3. \A h \in Chans : h = channel => HasChan(p, h)'
        BY <2>0 DEF HasChan
      <4> QED BY <4>1, <4>2, <4>3 DEF NothingLeaks
    <3>4. ChannelOnConn'
      BY <2>0 DEF ChannelOnConn
    <3>5. \A c : StopCloses(c) => StopCloses(c)'
      BY DEF StopCloses
    <3>6. \A k \in Loops : pc'[k] \in NoConn \union {"opening", "declare"} => pc'[k] = pc[k] /\ k # p
      BY <2>0 DEF NoConn
    <3> QED BY <2>0, <3>0, <3>1, <3>2, <3>3, <3>4, <3>5, <3>6 DEF OneLoop
  <2> QED BY <2>1, <2>2, <2>3, <2>4, <2>5 DEF IInv
<1>3. CASE CloseChannelClose(p)
  <2> USE <1>3 DEF CloseChannelClose, ChanAfterClose
  <2>0. pc' = [pc EXCEPT ![p] = IF pc[p] = "tdChannelClose" THEN "tdConn" ELSE "top"]
    OBVIOUS
  <2>a. /\ \A h \in Chans : chanState'[h] = "none" <=> chanState[h] = "none"
        /\ \A h \in Chans : chanState'[h] = "open" <=> chanState[h] = "open" /\ h # held[p]
    BY DEF HandInv
  <2>1. TypeOK'
    OBVIOUS
  <2>2. PlaceInv'
    BY DEF PlaceInv, TearingDown
  <2>3. HandInv'
    BY <2>a DEF HandInv, Chans
  <2>4. OrderInv'
    <3>1. Used' = Used
      BY <2>a DEF Used
    <3> QED BY <3>1 DEF OrderInv
  <2>5. PatientInv'
    <3> SUFFICES ASSUME Patient PROVE OneLoop'
      BY DEF PatientInv
    <3>0. OneLoop
      BY DEF PatientInv
    <3>1. \A k, m \in Loops : Live(k)' /\ Live(m)' => k = m
      BY <3>0 DEF OneLoop, Live
    <3>2. \A k \in Loops : k # p => pc'[k] = pc[k] /\ held'[k] = held[k]
      OBVIOUS
    <3>3. NothingLeaks'
      BY <2>a, <3>0 DEF OneLoop, NothingLeaks, HasConn, HasChan
    <3>4. \A c : StopCloses(c) => StopCloses(c)'
      BY DEF StopCloses
    <3>5. ChannelOnConn'
      <4>1. channel # 0 => channel \in Chans
        BY DEF Chans
      <4> QED BY <2>a, <3>0, <3>4, <4>1 DEF OneLoop, ChannelOnConn
    <3>6. \A k \in Loops : /\ pc'[k] \in NoConn \union {"opening", "declare"} => pc'[k] = pc[k] /\ k # p
                           /\ pc'[k] \in NoChannel => pc[k] \in NoChannel
      BY <2>0 DEF NoConn, NoChannel
    <3>7. \A k \in Loops : pc'[k] = "declare" => held[k] \in Chans
      BY <3>6 DEF HandInv
    <3>8. \A k \in Loops : pc'[k] = "opening" /\ connState'[held'[k]] = "open" =>
            conn' = held'[k] \/ StopCloses(held[k])'
      BY <3>0, <3>2, <3>4, <3>6 DEF OneLoop
    <3>9. \A k \in Loops : pc'[k] = "declare" =>
            /\ held'[k] > chanClosed'
            /\ chanState'[held'[k]] = "open" =>
                 conn' = chanConn'[held'[k]] \/ StopCloses(chanConn[held[k]])'
      BY <2>a, <3>0, <3>2, <3>4, <3>6, <3>7 DEF OneLoop
    <3>10. \A k \in Loops : /\ pc'[k] \in NoConn => conn' = 0
                            /\ pc'[k] \in NoChannel => channel' = 0
      <4>1. UNCHANGED <<conn, channel>>
        OBVIOUS
      <4>2. \A k \in Loops : /\ pc[k] \in NoConn => conn = 0
                             /\ pc[k] \in NoChannel => channel = 0
        BY <3>0 DEF OneLoop
      <4>3. \A k \in Loops : pc'[k] \in NoConn => pc[k] \in NoConn
        BY <3>6
      <4> QED BY <3>6, <4>1, <4>2, <4>3
    <3> HIDE <1>3, <1>0 DEF CloseChannelClose, ChanAfterClose, TypeOK
    <3> QED BY <3>1, <3>3, <3>5, <3>8, <3>9, <3>10 DEF OneLoop
  <2> QED BY <2>1, <2>2, <2>3, <2>4, <2>5 DEF IInv
<1>4. CASE DropConnectionTake(p)
  <2> USE <1>4 DEF DropConnectionTake
  <2>0. /\ pc[p] \in {"tdConn", "drop"} /\ held'[p] = conn /\ conn' = 0
        /\ pc'[p] = IF pc[p] = "tdConn" THEN "tdConnClose" ELSE "dropClose"
    OBVIOUS
  <2>1. TypeOK'
    OBVIOUS
  <2>2. PlaceInv'
    BY DEF PlaceInv, TearingDown
  <2>3. HandInv'
    BY DEF HandInv
  <2>4. OrderInv'
    BY DEF OrderInv, Used
  <2>5. PatientInv'
    <3> SUFFICES ASSUME Patient PROVE OneLoop'
      BY DEF PatientInv
    <3>0. OneLoop
      BY DEF PatientInv
    <3>1. \A k, m \in Loops : Live(k)' /\ Live(m)' => k = m
      BY <3>0 DEF OneLoop, Live
    <3>2. \A k \in Loops : k # p => pc'[k] = pc[k] /\ held'[k] = held[k]
      OBVIOUS
    <3>3. NothingLeaks'
      <4>1. \A c \in Conns : connState'[c] = "open" /\ c # conn => \E q \in Procs : HasConn(q, c)'
        BY <3>0 DEF OneLoop, NothingLeaks, HasConn
      <4>2. \A c \in Conns : c = conn => HasConn(p, c)'
        BY <2>0 DEF HasConn
      <4>3. \A h \in Chans : chanState'[h] = "open" =>
              channel' = h \/ \E q \in Procs : HasChan(q, h)'
        BY <3>0 DEF OneLoop, NothingLeaks, HasChan
      <4> QED BY <4>1, <4>2, <4>3 DEF NothingLeaks
    <3>4. \A c : StopCloses(c) => StopCloses(c)'
      BY DEF StopCloses
    <3>5. p \in Callers => \A c : c = conn => StopCloses(c)'
      <4>1. p \in Callers => pc'[p] = "tdConnClose"
        BY <2>0 DEF PlaceInv, TearingDown
      <4> QED BY <2>0, <4>1 DEF StopCloses
    <3>6. p \in Loops => channel = 0 /\ pc[p] \in NoChannel /\ Live(p)
      BY <2>0, <3>0 DEF OneLoop, NoChannel, Live
    <3>7. ChannelOnConn'
      <4>1. channel = 0 \/ p \in Callers
        BY <3>6
      <4>2. p \in Callers /\ channel # 0 /\ chanState[channel] = "open" => StopCloses(chanConn[channel])'
        BY <3>0, <3>4, <3>5 DEF OneLoop, ChannelOnConn
      <4> QED BY <4>1, <4>2 DEF ChannelOnConn
    <3>8. \A k \in Loops : /\ pc'[k] \in {"opening", "declare"} => pc'[k] = pc[k] /\ k # p
                           /\ pc'[k] \in NoChannel => pc[k] \in NoChannel
      BY <2>0 DEF NoChannel
    <3>9. \A k \in Loops : pc[k] \in {"opening", "declare"} => p \in Callers
      BY <2>0, <3>0, <3>6 DEF OneLoop, Live
    <3>10. \A k \in Loops : pc'[k] = "opening" /\ connState'[held'[k]] = "open" => StopCloses(held[k])'
      BY <3>0, <3>2, <3>4, <3>5, <3>8, <3>9 DEF OneLoop
    <3>11. \A k \in Loops : pc'[k] = "declare" =>
             /\ held'[k] > chanClosed'
             /\ chanState'[held'[k]] = "open" => StopCloses(chanConn[held[k]])'
      BY <3>0, <3>2, <3>4, <3>5, <3>8, <3>9 DEF OneLoop
    <3> QED BY <2>0, <3>0, <3>1, <3>3, <3>7, <3>8, <3>10, <3>11 DEF OneLoop
  <2> QED BY <2>1, <2>2, <2>3, <2>4, <2>5 DEF IInv
<1>5. CASE DropConnectionClose(p)
  <2> USE <1>5 DEF DropConnectionClose, ConnsAfterClose, ChansAfterClose
  <2>a. /\ \A h \in Chans : chanState'[h] = "none" <=> chanState[h] = "none"
        /\ \A h \in Chans : chanState'[h] = "open" <=> chanState[h] = "open" /\ chanConn[h] # held[p]
        /\ \A c \in Conns : connState'[c] = "open" <=> connState[c] = "open" /\ c # held[p]
    OBVIOUS
  <2>b. pc' = [pc EXCEPT ![p] = IF pc[p] = "tdConnClose" THEN back[p] ELSE "dial"]
    OBVIOUS
  <2>c. pc[p] = "tdConnClose" => back[p] \in {"idle", "wait", "top"}
    BY DEF PlaceInv, TearingDown
  <2>1. TypeOK'
    BY <2>b, <2>c
  <2>2. PlaceInv'
    BY <2>b, <2>c DEF PlaceInv, TearingDown
  <2>d. \A q \in Procs : pc'[q] \in InHand => pc'[q] = pc[q] /\ q # p
    BY <2>b, <2>c DEF InHand
  <2>3. HandInv'
    BY <2>a, <2>d DEF HandInv, InHand, Chans
  <2>4. OrderInv'
    <3>1. Used' = Used
      BY <2>a DEF Used
    <3> QED BY <3>1 DEF OrderInv
  <2>5. PatientInv'
    <3> SUFFICES ASSUME Patient PROVE OneLoop'
      BY DEF PatientInv
    <3>0. OneLoop
      BY DEF PatientInv
    <3>1. \A k, m \in Loops : Live(k)' /\ Live(m)' => k = m
      BY <3>0 DEF OneLoop, Live
    <3>2. \A k \in Loops : k # p => pc'[k] = pc[k] /\ held'[k] = held[k]
      OBVIOUS
    <3>3. NothingLeaks'
      <4>1. \A c \in Conns : connState'[c] = "open" =>
              conn' = c \/ \E q \in Procs : HasConn(q, c)'
        BY <2>a, <3>0 DEF OneLoop, NothingLeaks, HasConn
      <4>2. \A h \in Chans : chanState'[h] = "open" =>
              channel' = h \/ \E q \in Procs : HasChan(q, h)'
        BY <2>a, <3>0 DEF OneLoop, NothingLeaks, HasChan
      <4> QED BY <4>1, <4>2 DEF NothingLeaks
    <3>4. \A c : StopCloses(c) => StopCloses(c)' \/ c = held[p]
      BY DEF StopCloses
    <3>5. ChannelOnConn'
      <4>1. channel # 0 => channel \in Chans
        BY DEF Chans
      <4> QED BY <2>a, <3>0, <3>4, <4>1 DEF OneLoop, ChannelOnConn
    <3>6. \A k \in Loops :
            /\ pc'[k] \in NoConn => pc[k] \in NoConn
            /\ pc'[k] \in NoChannel => pc[k] \in NoChannel
      BY <2>b, <2>c DEF NoConn, NoChannel
    <3>7. \A k \in Loops : pc'[k] \in {"opening", "declare"} => pc'[k] = pc[k] /\ k # p
      BY <2>d DEF InHand
    <3>8. \A k \in Loops : pc'[k] = "opening" => held[k] \in Conns
      BY <3>7 DEF HandInv
    <3>9. \A k \in Loops : pc'[k] = "declare" => held[k] \in Chans
      BY <3>7 DEF HandInv
    <3>10. \A k \in Loops : pc'[k] = "opening" /\ connState'[held'[k]] = "open" =>
             conn' = held'[k] \/ StopCloses(held[k])'
      BY <2>a, <3>0, <3>2, <3>4, <3>7, <3>8 DEF OneLoop
    <3>11. \A k \in Loops : pc'[k] = "declare" =>
             /\ held'[k] > chanClosed'
             /\ chanState'[held'[k]] = "open" =>
                  conn' = chanConn'[held'[k]] \/ StopCloses(chanConn[held[k]])'
      BY <2>a, <3>0, <3>2, <3>4, <3>7, <3>9 DEF OneLoop
    <3> QED BY <3>0, <3>1, <3>2, <3>3, <3>5, <3>6, <3>7, <3>10, <3>11 DEF OneLoop
  <2> QED BY <2>1, <2>2, <2>3, <2>4, <2>5 DEF IInv
<1> QED BY <1>1, <1>2, <1>3, <1>4, <1>5 DEF Teardown

(* A call of Start or Stop.                                                *)
LEMMA CallStep ==
  ASSUME IInv, NEW u \in Callers, Start(u) \/ Stop(u)
  PROVE  IInv'
<1> USE ClientAssumption, ProcsAre DEF TypeOK, Goto, runVars, handleVars, netVars, watchVars
<1>0. TypeOK /\ PlaceInv /\ HandInv /\ OrderInv /\ PatientInv
  BY DEF IInv
<1> USE <1>0
<1>1. CASE Start(u)
  <2> USE <1>1 DEF Start
  <2>0. done + 1 \in Loops /\ done + 1 \in 0 .. MaxStart /\ done + 1 \notin stoppedGens
    BY DEF Loops, PlaceInv
  <2>1. TypeOK'
    BY <2>0
  <2>2. PlaceInv'
    <3>1. stoppedGens' \subseteq 1 .. done'
      BY DEF PlaceInv
    <3>2. \A q \in Procs : q # done + 1 => pc'[q] = pc[q]
      OBVIOUS
    <3>3. done + 1 \notin Callers /\ pc'[done + 1] = "top"
      BY <2>0
    <3> QED BY <3>1, <3>2, <3>3 DEF PlaceInv, TearingDown
  <2>3. HandInv'
    BY DEF HandInv
  <2>4. OrderInv'
    BY DEF OrderInv, Used
  <2>5. PatientInv'
    <3> SUFFICES ASSUME Patient PROVE OneLoop'
      BY DEF PatientInv
    <3>0. OneLoop
      BY DEF PatientInv
    <3>1. conn = 0 /\ channel = 0 /\ \A l \in Loops : pc[l] \in {"unborn", "exit"}
      OBVIOUS
    <3>2. pc' = [pc EXCEPT ![done + 1] = "top"] /\ UNCHANGED <<handleVars, netVars, held>>
      OBVIOUS
    <3>3. \A l \in Loops : pc'[l] \in {"unborn", "exit", "top"} /\ (Live(l)' => l = done + 1)
      BY <3>1, <3>2 DEF Live
    <3>4. \A q \in Procs : q # done + 1 => pc'[q] = pc[q]
      BY <3>2
    <3>5. pc[done + 1] \in {"unborn", "exit"}
      BY <2>0, <3>1
    <3>6. NothingLeaks'
      BY <3>0, <3>2, <3>4, <3>5 DEF OneLoop, NothingLeaks, HasConn, HasChan
    <3>7. ChannelOnConn'
      BY <3>1, <3>2 DEF ChannelOnConn
    <3> QED BY <3>1, <3>2, <3>3, <3>6, <3>7 DEF OneLoop, NoConn, NoChannel
  <2> QED BY <2>1, <2>2, <2>3, <2>4, <2>5 DEF IInv
<1>2. CASE Stop(u)
  <2> USE <1>2 DEF Stop
  <2>1. TypeOK'
    OBVIOUS
  <2>2. PlaceInv'
    <3>1. stoppedGens' \subseteq 1 .. done'
      BY DEF PlaceInv, Loops
    <3> QED BY <3>1 DEF PlaceInv, TearingDown
  <2>3. pc[u] \notin InHand /\ pc'[u] \notin InHand /\ u \notin Loops
    BY DEF InHand
  <2>4. UNCHANGED <<handleVars, netVars, held>> /\ \A q \in Procs : q # u => pc'[q] = pc[q]
    OBVIOUS
  <2> HIDE <1>2 DEF Stop, TypeOK
  <2> QED BY <2>1, <2>2, <2>3, <2>4, MoveInv
<1> QED BY <1>1, <1>2

(* A watcher wakes, the broker or the network closes something, or the     *)
(* context ends: nothing opens and no handle is stored.                    *)
LEMMA EnvironmentStep ==
  ASSUME IInv,
         \/ \E c \in Conns : WatchConn(c) \/ ConnBreaks(c)
         \/ \E h \in Chans : WatchChan(h) \/ ChanBreaks(h)
         \/ Cancel \/ UNCHANGED vars
  PROVE  IInv'
<1> USE DEF runVars, handleVars, netVars, watchVars
<1>1. ASSUME TypeOK', UNCHANGED <<done, stoppedGens, handleVars, chanConn, pc, back, held>>,
             \A c \in Conns : connState'[c] = "open" => connState[c] = "open",
             \A h \in Chans :
               /\ chanState'[h] = "open" => chanState[h] = "open"
               /\ chanState'[h] = "none" <=> chanState[h] = "none"
      PROVE  IInv'
  <2> USE <1>1 DEF IInv
  <2>1. PlaceInv'
    BY DEF PlaceInv
  <2>2. HandInv'
    BY ProcsAre DEF HandInv, TypeOK, Chans
  <2>3. OrderInv'
    <3>1. Used' = Used
      BY DEF Used
    <3> QED BY <3>1 DEF OrderInv
  <2>4. PatientInv'
    <3> SUFFICES ASSUME Patient PROVE OneLoop'
      BY DEF PatientInv
    <3>0. OneLoop
      BY DEF PatientInv
    <3>1. channel # 0 => channel \in Chans
      BY DEF TypeOK, Chans
    <3>2. \A c : StopCloses(c)' <=> StopCloses(c)
      BY DEF StopCloses
    <3>3. NothingLeaks'
      BY <3>0 DEF OneLoop, NothingLeaks, HasConn, HasChan
    <3>4. ChannelOnConn'
      BY <3>0, <3>1, <3>2 DEF OneLoop, ChannelOnConn
    <3>5. \A l \in Loops : /\ pc[l] = "opening" => held[l] \in Conns
                           /\ pc[l] = "declare" => held[l] \in Chans
      BY DEF HandInv
    <3>6. \A l \in Loops : pc'[l] = "opening" /\ connState'[held'[l]] = "open" =>
            conn' = held'[l] \/ StopCloses(held[l])'
      <4> SUFFICES ASSUME NEW l \in Loops, pc'[l] = "opening", connState'[held'[l]] = "open"
                   PROVE  conn' = held'[l] \/ StopCloses(held[l])'
        OBVIOUS
      <4>1. pc[l] = "opening" /\ held'[l] = held[l] /\ connState[held[l]] = "open" /\ conn' = conn
        BY <3>5
      <4>2. StopCloses(held[l]) => StopCloses(held[l])'
        BY DEF StopCloses
      <4> QED BY <3>0, <4>1, <4>2 DEF OneLoop
    <3>7. \A l \in Loops : pc'[l] = "declare" /\ chanState'[held'[l]] = "open" =>
            conn' = chanConn'[held'[l]] \/ StopCloses(chanConn[held[l]])'
      BY <3>0, <3>2, <3>5 DEF OneLoop
    <3> QED BY <3>0, <3>3, <3>4, <3>6, <3>7 DEF OneLoop, Live
  <2> QED BY <2>1, <2>2, <2>3, <2>4
<1>2. ASSUME NEW c \in Conns, WatchConn(c) PROVE IInv'
  BY <1>1, <1>2 DEF WatchConn, IInv, TypeOK
<1>3. ASSUME NEW c \in Conns, ConnBreaks(c) PROVE IInv'
  <2> USE <1>3, ClientAssumption DEF ConnBreaks, ConnsAfterClose, ChansAfterClose, Fault, IInv
  <2>1. TypeOK'
    BY DEF TypeOK
  <2> QED BY <1>1, <2>1 DEF TypeOK
<1>4. ASSUME NEW h \in Chans, WatchChan(h) PROVE IInv'
  BY <1>1, <1>4 DEF WatchChan, IInv, TypeOK
<1>5. ASSUME NEW h \in Chans, ChanBreaks(h) PROVE IInv'
  <2> USE <1>5, ClientAssumption DEF ChanBreaks, Fault, IInv
  <2>1. TypeOK'
    BY DEF TypeOK
  <2> QED BY <1>1, <2>1 DEF TypeOK
<1>6. CASE Cancel
  BY <1>1, <1>6 DEF Cancel, IInv, TypeOK
<1>7. CASE UNCHANGED vars
  BY <1>1, <1>7 DEF vars, IInv, TypeOK
<1> QED BY <1>2, <1>3, <1>4, <1>5, <1>6, <1>7

(* IInv is inductive.                                                      *)
LEMMA IInvStep == IInv /\ [Next]_vars => IInv'
BY CallStep, LoopStepInv, TeardownStep, EnvironmentStep, ProcsAre DEF Next, LoopStep

(* IInv holds of every reachable state.                                    *)
THEOREM Invariance == Spec => []IInv
<1> QED BY InitIInv, IInvStep, PTL DEF Spec

(* Every variable keeps its type, also when Start does not wait for the    *)
(* last loop.                                                              *)
THEOREM TypeCorrect == Spec => []TypeOK
<1>1. IInv => TypeOK
  BY DEF IInv
<1> QED BY <1>1, Invariance, PTL

(* No failure, Stop or restart makes the client lose a connection or a     *)
(* channel it will have to close, if Start waits for the last loop.        *)
THEOREM HandlesAreKept ==
  ASSUME Patient
  PROVE  Spec => []NothingLeaks
<1>1. IInv => NothingLeaks
  BY DEF IInv, PatientInv, OneLoop
<1> QED BY <1>1, Invariance, PTL

(* A channel users can publish on is one of the client's connection, or of *)
(* one that a Stop is just closing, whatever the loop did between the two  *)
(* locks of its teardown, if Start waits for the last loop.                *)
THEOREM ChannelIsCurrent ==
  ASSUME Patient
  PROVE  Spec => []ChannelOnConn
<1>1. IInv => ChannelOnConn
  BY DEF IInv, PatientInv, OneLoop
<1> QED BY <1>1, Invariance, PTL

----------------------------------------------------------------------------
(* A step that leaves the channels alone is none of ChannelLife; the others*)
(* open, store, take away or close channels there.                         *)
LEMMA LifeStep ==
  ASSUME Patient, IInv, [Next]_vars
  PROVE  [Life!LifeNext]_(Life!lifeVars)
<1> DEFINE Stutters == UNCHANGED <<channel, chanClosed, chanState>>
<1> USE DEF runVars, handleVars, netVars, watchVars
<1>0. Stutters => [Life!LifeNext]_(Life!lifeVars)
  BY DEF Life!lifeVars
<1>1. TypeOK /\ HandInv /\ OneLoop
  BY DEF IInv, PatientInv
<1>2. ASSUME NEW l \in Loops, OpenChannelOk(l) PROVE Life!LifeNext
  <2>1. PICK h \in Chans : FreshChan(h) /\ chanState' = [chanState EXCEPT ![h] = "open"]
    BY <1>2 DEF OpenChannelOk
  <2>2. chanState[h] = "none" /\ Used = 1 .. (h - 1)
    BY <2>1, FreshIsNext DEF IInv
  <2>3. \A g \in Chans : g < h => chanState[g] # "none"
    <3>1. \A g \in Chans : g < h => g \in 1 .. (h - 1)
      BY DEF Chans
    <3> QED BY <2>2, <3>1 DEF Used
  <2>4. Life!Open(h)
    BY <1>2, <2>1, <2>2, <2>3 DEF OpenChannelOk, Life!Open, Life!Chans, Chans
  <2> QED BY <2>4 DEF Life!LifeNext, Life!Chans, Chans
<1>3. ASSUME NEW l \in Loops, OpenChannelInstall(l) PROVE Life!LifeNext
  <2>1. held[l] \in Chans /\ chanState[held[l]] # "none" /\ held[l] > chanClosed /\ channel = 0
    BY <1>1, <1>3 DEF OpenChannelInstall, HandInv, OneLoop, NoChannel
  <2>2. Life!Install(held[l])
    BY <1>3, <2>1 DEF OpenChannelInstall, Life!Install
  <2> QED BY <2>1, <2>2 DEF Life!LifeNext, Life!Chans, Chans
<1>4. ASSUME NEW p \in Procs, CloseChannelTake(p) PROVE [Life!LifeNext]_(Life!lifeVars)
  <2>1. CASE channel = 0
    BY <1>0, <1>4, <2>1 DEF CloseChannelTake
  <2>2. CASE channel # 0
    <3>1. Life!Drop
      BY <1>4, <2>2 DEF CloseChannelTake, Life!Drop
    <3> QED BY <3>1 DEF Life!LifeNext
  <2> QED BY <2>1, <2>2
<1>5. ASSUME NEW c, chanState' = ChansAfterClose(c), UNCHANGED <<channel, chanClosed>>
      PROVE  Life!LifeNext
  <2> DEFINE S == {h \in Chans : chanConn[h] = c}
  <2>1. S \in SUBSET Life!Chans /\ Life!Break(S)
    BY <1>5 DEF ChansAfterClose, Life!Break, Life!Closed, Life!Chans, Chans
  <2> QED BY <2>1 DEF Life!LifeNext
<1>6. ASSUME NEW h, h = 0 \/ (h \in Chans /\ chanState[h] # "none"),
             chanState' = ChanAfterClose(h), UNCHANGED <<channel, chanClosed>>
      PROVE  Life!LifeNext
  <2> DEFINE S == {h} \cap Chans
  <2>1. chanState' = Life!Closed(S)
    BY <1>1, <1>6 DEF ChanAfterClose, TypeOK, Life!Closed, Life!Chans, Chans
  <2>2. S \in SUBSET Life!Chans /\ Life!Break(S)
    BY <1>6, <2>1 DEF Life!Break, Life!Chans, Chans
  <2> QED BY <2>2 DEF Life!LifeNext
<1>7. ASSUME NEW p \in Procs, Teardown(p) PROVE [Life!LifeNext]_(Life!lifeVars)
  <2>1. CASE CloseChannelAnnounce(p) \/ DropConnectionTake(p)
    BY <1>0, <2>1 DEF CloseChannelAnnounce, DropConnectionTake
  <2>2. CASE CloseChannelClose(p)
    <3>1. held[p] = 0 \/ (held[p] \in Chans /\ chanState[held[p]] # "none")
      BY <1>1, <2>2 DEF CloseChannelClose, HandInv
    <3> QED BY <1>6, <2>2, <3>1 DEF CloseChannelClose
  <2>3. CASE DropConnectionClose(p)
    BY <1>5, <2>3 DEF DropConnectionClose
  <2> QED BY <1>4, <1>7, <2>1, <2>2, <2>3 DEF Teardown
<1>14. ASSUME NEW h \in Chans, ChanBreaks(h) PROVE Life!LifeNext
  <2>1. chanState' = ChanAfterClose(h)
    BY <1>1, <1>14 DEF ChanBreaks, TypeOK, ChanAfterClose
  <2> QED BY <1>6, <1>14, <2>1 DEF ChanBreaks
<1>15. ASSUME NEW l \in Loops, OpenChannelFails(l) PROVE [Life!LifeNext]_(Life!lifeVars)
  <2>1. CASE chanState' = chanState
    BY <1>0, <1>15, <2>1 DEF OpenChannelFails
  <2>2. CASE pc[l] = "declare" /\ chanState' = ChanAfterClose(held[l])
    <3>1. held[l] \in Chans /\ chanState[held[l]] # "none"
      BY <1>1, <2>2 DEF HandInv
    <3> QED BY <1>6, <1>15, <2>2, <3>1 DEF OpenChannelFails
  <2> QED BY <1>15, <2>1, <2>2 DEF OpenChannelFails
<1>8. ASSUME NEW l \in Loops, LoopStep(l) PROVE [Life!LifeNext]_(Life!lifeVars)
  <2>1. CASE OpenChannelOk(l) \/ OpenChannelInstall(l) \/ OpenChannelFails(l) \/ Teardown(l)
    BY <1>2, <1>3, <1>7, <1>15, <2>1, ProcsAre
  <2>2. CASE LoopTop(l) \/ LoopCheck(l) \/ DialOk(l) \/ DialFails(l) \/ DialInstall(l)
    BY <1>0, <2>2 DEF LoopTop, LoopCheck, DialOk, DialFails, DialInstall
  <2>3. CASE OpenChannelRead(l) \/ LoopAnnounce(l) \/ LoopCapture(l)
    BY <1>0, <2>3 DEF OpenChannelRead, LoopAnnounce, LoopCapture
  <2>4. CASE SelectStop(l) \/ SelectConn(l) \/ SelectChan(l)
    BY <1>0, <2>4 DEF SelectStop, SelectConn, SelectChan
  <2>5. CASE WaitEnter(l) \/ WaitStop(l) \/ WaitTimer(l)
    BY <1>0, <2>5 DEF WaitEnter, WaitStop, WaitTimer
  <2> QED BY <1>8, <2>1, <2>2, <2>3, <2>4, <2>5 DEF LoopStep
<1>9. ASSUME NEW u \in Callers, Start(u) \/ Stop(u) PROVE Stutters
  BY <1>9 DEF Start, Stop
<1>10. ASSUME NEW c \in Conns, ConnBreaks(c) PROVE Life!LifeNext
  BY <1>5, <1>10 DEF ConnBreaks
<1>11. ASSUME NEW c \in Conns, WatchConn(c) PROVE Stutters
  BY <1>11 DEF WatchConn
<1>12. ASSUME NEW h \in Chans, WatchChan(h) PROVE Stutters
  BY <1>12 DEF WatchChan
<1>13. CASE Cancel \/ UNCHANGED vars
  BY <1>0, <1>13 DEF Cancel, vars
<1> QED
  BY <1>0, <1>7, <1>8, <1>9, <1>10, <1>11, <1>12, <1>13, <1>14, ProcsAre DEF Next

(* The client implements ChannelLife, what RabbitOps takes it for: one     *)
(* channel at a time is shown, each once, in the order they were opened,   *)
(* and a closed one stays closed, if Start waits for the last loop.        *)
THEOREM ImplementsLife ==
  ASSUME Patient
  PROVE  Spec => RefinesLife
<1>1. Init => Life!LifeInit
  BY DEF Init, Life!LifeInit, Life!Chans, Chans
<1>2. IInv /\ [Next]_vars => [Life!LifeNext]_(Life!lifeVars)
  BY LifeStep
<1> QED BY <1>1, <1>2, Invariance, PTL DEF Spec, RefinesLife, Life!LifeSpec
=============================================================================

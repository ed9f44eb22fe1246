--------------------------- MODULE EventBusProofs ---------------------------
(***************************************************************************)
(* Theorems about EventBus, for any sets of subscriptions, workers,        *)
(* publishers (handlers that publish included) and users, any buffer and   *)
(* any number of calls.  The inductive invariant is IInv; each of its      *)
(* parts has a lemma with one step per action.                             *)
(***************************************************************************)
EXTENDS EventBus, TLAPS

(* The initial states satisfy the inductive invariant.                     *)
LEMMA InitIInv == Init => IInv
<1> SUFFICES ASSUME Init PROVE IInv
  OBVIOUS
<1> USE BusAssumption DEF Init, LockInit
<1>1. TypeOK
  <2>1. chan \in [Subs -> Seq(Value)] /\ \A s \in Subs : Len(chan[s]) <= BufferSize
    OBVIOUS
  <2>2. published \in [Publishers -> 0 .. MaxPublish]
    OBVIOUS
  <2> QED BY <2>1, <2>2 DEF TypeOK
<1>2. RangeInv /\ NoSendOnClosed
  BY DEF RangeInv, NoSendOnClosed
<1>3. ClosedInv /\ ExitInv
  BY DEF ClosedInv, ExitInv
<1>4. OnceInv
  BY DEF OnceInv, Calls
<1>5. WatchInv /\ NoOrphanAfterCancel
  BY DEF WatchInv, NoOrphanAfterCancel
<1>6. DeliveryInv /\ AtMostOnce
  BY DEF DeliveryInv, AtMostOnce, Accepted, Range
<1> QED BY <1>1, <1>2, <1>3, <1>4, <1>5, <1>6 DEF IInv

(* Every step keeps the types, and no send overfills a channel.            *)
LEMMA TypeStep == TypeOK /\ RangeInv /\ [Next]_vars => TypeOK'
<1> SUFFICES ASSUME TypeOK, RangeInv, [Next]_vars PROVE TypeOK'
  OBVIOUS
<1> USE BusAssumption DEF TypeOK, lockVars, chanVars, subVars, unsubVars, pubVars, watchVars
<1>1. ASSUME NEW s \in Subs, SubscribeLock(s) PROVE TypeOK'
  BY <1>1 DEF SubscribeLock, Announce, Writers, SubscribeWriter
<1>2. ASSUME NEW s \in Subs, SubscribeRegister(s) PROVE TypeOK'
  BY <1>2 DEF SubscribeRegister, Unlock
<1>3. ASSUME NEW s \in Subs, SubscribeReturn(s) PROVE TypeOK'
  BY <1>3 DEF SubscribeReturn
<1>4. ASSUME NEW s \in Subs, NEW u \in Users, UnsubCall(s, u) PROVE TypeOK'
  BY <1>4 DEF UnsubCall
<1>5. ASSUME NEW s \in Subs, NEW c \in Callers, OnceFirst(s, c) PROVE TypeOK'
  BY <1>5 DEF OnceFirst
<1>6. ASSUME NEW s \in Subs, NEW c \in Callers, OnceAgain(s, c) PROVE TypeOK'
  BY <1>6 DEF OnceAgain
<1>7. ASSUME NEW s \in Subs, NEW c \in Callers, UnsubLock(s, c) PROVE TypeOK'
  BY <1>7 DEF UnsubLock, Announce, Writers, UnsubWriter
<1>8. ASSUME NEW s \in Subs, NEW c \in Callers, UnsubClose(s, c) PROVE TypeOK'
  BY <1>8 DEF UnsubClose, Unlock, CloseChannel
<1>9. ASSUME NEW s \in Subs, NEW c \in Callers, UnsubReturn(s, c) PROVE TypeOK'
  BY <1>9 DEF UnsubReturn
<1>10. ASSUME NEW p \in Publishers, PublishCall(p) PROVE TypeOK'
  BY <1>10 DEF PublishCall, RLock
<1>11. ASSUME NEW p \in Publishers, PublishRange(p) PROVE TypeOK'
  BY <1>11 DEF PublishRange
<1>12. ASSUME NEW p \in Publishers, NEW s \in Subs, PublishPick(p, s) PROVE TypeOK'
  BY <1>12 DEF PublishPick, Unvisited
<1>13. ASSUME NEW p \in Publishers, NEW s \in Subs, PublishSend(p, s) PROVE TypeOK'
  <2>0. pubPc[p] = "range" /\ published[p] > 0
    BY <1>13 DEF PublishSend, RangeInv
  <2>1. published[p] \in 1 .. MaxPublish
    BY <2>0
  <2>2. CASE s \in closed
    BY <2>2, <1>13 DEF PublishSend, RUnlock
  <2>3. CASE s \notin closed
    <3>1. <<p, published[p]>> \in Value
      BY <2>1 DEF Value
    <3>2. /\ chan' = [chan EXCEPT ![s] = Append(@, <<p, published[p]>>)]
          /\ Len(chan[s]) < BufferSize
          /\ UNCHANGED <<pubPc, todo, readers, blocked, writer>>
      BY <2>3, <1>13 DEF PublishSend, HasRoom
    <3>3. /\ chan' \in [Subs -> Seq(Value)]
          /\ \A t \in Subs : Len(chan'[t]) <= BufferSize
      BY <3>1, <3>2
    <3> QED BY <2>3, <3>2, <3>3, <1>13 DEF PublishSend
  <2> QED BY <2>2, <2>3
<1>14. ASSUME NEW p \in Publishers, PublishFinish(p) PROVE TypeOK'
  BY <1>14 DEF PublishFinish, RangeIsOver, RUnlock
<1>15. ASSUME NEW s \in Subs, NEW w \in Workers, WorkerTake(s, w) PROVE TypeOK'
  BY <1>15 DEF WorkerTake, Pool
<1>16. ASSUME NEW s \in Subs, NEW w \in Workers, FnReturn(s, w) PROVE TypeOK'
  BY <1>16 DEF FnReturn
<1>17. ASSUME NEW s \in Subs, NEW w \in Workers, WorkerExit(s, w) PROVE TypeOK'
  BY <1>17 DEF WorkerExit, Pool
<1>18. CASE Cancel
  BY <1>18 DEF Cancel
<1>19. CASE WatchLock
  BY <1>19 DEF WatchLock, Announce, Writers
<1>20. CASE WatchCollect
  BY <1>20 DEF WatchCollect, Unlock
<1>21. CASE WatchReturn
  BY <1>21 DEF WatchReturn
<1>22. CASE UNCHANGED vars
  BY <1>22 DEF vars
<1> QED
  BY <1>1, <1>2, <1>3, <1>4, <1>5, <1>6, <1>7, <1>8, <1>9, <1>10, <1>11, <1>12, <1>13,
     <1>14, <1>15, <1>16, <1>17, <1>18, <1>19, <1>20, <1>21, <1>22
     DEF Next, SubscribeStep, UnsubStep, WorkerStep, PublishStep, WatchStep, Callers

(* No step registers or closes under a range: Holds excludes readers.       *)
LEMMA RangeStep == TypeOK /\ RangeInv /\ [Next]_vars => RangeInv'
<1> SUFFICES ASSUME TypeOK, RangeInv, [Next]_vars PROVE RangeInv'
  OBVIOUS
<1> USE DEF TypeOK, RangeInv, lockVars, chanVars, subVars, unsubVars, pubVars, watchVars
<1>1. ASSUME NEW s \in Subs, SubscribeLock(s) PROVE RangeInv'
  BY <1>1 DEF SubscribeLock, Announce
<1>2. ASSUME NEW s \in Subs, SubscribeRegister(s) PROVE RangeInv'
  BY <1>2 DEF SubscribeRegister, Holds, Unlock
<1>3. ASSUME NEW s \in Subs, SubscribeReturn(s) PROVE RangeInv'
  BY <1>3 DEF SubscribeReturn
<1>4. ASSUME NEW s \in Subs, NEW u \in Users, UnsubCall(s, u) PROVE RangeInv'
  BY <1>4 DEF UnsubCall
<1>5. ASSUME NEW s \in Subs, NEW c \in Callers, OnceFirst(s, c) PROVE RangeInv'
  BY <1>5 DEF OnceFirst
<1>6. ASSUME NEW s \in Subs, NEW c \in Callers, OnceAgain(s, c) PROVE RangeInv'
  BY <1>6 DEF OnceAgain, OnceIsOver
<1>7. ASSUME NEW s \in Subs, NEW c \in Callers, UnsubLock(s, c) PROVE RangeInv'
  BY <1>7 DEF UnsubLock, Announce
<1>8. ASSUME NEW s \in Subs, NEW c \in Callers, UnsubClose(s, c) PROVE RangeInv'
  BY <1>8 DEF UnsubClose, Holds, Unlock, CloseChannel
<1>9. ASSUME NEW s \in Subs, NEW c \in Callers, UnsubReturn(s, c) PROVE RangeInv'
  BY <1>9 DEF UnsubReturn, Joined
<1>10. ASSUME NEW p \in Publishers, PublishCall(p) PROVE RangeInv'
  BY <1>10 DEF PublishCall, RLock
<1>11. ASSUME NEW p \in Publishers, PublishRange(p) PROVE RangeInv'
  BY <1>11 DEF PublishRange
<1>12. ASSUME NEW p \in Publishers, NEW s \in Subs, PublishPick(p, s) PROVE RangeInv'
  BY <1>12 DEF PublishPick, Unvisited
<1>13. ASSUME NEW p \in Publishers, NEW s \in Subs, PublishSend(p, s) PROVE RangeInv'
  BY <1>13 DEF PublishSend, RUnlock
<1>14. ASSUME NEW p \in Publishers, PublishFinish(p) PROVE RangeInv'
  BY <1>14 DEF PublishFinish, RangeIsOver, RUnlock
<1>15. ASSUME NEW s \in Subs, NEW w \in Workers, WorkerTake(s, w) PROVE RangeInv'
  BY <1>15 DEF WorkerTake
<1>16. ASSUME NEW s \in Subs, NEW w \in Workers, FnReturn(s, w) PROVE RangeInv'
  BY <1>16 DEF FnReturn
<1>17. ASSUME NEW s \in Subs, NEW w \in Workers, WorkerExit(s, w) PROVE RangeInv'
  BY <1>17 DEF WorkerExit, MayExit
<1>18. CASE Cancel
  BY <1>18 DEF Cancel
<1>19. CASE WatchLock
  BY <1>19 DEF WatchLock, Announce
<1>20. CASE WatchCollect
  BY <1>20 DEF WatchCollect, Unlock
<1>21. CASE WatchReturn
  BY <1>21 DEF WatchReturn
<1>22. CASE UNCHANGED vars
  BY <1>22 DEF vars
<1> QED
  BY <1>1, <1>2, <1>3, <1>4, <1>5, <1>6, <1>7, <1>8, <1>9, <1>10, <1>11, <1>12, <1>13,
     <1>14, <1>15, <1>16, <1>17, <1>18, <1>19, <1>20, <1>21, <1>22
     DEF Next, SubscribeStep, UnsubStep, WorkerStep, PublishStep, WatchStep, Callers

(* A subscription is registered once, before its channel is closed.         *)
LEMMA ClosedStep == TypeOK /\ ClosedInv /\ [Next]_vars => ClosedInv'
<1> SUFFICES ASSUME TypeOK, ClosedInv, [Next]_vars PROVE ClosedInv'
  OBVIOUS
<1> USE DEF TypeOK, ClosedInv, lockVars, chanVars, subVars, unsubVars, pubVars, watchVars
<1>1. ASSUME NEW s \in Subs, SubscribeLock(s) PROVE ClosedInv'
  BY <1>1 DEF SubscribeLock, Announce
<1>2. ASSUME NEW s \in Subs, SubscribeRegister(s) PROVE ClosedInv'
  BY <1>2 DEF SubscribeRegister, Holds, Unlock
<1>3. ASSUME NEW s \in Subs, SubscribeReturn(s) PROVE ClosedInv'
  BY <1>3 DEF SubscribeReturn
<1>4. ASSUME NEW s \in Subs, NEW u \in Users, UnsubCall(s, u) PROVE ClosedInv'
  BY <1>4 DEF UnsubCall
<1>5. ASSUME NEW s \in Subs, NEW c \in Callers, OnceFirst(s, c) PROVE ClosedInv'
  BY <1>5 DEF OnceFirst
<1>6. ASSUME NEW s \in Subs, NEW c \in Callers, OnceAgain(s, c) PROVE ClosedInv'
  BY <1>6 DEF OnceAgain, OnceIsOver
<1>7. ASSUME NEW s \in Subs, NEW c \in Callers, UnsubLock(s, c) PROVE ClosedInv'
  BY <1>7 DEF UnsubLock, Announce
<1>8. ASSUME NEW s \in Subs, NEW c \in Callers, UnsubClose(s, c) PROVE ClosedInv'
  BY <1>8 DEF UnsubClose, Holds, Unlock, CloseChannel
<1>9. ASSUME NEW s \in Subs, NEW c \in Callers, UnsubReturn(s, c) PROVE ClosedInv'
  BY <1>9 DEF UnsubReturn, Joined
<1>10. ASSUME NEW p \in Publishers, PublishCall(p) PROVE ClosedInv'
  BY <1>10 DEF PublishCall, RLock
<1>11. ASSUME NEW p \in Publishers, PublishRange(p) PROVE ClosedInv'
  BY <1>11 DEF PublishRange
<1>12. ASSUME NEW p \in Publishers, NEW s \in Subs, PublishPick(p, s) PROVE ClosedInv'
  BY <1>12 DEF PublishPick, Unvisited
<1>13. ASSUME NEW p \in Publishers, NEW s \in Subs, PublishSend(p, s) PROVE ClosedInv'
  BY <1>13 DEF PublishSend, RUnlock
<1>14. ASSUME NEW p \in Publishers, PublishFinish(p) PROVE ClosedInv'
  BY <1>14 DEF PublishFinish, RangeIsOver, RUnlock
<1>15. ASSUME NEW s \in Subs, NEW w \in Workers, WorkerTake(s, w) PROVE ClosedInv'
  BY <1>15 DEF WorkerTake
<1>16. ASSUME NEW s \in Subs, NEW w \in Workers, FnReturn(s, w) PROVE ClosedInv'
  BY <1>16 DEF FnReturn
<1>17. ASSUME NEW s \in Subs, NEW w \in Workers, WorkerExit(s, w) PROVE ClosedInv'
  BY <1>17 DEF WorkerExit, MayExit
<1>18. CASE Cancel
  BY <1>18 DEF Cancel
<1>19. CASE WatchLock
  BY <1>19 DEF WatchLock, Announce
<1>20. CASE WatchCollect
  BY <1>20 DEF WatchCollect, Unlock
<1>21. CASE WatchReturn
  BY <1>21 DEF WatchReturn
<1>22. CASE UNCHANGED vars
  BY <1>22 DEF vars
<1> QED
  BY <1>1, <1>2, <1>3, <1>4, <1>5, <1>6, <1>7, <1>8, <1>9, <1>10, <1>11, <1>12, <1>13,
     <1>14, <1>15, <1>16, <1>17, <1>18, <1>19, <1>20, <1>21, <1>22
     DEF Next, SubscribeStep, UnsubStep, WorkerStep, PublishStep, WatchStep, Callers

(* Nothing enters a channel some worker has left.                          *)
LEMMA ExitStep == TypeOK /\ ExitInv /\ [Next]_vars => ExitInv'
<1> SUFFICES ASSUME TypeOK, ExitInv, [Next]_vars PROVE ExitInv'
  OBVIOUS
<1> USE DEF TypeOK, ExitInv, Pool, lockVars, chanVars, subVars, unsubVars, pubVars, watchVars
<1>1. ASSUME NEW s \in Subs, SubscribeLock(s) PROVE ExitInv'
  BY <1>1 DEF SubscribeLock, Announce
<1>2. ASSUME NEW s \in Subs, SubscribeRegister(s) PROVE ExitInv'
  BY <1>2 DEF SubscribeRegister, Holds, Unlock
<1>3. ASSUME NEW s \in Subs, SubscribeReturn(s) PROVE ExitInv'
  BY <1>3 DEF SubscribeReturn
<1>4. ASSUME NEW s \in Subs, NEW u \in Users, UnsubCall(s, u) PROVE ExitInv'
  BY <1>4 DEF UnsubCall
<1>5. ASSUME NEW s \in Subs, NEW c \in Callers, OnceFirst(s, c) PROVE ExitInv'
  BY <1>5 DEF OnceFirst
<1>6. ASSUME NEW s \in Subs, NEW c \in Callers, OnceAgain(s, c) PROVE ExitInv'
  BY <1>6 DEF OnceAgain, OnceIsOver
<1>7. ASSUME NEW s \in Subs, NEW c \in Callers, UnsubLock(s, c) PROVE ExitInv'
  BY <1>7 DEF UnsubLock, Announce
<1>8. ASSUME NEW s \in Subs, NEW c \in Callers, UnsubClose(s, c) PROVE ExitInv'
  BY <1>8 DEF UnsubClose, Holds, Unlock, CloseChannel
<1>9. ASSUME NEW s \in Subs, NEW c \in Callers, UnsubReturn(s, c) PROVE ExitInv'
  BY <1>9 DEF UnsubReturn, Joined
<1>10. ASSUME NEW p \in Publishers, PublishCall(p) PROVE ExitInv'
  BY <1>10 DEF PublishCall, RLock
<1>11. ASSUME NEW p \in Publishers, PublishRange(p) PROVE ExitInv'
  BY <1>11 DEF PublishRange
<1>12. ASSUME NEW p \in Publishers, NEW s \in Subs, PublishPick(p, s) PROVE ExitInv'
  BY <1>12 DEF PublishPick, Unvisited
<1>13. ASSUME NEW p \in Publishers, NEW s \in Subs, PublishSend(p, s) PROVE ExitInv'
  BY <1>13 DEF PublishSend, RUnlock
<1>14. ASSUME NEW p \in Publishers, PublishFinish(p) PROVE ExitInv'
  BY <1>14 DEF PublishFinish, RangeIsOver, RUnlock
<1>15. ASSUME NEW s \in Subs, NEW w \in Workers, WorkerTake(s, w) PROVE ExitInv'
  BY <1>15 DEF WorkerTake
<1>16. ASSUME NEW s \in Subs, NEW w \in Workers, FnReturn(s, w) PROVE ExitInv'
  BY <1>16 DEF FnReturn
<1>17. ASSUME NEW s \in Subs, NEW w \in Workers, WorkerExit(s, w) PROVE ExitInv'
  BY <1>17 DEF WorkerExit, MayExit
<1>18. CASE Cancel
  BY <1>18 DEF Cancel
<1>19. CASE WatchLock
  BY <1>19 DEF WatchLock, Announce
<1>20. CASE WatchCollect
  BY <1>20 DEF WatchCollect, Unlock
<1>21. CASE WatchReturn
  BY <1>21 DEF WatchReturn
<1>22. CASE UNCHANGED vars
  BY <1>22 DEF vars
<1> QED
  BY <1>1, <1>2, <1>3, <1>4, <1>5, <1>6, <1>7, <1>8, <1>9, <1>10, <1>11, <1>12, <1>13,
     <1>14, <1>15, <1>16, <1>17, <1>18, <1>19, <1>20, <1>21, <1>22
     DEF Next, SubscribeStep, UnsubStep, WorkerStep, PublishStep, WatchStep, Callers

(* sync.Once lets nobody return before its one function is through.        *)
LEMMA OnceStep == TypeOK /\ OnceInv /\ [Next]_vars => OnceInv'
<1> SUFFICES ASSUME TypeOK, OnceInv, [Next]_vars PROVE OnceInv'
  OBVIOUS
<1> USE DEF TypeOK, OnceInv, Calls, lockVars, chanVars, subVars, unsubVars, pubVars, watchVars
<1>1. ASSUME NEW s \in Subs, SubscribeLock(s) PROVE OnceInv'
  BY <1>1 DEF SubscribeLock, Announce
<1>2. ASSUME NEW s \in Subs, SubscribeRegister(s) PROVE OnceInv'
  BY <1>2 DEF SubscribeRegister, Holds, Unlock
<1>3. ASSUME NEW s \in Subs, SubscribeReturn(s) PROVE OnceInv'
  BY <1>3 DEF SubscribeReturn
<1>4. ASSUME NEW s \in Subs, NEW u \in Users, UnsubCall(s, u) PROVE OnceInv'
  BY <1>4 DEF UnsubCall
<1>5. ASSUME NEW s \in Subs, NEW c \in Callers, OnceFirst(s, c) PROVE OnceInv'
  BY <1>5 DEF OnceFirst
<1>6. ASSUME NEW s \in Subs, NEW c \in Callers, OnceAgain(s, c) PROVE OnceInv'
  BY <1>6 DEF OnceAgain, OnceIsOver
<1>7. ASSUME NEW s \in Subs, NEW c \in Callers, UnsubLock(s, c) PROVE OnceInv'
  BY <1>7 DEF UnsubLock, Announce
<1>8. ASSUME NEW s \in Subs, NEW c \in Callers, UnsubClose(s, c) PROVE OnceInv'
  BY <1>8 DEF UnsubClose, Holds, Unlock, CloseChannel
<1>9. ASSUME NEW s \in Subs, NEW c \in Callers, UnsubReturn(s, c) PROVE OnceInv'
  BY <1>9 DEF UnsubReturn, Joined
<1>10. ASSUME NEW p \in Publishers, PublishCall(p) PROVE OnceInv'
  BY <1>10 DEF PublishCall, RLock
<1>11. ASSUME NEW p \in Publishers, PublishRange(p) PROVE OnceInv'
  BY <1>11 DEF PublishRange
<1>12. ASSUME NEW p \in Publishers, NEW s \in Subs, PublishPick(p, s) PROVE OnceInv'
  BY <1>12 DEF PublishPick, Unvisited
<1>13. ASSUME NEW p \in Publishers, NEW s \in Subs, PublishSend(p, s) PROVE OnceInv'
  BY <1>13 DEF PublishSend, RUnlock
<1>14. ASSUME NEW p \in Publishers, PublishFinish(p) PROVE OnceInv'
  BY <1>14 DEF PublishFinish, RangeIsOver, RUnlock
<1>15. ASSUME NEW s \in Subs, NEW w \in Workers, WorkerTake(s, w) PROVE OnceInv'
  BY <1>15 DEF WorkerTake
<1>16. ASSUME NEW s \in Subs, NEW w \in Workers, FnReturn(s, w) PROVE OnceInv'
  BY <1>16 DEF FnReturn
<1>17. ASSUME NEW s \in Subs, NEW w \in Workers, WorkerExit(s, w) PROVE OnceInv'
  BY <1>17 DEF WorkerExit, MayExit
<1>18. CASE Cancel
  BY <1>18 DEF Cancel
<1>19. CASE WatchLock
  BY <1>19 DEF WatchLock, Announce
<1>20. CASE WatchCollect
  BY <1>20 DEF WatchCollect, Unlock
<1>21. CASE WatchReturn
  BY <1>21 DEF WatchReturn
<1>22. CASE UNCHANGED vars
  BY <1>22 DEF vars
<1> QED
  BY <1>1, <1>2, <1>3, <1>4, <1>5, <1>6, <1>7, <1>8, <1>9, <1>10, <1>11, <1>12, <1>13,
     <1>14, <1>15, <1>16, <1>17, <1>18, <1>19, <1>20, <1>21, <1>22
     DEF Next, SubscribeStep, UnsubStep, WorkerStep, PublishStep, WatchStep, Callers

(* The handles are swapped out under the lock they are added under.         *)
LEMMA WatchStepInv == TypeOK /\ WatchInv /\ [Next]_vars => WatchInv'
<1> SUFFICES ASSUME TypeOK, WatchInv, [Next]_vars PROVE WatchInv'
  OBVIOUS
<1> USE DEF TypeOK, WatchInv, lockVars, chanVars, subVars, unsubVars, pubVars, watchVars
<1>1. ASSUME NEW s \in Subs, SubscribeLock(s) PROVE WatchInv'
  BY <1>1 DEF SubscribeLock, Announce
<1>2. ASSUME NEW s \in Subs, SubscribeRegister(s) PROVE WatchInv'
  BY <1>2 DEF SubscribeRegister, Holds, Unlock
<1>3. ASSUME NEW s \in Subs, SubscribeReturn(s) PROVE WatchInv'
  BY <1>3 DEF SubscribeReturn
<1>4. ASSUME NEW s \in Subs, NEW u \in Users, UnsubCall(s, u) PROVE WatchInv'
  BY <1>4 DEF UnsubCall
<1>5. ASSUME NEW s \in Subs, NEW c \in Callers, OnceFirst(s, c) PROVE WatchInv'
  BY <1>5 DEF OnceFirst
<1>6. ASSUME NEW s \in Subs, NEW c \in Callers, OnceAgain(s, c) PROVE WatchInv'
  BY <1>6 DEF OnceAgain, OnceIsOver
<1>7. ASSUME NEW s \in Subs, NEW c \in Callers, UnsubLock(s, c) PROVE WatchInv'
  BY <1>7 DEF UnsubLock, Announce
<1>8. ASSUME NEW s \in Subs, NEW c \in Callers, UnsubClose(s, c) PROVE WatchInv'
  BY <1>8 DEF UnsubClose, Holds, Unlock, CloseChannel
<1>9. ASSUME NEW s \in Subs, NEW c \in Callers, UnsubReturn(s, c) PROVE WatchInv'
  BY <1>9 DEF UnsubReturn, Joined
<1>10. ASSUME NEW p \in Publishers, PublishCall(p) PROVE WatchInv'
  BY <1>10 DEF PublishCall, RLock
<1>11. ASSUME NEW p \in Publishers, PublishRange(p) PROVE WatchInv'
  BY <1>11 DEF PublishRange
<1>12. ASSUME NEW p \in Publishers, NEW s \in Subs, PublishPick(p, s) PROVE WatchInv'
  BY <1>12 DEF PublishPick, Unvisited
<1>13. ASSUME NEW p \in Publishers, NEW s \in Subs, PublishSend(p, s) PROVE WatchInv'
  BY <1>13 DEF PublishSend, RUnlock
<1>14. ASSUME NEW p \in Publishers, PublishFinish(p) PROVE WatchInv'
  BY <1>14 DEF PublishFinish, RangeIsOver, RUnlock
<1>15. ASSUME NEW s \in Subs, NEW w \in Workers, WorkerTake(s, w) PROVE WatchInv'
  BY <1>15 DEF WorkerTake
<1>16. ASSUME NEW s \in Subs, NEW w \in Workers, FnReturn(s, w) PROVE WatchInv'
  BY <1>16 DEF FnReturn
<1>17. ASSUME NEW s \in Subs, NEW w \in Workers, WorkerExit(s, w) PROVE WatchInv'
  BY <1>17 DEF WorkerExit, MayExit
<1>18. CASE Cancel
  BY <1>18 DEF Cancel
<1>19. CASE WatchLock
  BY <1>19 DEF WatchLock, Announce
<1>20. CASE WatchCollect
  BY <1>20 DEF WatchCollect, Unlock
<1>21. CASE WatchReturn
  BY <1>21 DEF WatchReturn
<1>22. CASE UNCHANGED vars
  BY <1>22 DEF vars
<1> QED
  BY <1>1, <1>2, <1>3, <1>4, <1>5, <1>6, <1>7, <1>8, <1>9, <1>10, <1>11, <1>12, <1>13,
     <1>14, <1>15, <1>16, <1>17, <1>18, <1>19, <1>20, <1>21, <1>22
     DEF Next, SubscribeStep, UnsubStep, WorkerStep, PublishStep, WatchStep, Callers

(* A send finds the channel open: it is that of a registered subscription.  *)
LEMMA SendStep == TypeOK /\ RangeInv /\ ClosedInv /\ NoSendOnClosed /\ [Next]_vars => NoSendOnClosed'
<1> SUFFICES ASSUME TypeOK, RangeInv, ClosedInv, NoSendOnClosed, [Next]_vars PROVE NoSendOnClosed'
  OBVIOUS
<1> USE DEF TypeOK, RangeInv, ClosedInv, NoSendOnClosed, lockVars, chanVars, subVars, unsubVars, pubVars, watchVars
<1>1. ASSUME NEW s \in Subs, SubscribeLock(s) PROVE NoSendOnClosed'
  BY <1>1 DEF SubscribeLock, Announce
<1>2. ASSUME NEW s \in Subs, SubscribeRegister(s) PROVE NoSendOnClosed'
  BY <1>2 DEF SubscribeRegister, Holds, Unlock
<1>3. ASSUME NEW s \in Subs, SubscribeReturn(s) PROVE NoSendOnClosed'
  BY <1>3 DEF SubscribeReturn
<1>4. ASSUME NEW s \in Subs, NEW u \in Users, UnsubCall(s, u) PROVE NoSendOnClosed'
  BY <1>4 DEF UnsubCall
<1>5. ASSUME NEW s \in Subs, NEW c \in Callers, OnceFirst(s, c) PROVE NoSendOnClosed'
  BY <1>5 DEF OnceFirst
<1>6. ASSUME NEW s \in Subs, NEW c \in Callers, OnceAgain(s, c) PROVE NoSendOnClosed'
  BY <1>6 DEF OnceAgain, OnceIsOver
<1>7. ASSUME NEW s \in Subs, NEW c \in Callers, UnsubLock(s, c) PROVE NoSendOnClosed'
  BY <1>7 DEF UnsubLock, Announce
<1>8. ASSUME NEW s \in Subs, NEW c \in Callers, UnsubClose(s, c) PROVE NoSendOnClosed'
  BY <1>8 DEF UnsubClose, Holds, Unlock, CloseChannel
<1>9. ASSUME NEW s \in Subs, NEW c \in Callers, UnsubReturn(s, c) PROVE NoSendOnClosed'
  BY <1>9 DEF UnsubReturn, Joined
<1>10. ASSUME NEW p \in Publishers, PublishCall(p) PROVE NoSendOnClosed'
  BY <1>10 DEF PublishCall, RLock
<1>11. ASSUME NEW p \in Publishers, PublishRange(p) PROVE NoSendOnClosed'
  BY <1>11 DEF PublishRange
<1>12. ASSUME NEW p \in Publishers, NEW s \in Subs, PublishPick(p, s) PROVE NoSendOnClosed'
  BY <1>12 DEF PublishPick, Unvisited
<1>13. ASSUME NEW p \in Publishers, NEW s \in Subs, PublishSend(p, s) PROVE NoSendOnClosed'
  BY <1>13 DEF PublishSend, RUnlock
<1>14. ASSUME NEW p \in Publishers, PublishFinish(p) PROVE NoSendOnClosed'
  BY <1>14 DEF PublishFinish, RangeIsOver, RUnlock
<1>15. ASSUME NEW s \in Subs, NEW w \in Workers, WorkerTake(s, w) PROVE NoSendOnClosed'
  BY <1>15 DEF WorkerTake
<1>16. ASSUME NEW s \in Subs, NEW w \in Workers, FnReturn(s, w) PROVE NoSendOnClosed'
  BY <1>16 DEF FnReturn
<1>17. ASSUME NEW s \in Subs, NEW w \in Workers, WorkerExit(s, w) PROVE NoSendOnClosed'
  BY <1>17 DEF WorkerExit, MayExit
<1>18. CASE Cancel
  BY <1>18 DEF Cancel
<1>19. CASE WatchLock
  BY <1>19 DEF WatchLock, Announce
<1>20. CASE WatchCollect
  BY <1>20 DEF WatchCollect, Unlock
<1>21. CASE WatchReturn
  BY <1>21 DEF WatchReturn
<1>22. CASE UNCHANGED vars
  BY <1>22 DEF vars
<1> QED
  BY <1>1, <1>2, <1>3, <1>4, <1>5, <1>6, <1>7, <1>8, <1>9, <1>10, <1>11, <1>12, <1>13,
     <1>14, <1>15, <1>16, <1>17, <1>18, <1>19, <1>20, <1>21, <1>22
     DEF Next, SubscribeStep, UnsubStep, WorkerStep, PublishStep, WatchStep, Callers

(* Whoever was about to unsubscribe a registered subscription still is.     *)
LEMMA OrphanStep == TypeOK /\ ClosedInv /\ ExitInv /\ OnceInv /\ WatchInv /\ NoOrphanAfterCancel /\ [Next]_vars => NoOrphanAfterCancel'
<1> SUFFICES ASSUME TypeOK, ClosedInv, ExitInv, OnceInv, WatchInv, NoOrphanAfterCancel, [Next]_vars PROVE NoOrphanAfterCancel'
  OBVIOUS
<1> USE DEF TypeOK, NoOrphanAfterCancel, Calls, lockVars, chanVars, subVars, unsubVars, pubVars, watchVars
<1>1. ASSUME NEW s \in Subs, SubscribeLock(s) PROVE NoOrphanAfterCancel'
  BY <1>1 DEF SubscribeLock, Announce
<1>2. ASSUME NEW s \in Subs, SubscribeRegister(s) PROVE NoOrphanAfterCancel'
  <2> SUFFICES ASSUME watchPc \in {"join", "done"}, NEW r \in subs \union {s}
               PROVE  \E c \in Callers : unsubPc'[<<r, c>>] \in {"once", "lock", "pending"}
    BY <1>2 DEF SubscribeRegister
  <2>1. cancelled
    BY DEF WatchInv
  <2>2. unsubPc' = [unsubPc EXCEPT ![<<s, "Subscribe">>] = "once"]
    BY <2>1, <1>2 DEF SubscribeRegister, SeesCancel
  <2>3. CASE r = s
    BY <2>2, <2>3 DEF Callers
  <2>4. CASE r # s
    BY <2>2, <2>4 DEF Callers
  <2> QED BY <2>3, <2>4
<1>3. ASSUME NEW s \in Subs, SubscribeReturn(s) PROVE NoOrphanAfterCancel'
  BY <1>3 DEF SubscribeReturn
<1>4. ASSUME NEW s \in Subs, NEW u \in Users, UnsubCall(s, u) PROVE NoOrphanAfterCancel'
  BY <1>4 DEF UnsubCall
<1>5. ASSUME NEW s \in Subs, NEW c \in Callers, OnceFirst(s, c) PROVE NoOrphanAfterCancel'
  BY <1>5 DEF OnceFirst
<1>6. ASSUME NEW s \in Subs, NEW c \in Callers, OnceAgain(s, c) PROVE NoOrphanAfterCancel'
  <2>1. s \notin subs
    BY <1>6, BusAssumption DEF OnceAgain, OnceIsOver, OnceInv, ExitInv, ClosedInv
  <2> QED BY <2>1, <1>6 DEF OnceAgain
<1>7. ASSUME NEW s \in Subs, NEW c \in Callers, UnsubLock(s, c) PROVE NoOrphanAfterCancel'
  BY <1>7 DEF UnsubLock, Announce
<1>8. ASSUME NEW s \in Subs, NEW c \in Callers, UnsubClose(s, c) PROVE NoOrphanAfterCancel'
  <2>1. /\ subs' = subs \ {s} /\ watchPc' = watchPc
        /\ unsubPc' = [unsubPc EXCEPT ![<<s, c>>] = "join"]
    BY <1>8 DEF UnsubClose
  <2> QED BY <2>1
<1>9. ASSUME NEW s \in Subs, NEW c \in Callers, UnsubReturn(s, c) PROVE NoOrphanAfterCancel'
  BY <1>9 DEF UnsubReturn, Joined
<1>10. ASSUME NEW p \in Publishers, PublishCall(p) PROVE NoOrphanAfterCancel'
  BY <1>10 DEF PublishCall, RLock
<1>11. ASSUME NEW p \in Publishers, PublishRange(p) PROVE NoOrphanAfterCancel'
  BY <1>11 DEF PublishRange
<1>12. ASSUME NEW p \in Publishers, NEW s \in Subs, PublishPick(p, s) PROVE NoOrphanAfterCancel'
  BY <1>12 DEF PublishPick, Unvisited
<1>13. ASSUME NEW p \in Publishers, NEW s \in Subs, PublishSend(p, s) PROVE NoOrphanAfterCancel'
  BY <1>13 DEF PublishSend, RUnlock
<1>14. ASSUME NEW p \in Publishers, PublishFinish(p) PROVE NoOrphanAfterCancel'
  BY <1>14 DEF PublishFinish, RangeIsOver, RUnlock
<1>15. ASSUME NEW s \in Subs, NEW w \in Workers, WorkerTake(s, w) PROVE NoOrphanAfterCancel'
  BY <1>15 DEF WorkerTake
<1>16. ASSUME NEW s \in Subs, NEW w \in Workers, FnReturn(s, w) PROVE NoOrphanAfterCancel'
  BY <1>16 DEF FnReturn
<1>17. ASSUME NEW s \in Subs, NEW w \in Workers, WorkerExit(s, w) PROVE NoOrphanAfterCancel'
  BY <1>17 DEF WorkerExit, MayExit
<1>18. CASE Cancel
  BY <1>18 DEF Cancel
<1>19. CASE WatchLock
  BY <1>19 DEF WatchLock, Announce
<1>20. CASE WatchCollect
  <2>1. subs \subseteq unsubs /\ subs' = subs
    BY <1>20 DEF WatchCollect, WatchInv
  <2>2. \A r \in subs : unsubPc'[<<r, "watch">>] = "once"
    BY <2>1, <1>20 DEF WatchCollect, Callers
  <2> QED BY <2>1, <2>2 DEF Callers
<1>21. CASE WatchReturn
  BY <1>21 DEF WatchReturn
<1>22. CASE UNCHANGED vars
  BY <1>22 DEF vars
<1> QED
  BY <1>1, <1>2, <1>3, <1>4, <1>5, <1>6, <1>7, <1>8, <1>9, <1>10, <1>11, <1>12, <1>13,
     <1>14, <1>15, <1>16, <1>17, <1>18, <1>19, <1>20, <1>21, <1>22
     DEF Next, SubscribeStep, UnsubStep, WorkerStep, PublishStep, WatchStep, Callers

(* Append adds its element to the values of a sequence.                    *)
LEMMA RangeAppend ==
  ASSUME NEW S, NEW q \in Seq(S), NEW e \in S
  PROVE  Range(Append(q, e)) = Range(q) \union {e}
<1>1. /\ DOMAIN Append(q, e) = 1 .. Len(q) + 1 /\ DOMAIN q = 1 .. Len(q)
      /\ \A i \in 1 .. Len(q) : Append(q, e)[i] = q[i]
      /\ Append(q, e)[Len(q) + 1] = e
  OBVIOUS
<1>2. Len(q) \in Nat
  OBVIOUS
<1>3. Range(Append(q, e)) \subseteq Range(q) \union {e}
  BY <1>1, <1>2 DEF Range
<1>4. Range(q) \union {e} \subseteq Range(Append(q, e))
  <2>1. \A i \in DOMAIN q : i \in DOMAIN Append(q, e) /\ q[i] = Append(q, e)[i]
    BY <1>1, <1>2
  <2>2. Len(q) + 1 \in DOMAIN Append(q, e)
    BY <1>1, <1>2
  <2> QED BY <1>1, <2>1, <2>2 DEF Range
<1> QED BY <1>3, <1>4

(* The values of a sequence are its head and those of its tail.            *)
LEMMA RangeHeadTail ==
  ASSUME NEW S, NEW q \in Seq(S), q # <<>>
  PROVE  Range(q) = {Head(q)} \union Range(Tail(q))
<1>1. /\ DOMAIN Tail(q) = 1 .. Len(q) - 1 /\ DOMAIN q = 1 .. Len(q)
      /\ \A i \in 1 .. Len(q) - 1 : Tail(q)[i] = q[i + 1]
      /\ Head(q) = q[1] /\ Len(q) \in Nat /\ Len(q) >= 1
  OBVIOUS
<1>2. Range(q) \subseteq {Head(q)} \union Range(Tail(q))
  <2> SUFFICES ASSUME NEW i \in DOMAIN q PROVE q[i] \in {Head(q)} \union Range(Tail(q))
    BY DEF Range
  <2>1. CASE i = 1
    BY <2>1, <1>1
  <2>2. CASE i # 1
    <3>1. i - 1 \in DOMAIN Tail(q) /\ Tail(q)[i - 1] = q[i]
      BY <2>2, <1>1
    <3> QED BY <3>1 DEF Range
  <2> QED BY <2>1, <2>2
<1>3. {Head(q)} \union Range(Tail(q)) \subseteq Range(q)
  <2>1. Head(q) \in Range(q)
    <3>1. 1 \in DOMAIN q
      BY <1>1
    <3> QED BY <3>1, <1>1 DEF Range
  <2>2. ASSUME NEW i \in DOMAIN Tail(q) PROVE Tail(q)[i] \in Range(q)
    <3>1. i + 1 \in DOMAIN q /\ q[i + 1] = Tail(q)[i]
      BY <1>1
    <3> QED BY <3>1 DEF Range
  <2> QED BY <2>1, <2>2 DEF Range
<1> QED BY <1>2, <1>3

(* What is accepted consists of values, and a step that takes a value from *)
(* a channel accepts nothing new.                                          *)
LEMMA AcceptedValues == TypeOK => \A s \in Subs : Accepted(s) \subseteq Value
<1> SUFFICES ASSUME TypeOK, NEW s \in Subs PROVE Accepted(s) \subseteq Value
  OBVIOUS
<1>1. chan[s] \in Seq(Value) /\ delivered[s] \subseteq Value
  BY DEF TypeOK
<1>2. Range(chan[s]) \subseteq Value
  BY <1>1 DEF Range
<1> QED BY <1>1, <1>2 DEF Accepted

(* A step that touches neither channels nor publishers, and registers      *)
(* nobody, leaves deliveries alone.                                        *)
LEMMA DeliveryFrame ==
  ASSUME TypeOK, DeliveryInv, AtMostOnce, subs' \subseteq subs,
         UNCHANGED <<chan, delivered, published, pubPc, todo, sending>>
  PROVE  DeliveryInv' /\ AtMostOnce'
<1>1. AtMostOnce'
  BY DEF AtMostOnce
<1>2. subs \subseteq Subs
  BY DEF TypeOK
<1>3. DeliveryInv'
  BY <1>2 DEF DeliveryInv, Accepted
<1> QED BY <1>1, <1>3

(* DeliveryInv and AtMostOnce are kept by every step.                      *)
LEMMA DeliveryStep ==
  TypeOK /\ RangeInv /\ ClosedInv /\ DeliveryInv /\ AtMostOnce /\ [Next]_vars => DeliveryInv' /\ AtMostOnce'
<1> SUFFICES ASSUME TypeOK, RangeInv, ClosedInv, DeliveryInv, AtMostOnce, [Next]_vars
             PROVE  DeliveryInv' /\ AtMostOnce'
  OBVIOUS
<1> USE DEF lockVars, chanVars, subVars, unsubVars, pubVars, watchVars
<1>f. ASSUME subs' \subseteq subs,
             UNCHANGED <<chan, delivered, published, pubPc, todo, sending>>
      PROVE  DeliveryInv' /\ AtMostOnce'
  BY <1>f, DeliveryFrame
<1>2. ASSUME NEW s \in Subs, SubscribeRegister(s) PROVE DeliveryInv' /\ AtMostOnce'
  <2>1. readers = {} /\ subs' = subs \union {s}
        /\ UNCHANGED <<chan, delivered, published, pubPc, todo, sending>>
    BY <1>2 DEF SubscribeRegister, Holds
  <2>2. \A p \in Publishers : pubPc[p] # "range"
    BY <2>1 DEF RangeInv
  <2>3. AtMostOnce'
    BY <2>1 DEF AtMostOnce
  <2>4. DeliveryInv'
    BY <2>1, <2>2 DEF DeliveryInv, Accepted
  <2> QED BY <2>3, <2>4
<1>10. ASSUME NEW p \in Publishers, PublishCall(p) PROVE DeliveryInv' /\ AtMostOnce'
  <2>1. /\ pubPc' = [pubPc EXCEPT ![p] = "rlock"]
        /\ published' = [published EXCEPT ![p] = @ + 1]
        /\ UNCHANGED <<subs, chan, delivered, todo, sending>>
    BY <1>10 DEF PublishCall
  <2>2. AtMostOnce'
    BY <2>1 DEF AtMostOnce
  <2>3. \A q \in Publishers : published[q] \in Nat
    BY BusAssumption DEF TypeOK
  <2>4. \A q \in Publishers : /\ published'[q] = IF q = p THEN published[p] + 1 ELSE published[q]
                              /\ pubPc'[q] = IF q = p THEN "rlock" ELSE pubPc[q]
    BY <2>1 DEF TypeOK
  <2>5. \A t \in Subs : \A v \in Accepted(t) :
          v[1] \in Publishers /\ v[2] \in Nat /\ v[2] <= published[v[1]]
    BY AcceptedValues DEF DeliveryInv, Value
  <2>6. \A t \in Subs : Accepted(t)' = Accepted(t)
    BY <2>1 DEF Accepted
  <2>7. \A t \in Subs : \A v \in Accepted(t) : v[2] <= published'[v[1]]
    BY <2>3, <2>4, <2>5
  <2>8. \A t \in Subs : <<p, published[p] + 1>> \notin Accepted(t)
    BY <2>3, <2>5
  <2>9. DeliveryInv'
    <3>1. \A t \in Subs : \A v \in Accepted(t)' : v[2] <= published'[v[1]]
      BY <2>6, <2>7
    <3>2. \A q \in Publishers : pubPc'[q] = "rlock" =>
            \A t \in Subs : <<q, published'[q]>> \notin Accepted(t)'
      BY <2>4, <2>6, <2>8 DEF DeliveryInv
    <3>3. \A q \in Publishers : pubPc'[q] = "range" =>
            /\ q # p /\ pubPc[q] = "range" /\ published'[q] = published[q]
            /\ todo'[q] = todo[q] /\ sending'[q] = sending[q]
      BY <2>1, <2>4
    <3>4. subs' = subs /\ subs \subseteq Subs
      BY <2>1 DEF TypeOK
    <3>5. \A q \in Publishers : pubPc'[q] = "range" =>
            /\ todo'[q] \cap sending'[q] = {}
            /\ \A a, b \in sending'[q] : a = b
            /\ \A t \in subs' :
                 <<q, published'[q]>> \in Accepted(t)' <=> t \notin todo'[q] \union sending'[q]
      BY <2>6, <3>3, <3>4 DEF DeliveryInv
    <3> QED BY <3>1, <3>2, <3>5 DEF DeliveryInv
  <2> QED BY <2>2, <2>9
<1>11. ASSUME NEW p \in Publishers, PublishRange(p) PROVE DeliveryInv' /\ AtMostOnce'
  <2>1. /\ pubPc[p] = "rlock" /\ sending[p] = {}
        /\ pubPc' = [pubPc EXCEPT ![p] = "range"] /\ todo' = [todo EXCEPT ![p] = subs]
        /\ UNCHANGED <<subs, chan, delivered, sending, published>>
    BY <1>11 DEF PublishRange, RangeInv
  <2>2. \A q \in Publishers : /\ todo'[q] = IF q = p THEN subs ELSE todo[q]
                              /\ pubPc'[q] = IF q = p THEN "range" ELSE pubPc[q]
    BY <2>1 DEF TypeOK
  <2>3. AtMostOnce'
    BY <2>1 DEF AtMostOnce
  <2>4. DeliveryInv'
    BY <2>1, <2>2 DEF DeliveryInv, Accepted, TypeOK
  <2> QED BY <2>3, <2>4
<1>12. ASSUME NEW p \in Publishers, NEW s \in Subs, PublishPick(p, s)
       PROVE  DeliveryInv' /\ AtMostOnce'
  <2>1. /\ pubPc[p] = "range" /\ sending[p] = {} /\ s \in todo[p]
        /\ sending' = [sending EXCEPT ![p] = {s}]
        /\ todo' = [todo EXCEPT ![p] = todo[p] \ {s}]
        /\ UNCHANGED <<subs, chan, delivered, pubPc, published>>
    BY <1>12 DEF PublishPick, Unvisited
  <2>2. \A q \in Publishers : /\ todo'[q] = IF q = p THEN todo[p] \ {s} ELSE todo[q]
                              /\ sending'[q] = IF q = p THEN {s} ELSE sending[q]
    BY <2>1 DEF TypeOK
  <2>3. AtMostOnce'
    BY <2>1 DEF AtMostOnce
  <2>4. DeliveryInv'
    BY <2>1, <2>2 DEF DeliveryInv, Accepted
  <2> QED BY <2>3, <2>4
<1>13. ASSUME NEW p \in Publishers, NEW s \in Subs, PublishSend(p, s)
       PROVE  DeliveryInv' /\ AtMostOnce'
  <2> DEFINE e == <<p, published[p]>>
  <2>1. pubPc[p] = "range" /\ s \in sending[p] /\ s \in subs /\ s \notin closed /\ published[p] > 0
    BY <1>13 DEF PublishSend, RangeInv, ClosedInv
  <2>2. /\ chan' = [chan EXCEPT ![s] = Append(chan[s], e)]
        /\ sending' = [sending EXCEPT ![p] = {}]
        /\ UNCHANGED <<subs, delivered, pubPc, todo, published>>
    BY <2>1, <1>13 DEF PublishSend
  <2>3. e \in Value /\ chan \in [Subs -> Seq(Value)]
    BY <2>1, BusAssumption DEF TypeOK, Value
  <2>4. /\ e \notin Accepted(s) /\ s \notin todo[p]
        /\ sending[p] = {s}
    BY <2>1 DEF DeliveryInv
  <2>5. Range(chan'[s]) = Range(chan[s]) \union {e}
    BY <2>2, <2>3, RangeAppend
  <2>6. \A t \in Subs : Accepted(t)' = IF t = s THEN Accepted(s) \union {e} ELSE Accepted(t)
    BY <2>2, <2>3, <2>5 DEF Accepted
  <2>7. AtMostOnce'
    <3>1. \A i, j \in DOMAIN chan'[s] : chan'[s][i] = chan'[s][j] => i = j
      <4>1. chan'[s] = Append(chan[s], e) /\ chan[s] \in Seq(Value)
        BY <2>2, <2>3
      <4>2. \A i \in DOMAIN chan[s] : chan[s][i] # e
        BY <2>4 DEF Accepted, Range
      <4>3. \A i, j \in DOMAIN chan[s] : chan[s][i] = chan[s][j] => i = j
        BY DEF AtMostOnce
      <4> HIDE DEF e
      <4>4. \A i \in DOMAIN chan'[s] :
              \/ i \in DOMAIN chan[s] /\ chan'[s][i] = chan[s][i]
              \/ i = Len(chan[s]) + 1 /\ chan'[s][i] = e
        BY <4>1
      <4> QED BY <4>2, <4>3, <4>4
    <3>2. Range(chan'[s]) \cap delivered'[s] = {}
      BY <2>2, <2>4, <2>5 DEF AtMostOnce, Accepted
    <3>3. \A t \in Subs \ {s} : chan'[t] = chan[t] /\ delivered'[t] = delivered[t]
      BY <2>2, <2>3
    <3> QED BY <3>1, <3>2, <3>3 DEF AtMostOnce
  <2>8. DeliveryInv'
    <3>1. \A t \in Subs : \A v \in Accepted(t)' : v[2] <= published'[v[1]]
      <4>1. e[2] <= published[e[1]]
        BY <2>3 DEF Value, TypeOK
      <4> QED BY <2>2, <2>6, <4>1 DEF DeliveryInv
    <3>2. \A q \in Publishers : pubPc'[q] = "rlock" =>
            \A t \in Subs : <<q, published'[q]>> \notin Accepted(t)'
      <4> SUFFICES ASSUME NEW q \in Publishers, pubPc'[q] = "rlock", NEW t \in Subs
                   PROVE  <<q, published[q]>> \notin Accepted(t)'
        BY <2>2
      <4>1. q # p /\ <<q, published[q]>> \notin Accepted(t)
        BY <2>1, <2>2 DEF DeliveryInv
      <4> QED BY <2>6, <4>1
    <3>3. \A q \in Publishers : pubPc'[q] = "range" =>
            /\ todo'[q] \cap sending'[q] = {}
            /\ \A a, b \in sending'[q] : a = b
            /\ \A t \in subs' :
                 <<q, published'[q]>> \in Accepted(t)' <=> t \notin todo'[q] \union sending'[q]
      <4>1. CASE \A q \in Publishers : q = p
        BY <4>1, <2>1, <2>2, <2>4, <2>6 DEF DeliveryInv, TypeOK
      <4>2. ASSUME NEW q \in Publishers, q # p, pubPc[q] = "range"
            PROVE  /\ todo'[q] \cap sending'[q] = {}
                   /\ \A a, b \in sending'[q] : a = b
                   /\ \A t \in subs :
                        <<q, published'[q]>> \in Accepted(t)' <=> t \notin todo'[q] \union sending'[q]
        <5>1. sending'[q] = sending[q] /\ todo'[q] = todo[q] /\ published'[q] = published[q]
          BY <4>2, <2>2 DEF TypeOK
        <5>2. \A t \in Subs : <<q, published[q]>> \in Accepted(t)' <=> <<q, published[q]>> \in Accepted(t)
          BY <4>2, <2>6
        <5> QED BY <4>2, <5>1, <5>2 DEF DeliveryInv, TypeOK
      <4>3. /\ todo'[p] \cap sending'[p] = {}
            /\ \A a, b \in sending'[p] : a = b
            /\ \A t \in subs :
                 <<p, published'[p]>> \in Accepted(t)' <=> t \notin todo'[p] \union sending'[p]
        <5>1. sending'[p] = {} /\ todo'[p] = todo[p] /\ published'[p] = published[p]
          BY <2>2 DEF TypeOK
        <5>2. \A t \in subs : t # s => (e \in Accepted(t) <=> t \notin todo[p])
          BY <2>1, <2>4 DEF DeliveryInv
        <5>3. subs \subseteq Subs
          BY DEF TypeOK
        <5> QED BY <5>1, <5>2, <5>3, <2>4, <2>6
      <4> QED BY <2>2, <4>2, <4>3
    <3> QED BY <3>1, <3>2, <3>3 DEF DeliveryInv
  <2> QED BY <2>7, <2>8
<1>14. ASSUME NEW p \in Publishers, PublishFinish(p) PROVE DeliveryInv' /\ AtMostOnce'
  <2>1. /\ pubPc' = [pubPc EXCEPT ![p] = "idle"] /\ todo' = [todo EXCEPT ![p] = {}]
        /\ UNCHANGED <<subs, chan, delivered, sending, published>>
    BY <1>14 DEF PublishFinish
  <2>2. AtMostOnce'
    BY <2>1 DEF AtMostOnce
  <2>3. DeliveryInv'
    BY <2>1 DEF DeliveryInv, Accepted, TypeOK
  <2> QED BY <2>2, <2>3
<1>15. ASSUME NEW s \in Subs, NEW w \in Workers, WorkerTake(s, w)
       PROVE  DeliveryInv' /\ AtMostOnce'
  <2> DEFINE h == Head(chan[s])
  <2>1. /\ chan[s] # <<>> /\ chan' = [chan EXCEPT ![s] = Tail(chan[s])]
        /\ delivered' = [delivered EXCEPT ![s] = delivered[s] \union {h}]
        /\ UNCHANGED <<subs, pubPc, todo, sending, published>>
    BY <1>15 DEF WorkerTake
  <2>2. chan \in [Subs -> Seq(Value)] /\ delivered \in [Subs -> SUBSET Value]
    BY DEF TypeOK
  <2>3. /\ chan'[s] = Tail(chan[s]) /\ delivered'[s] = delivered[s] \union {h}
        /\ \A t \in Subs \ {s} : chan'[t] = chan[t] /\ delivered'[t] = delivered[t]
    BY <2>1, <2>2
  <2>4. Range(chan[s]) = {h} \union Range(Tail(chan[s]))
    BY <2>1, <2>2, RangeHeadTail
  <2>5. \A t \in Subs : Accepted(t)' = Accepted(t)
    BY <2>3, <2>4 DEF Accepted
  <2>6. DeliveryInv'
    <3>1. \A t \in Subs : \A v \in Accepted(t)' : v[2] <= published'[v[1]]
      BY <2>1, <2>5 DEF DeliveryInv
    <3>2. \A q \in Publishers : pubPc'[q] = "rlock" =>
            \A t \in Subs : <<q, published'[q]>> \notin Accepted(t)'
      BY <2>1, <2>5 DEF DeliveryInv
    <3>3. \A q \in Publishers : pubPc'[q] = "range" =>
            /\ todo'[q] \cap sending'[q] = {}
            /\ \A a, b \in sending'[q] : a = b
            /\ \A t \in subs' :
                 <<q, published'[q]>> \in Accepted(t)' <=> t \notin todo'[q] \union sending'[q]
      BY <2>1, <2>5 DEF DeliveryInv, TypeOK
    <3> QED BY <3>1, <3>2, <3>3 DEF DeliveryInv
  <2>7. AtMostOnce'
    <3>1. chan[s] \in Seq(Value) /\ \A i, j \in DOMAIN chan[s] : chan[s][i] = chan[s][j] => i = j
      BY <2>2 DEF AtMostOnce
    <3>2. \A i \in DOMAIN Tail(chan[s]) : i + 1 \in DOMAIN chan[s] /\ 1 \in DOMAIN chan[s]
                                          /\ i \in Nat \ {0} /\ Tail(chan[s])[i] = chan[s][i + 1]
      BY <2>1, <3>1
    <3>3. h = chan[s][1]
      BY <2>1, <3>1
    <3>4. \A i, j \in DOMAIN Tail(chan[s]) : Tail(chan[s])[i] = Tail(chan[s])[j] => i = j
      BY <3>1, <3>2
    <3>5. h \notin Range(Tail(chan[s]))
      <4>1. \A i \in DOMAIN Tail(chan[s]) : Tail(chan[s])[i] # h
        BY <3>1, <3>2, <3>3
      <4> QED BY <4>1 DEF Range
    <3>6. Range(chan'[s]) \cap delivered'[s] = {}
      BY <2>3, <2>4, <3>5 DEF AtMostOnce
    <3> QED BY <2>3, <3>4, <3>6 DEF AtMostOnce
  <2> QED BY <2>6, <2>7
<1>1. ASSUME NEW s \in Subs, SubscribeLock(s) PROVE DeliveryInv' /\ AtMostOnce'
  BY <1>1, <1>f DEF SubscribeLock
<1>3. ASSUME NEW s \in Subs, SubscribeReturn(s) PROVE DeliveryInv' /\ AtMostOnce'
  BY <1>3, <1>f DEF SubscribeReturn
<1>4. ASSUME NEW s \in Subs, NEW u \in Users, UnsubCall(s, u) PROVE DeliveryInv' /\ AtMostOnce'
  BY <1>4, <1>f DEF UnsubCall
<1>5. ASSUME NEW s \in Subs, NEW c \in Callers, UnsubStep(s, c) PROVE DeliveryInv' /\ AtMostOnce'
  BY <1>5, <1>f DEF UnsubStep, OnceFirst, OnceAgain, UnsubLock, UnsubClose, UnsubReturn
<1>16. ASSUME NEW s \in Subs, NEW w \in Workers, FnReturn(s, w) \/ WorkerExit(s, w)
       PROVE  DeliveryInv' /\ AtMostOnce'
  BY <1>16, <1>f DEF FnReturn, WorkerExit
<1>18. CASE Cancel \/ WatchStep
  BY <1>18, <1>f DEF Cancel, WatchStep, WatchLock, WatchCollect, WatchReturn
<1>22. CASE UNCHANGED vars
  BY <1>22, <1>f DEF vars
<1> QED
  BY <1>1, <1>2, <1>3, <1>4, <1>5, <1>10, <1>11, <1>12, <1>13, <1>14, <1>15, <1>16, <1>18, <1>22
     DEF Next, SubscribeStep, WorkerStep, PublishStep, Callers

(* A publisher whose Publish returns in this step has finished its range.  *)
LEMMA ReturnIsFinish ==
  ASSUME TypeOK, RangeInv, ClosedInv, [Next]_vars, NEW p \in Publishers,
         pubPc[p] = "range", pubPc'[p] = "idle"
  PROVE  RangeIsOver(p)
<1> USE DEF lockVars, chanVars, subVars, unsubVars, pubVars, watchVars
<1>1. ASSUME NEW q \in Publishers, PublishFinish(q) PROVE RangeIsOver(p)
  BY <1>1 DEF PublishFinish, TypeOK
<1>2. ASSUME NEW q \in Publishers, PublishCall(q) \/ PublishRange(q) PROVE FALSE
  BY <1>2 DEF PublishCall, PublishRange, TypeOK
<1>3. ASSUME NEW q \in Publishers, NEW s \in Subs, PublishPick(q, s) \/ PublishSend(q, s) PROVE FALSE
  BY <1>3 DEF PublishPick, PublishSend, TypeOK
<1>4. pubPc' # pubPc
  OBVIOUS
<1>5. ASSUME NEW s \in Subs, SubscribeLock(s) \/ SubscribeRegister(s) \/ SubscribeReturn(s) PROVE FALSE
  BY <1>4, <1>5 DEF SubscribeLock, SubscribeRegister, SubscribeReturn
<1>6. ASSUME NEW s \in Subs, NEW u \in Users, UnsubCall(s, u) PROVE FALSE
  BY <1>4, <1>6 DEF UnsubCall
<1>7. ASSUME NEW s \in Subs, NEW c \in Callers, UnsubStep(s, c) PROVE FALSE
  BY <1>4, <1>7 DEF UnsubStep, OnceFirst, OnceAgain, UnsubLock, UnsubClose, UnsubReturn
<1>8. ASSUME NEW s \in Subs, NEW w \in Workers, WorkerStep(s, w) PROVE FALSE
  BY <1>4, <1>8 DEF WorkerStep, WorkerTake, FnReturn, WorkerExit
<1>9. ~ (Cancel \/ WatchStep \/ UNCHANGED vars)
  BY <1>4 DEF Cancel, WatchStep, WatchLock, WatchCollect, WatchReturn, vars
<1> QED
  BY <1>1, <1>2, <1>3, <1>5, <1>6, <1>7, <1>8, <1>9
     DEF Next, SubscribeStep, PublishStep, Callers

(* IInv is inductive.                                                      *)
LEMMA IInvStep == IInv /\ [Next]_vars => IInv'
BY TypeStep, RangeStep, ClosedStep, ExitStep, OnceStep, WatchStepInv, SendStep, OrphanStep,
   DeliveryStep
   DEF IInv

(* IInv holds of every reachable state.                                    *)
THEOREM Invariance == Spec => []IInv
<1>1. Init => IInv
  BY InitIInv
<1>2. IInv /\ [Next]_vars => IInv'
  BY IInvStep
<1> QED BY <1>1, <1>2, PTL DEF Spec

(* Every variable keeps its type, and no channel holds more values than    *)
(* its buffer has room for, whatever the buffer size.                      *)
THEOREM TypeCorrect == Spec => []TypeOK
<1>1. IInv => TypeOK
  BY DEF IInv
<1> QED BY <1>1, Invariance, PTL

(* Publish never sends on a closed channel, however many publishers and    *)
(* unsubscribers there are: the comment on Publish is right.               *)
THEOREM PublishIsSafe == Spec => []NoSendOnClosed
<1>1. IInv => NoSendOnClosed
  BY DEF IInv
<1> QED BY <1>1, Invariance, PTL

(* After any call of unsubscribe returned, its subscription has no buffered*)
(* value and no running handler, whatever the size of its pool.            *)
THEOREM UnsubscribeIsQuiet == Spec => []QuietAfterUnsubscribe
<1>1. IInv => QuietAfterUnsubscribe
  <2> SUFFICES ASSUME IInv, NEW s \in Subs, NEW c \in Callers,
                      unsubPc[<<s, c>>] = "returned"
               PROVE  /\ s \notin subs /\ chan[s] = <<>>
                      /\ \A w \in Workers : busy[<<s, w>>] = {} /\ <<s, w>> \in exited
    BY DEF QuietAfterUnsubscribe
  <2>1. \A w \in Workers : <<s, w>> \in exited
    BY DEF IInv, OnceInv
  <2>2. s \in closed /\ chan[s] = <<>> /\ \A w \in Workers : busy[<<s, w>>] = {}
    BY <2>1, BusAssumption DEF IInv, ExitInv
  <2> QED BY <2>1, <2>2 DEF IInv, ClosedInv
<1> QED BY <1>1, Invariance, PTL

(* No Subscribe that races with the cancellation leaves its subscription   *)
(* behind: somebody who will unsubscribe it is on the way.                 *)
THEOREM NobodyIsForgotten == Spec => []NoOrphanAfterCancel
<1>1. IInv => NoOrphanAfterCancel
  BY DEF IInv
<1> QED BY <1>1, Invariance, PTL

(* A value reaches a subscription at most once, however many publishers    *)
(* there are, workers that take it, and ranges that are under way.         *)
THEOREM DeliveredOnce == Spec => []AtMostOnce
<1>1. IInv => AtMostOnce
  BY DEF IInv
<1> QED BY <1>1, Invariance, PTL

(* When Publish returns, its value has reached every subscription that is  *)
(* registered then: none is skipped by a range that others run beside.     *)
THEOREM PublishIsComplete == Spec => PublishReachesAll
<1>1. ASSUME IInv, [Next]_vars
      PROVE  [\A p \in Publishers : pubPc[p] = "range" /\ pubPc'[p] = "idle" =>
                \A s \in subs : <<p, published[p]>> \in Accepted(s)]_vars
  <2> SUFFICES ASSUME NEW p \in Publishers, pubPc[p] = "range", pubPc'[p] = "idle",
                      NEW s \in subs
               PROVE  <<p, published[p]>> \in Accepted(s)
    OBVIOUS
  <2>1. RangeIsOver(p)
    BY <1>1, ReturnIsFinish DEF IInv
  <2> QED BY <1>1, <2>1 DEF IInv, DeliveryInv, RangeIsOver
<1> QED BY <1>1, Invariance, PTL DEF Spec, PublishReachesAll
----------------------------------------------------------------------------
(* The refinement: each subscription is an inbox of FanOut.                *)

(* What the pool of a subscription runs was delivered to it, each value in *)
(* one worker: when fn returns, its value is handled.                      *)
BusyInv ==
  \A s \in Subs, w \in Workers :
    /\ busy[<<s, w>>] \subseteq delivered[s]
    /\ \A v, x \in busy[<<s, w>>] : v = x
    /\ \A u \in Workers : u # w => busy[<<s, w>>] \cap busy[<<s, u>>] = {}

LEMMA BusyStep == TypeOK /\ AtMostOnce /\ BusyInv /\ [Next]_vars => BusyInv'
<1> SUFFICES ASSUME TypeOK, AtMostOnce, BusyInv, [Next]_vars PROVE BusyInv'
  OBVIOUS
<1>1. ASSUME UNCHANGED <<busy, delivered>> PROVE BusyInv'
  BY <1>1 DEF BusyInv
<1> USE DEF lockVars, chanVars, subVars, unsubVars, pubVars, watchVars
<1>2. ASSUME NEW s \in Subs, NEW w \in Workers, WorkerTake(s, w) PROVE BusyInv'
  <2>1. PICK v : v = Head(chan[s])
    OBVIOUS
  <2>2. v \notin delivered[s]
    BY <1>2, <2>1, RangeHeadTail DEF WorkerTake, TypeOK, AtMostOnce
  <2>3. /\ busy' = [busy EXCEPT ![<<s, w>>] = {v}]
        /\ delivered' = [delivered EXCEPT ![s] = @ \union {v}]
    BY <1>2, <2>1 DEF WorkerTake
  <2>4. busy \in [Subs \X Workers -> SUBSET Value] /\ delivered \in [Subs -> SUBSET Value]
    BY DEF TypeOK, Pool
  <2>5. ASSUME NEW t \in Subs, NEW u \in Workers
        PROVE  /\ busy'[<<t, u>>] = IF t = s /\ u = w THEN {v} ELSE busy[<<t, u>>]
               /\ delivered'[t] = IF t = s THEN delivered[t] \union {v} ELSE delivered[t]
    BY <2>3, <2>4
  <2>6. ASSUME NEW t \in Subs, NEW u \in Workers
        PROVE  /\ busy'[<<t, u>>] \subseteq delivered'[t]
               /\ \A x, y \in busy'[<<t, u>>] : x = y
               /\ \A k \in Workers : k # u => busy'[<<t, u>>] \cap busy'[<<t, k>>] = {}
    <3>1. /\ busy[<<t, u>>] \subseteq delivered[t] /\ \A x, y \in busy[<<t, u>>] : x = y
          /\ \A k \in Workers : /\ k # u => busy[<<t, u>>] \cap busy[<<t, k>>] = {}
                                /\ busy[<<t, k>>] \subseteq delivered[t]
      BY DEF BusyInv
    <3>2. /\ busy'[<<t, u>>] \subseteq delivered'[t]
          /\ \A x, y \in busy'[<<t, u>>] : x = y
      <4>1. CASE t = s /\ u = w
        <5>1. busy'[<<t, u>>] = {v} /\ v \in delivered'[t]
          BY <2>5, <4>1
        <5> QED BY <5>1
      <4>2. CASE t # s \/ u # w
        <5>1. busy'[<<t, u>>] = busy[<<t, u>>] /\ delivered[t] \subseteq delivered'[t]
          BY <2>5, <4>2
        <5> QED BY <3>1, <5>1
      <4> QED BY <4>1, <4>2
    <3>3. ASSUME NEW k \in Workers, k # u
          PROVE  busy'[<<t, u>>] \cap busy'[<<t, k>>] = {}
      <4>1. /\ busy'[<<t, u>>] = IF t = s /\ u = w THEN {v} ELSE busy[<<t, u>>]
            /\ busy'[<<t, k>>] = IF t = s /\ k = w THEN {v} ELSE busy[<<t, k>>]
        BY <2>5
      <4>2. t = s => v \notin busy[<<t, u>>] /\ v \notin busy[<<t, k>>]
        BY <2>2, <3>1
      <4>3. busy[<<t, u>>] \cap busy[<<t, k>>] = {}
        BY <3>1, <3>3
      <4> QED BY <3>3, <4>1, <4>2, <4>3
    <3> QED BY <3>2, <3>3
  <2> QED BY <2>6 DEF BusyInv
<1>3. ASSUME NEW s \in Subs, NEW w \in Workers, FnReturn(s, w) PROVE BusyInv'
  <2>1. busy \in [Subs \X Workers -> SUBSET Value] /\ busy' = [busy EXCEPT ![<<s, w>>] = {}]
    BY <1>3 DEF FnReturn, TypeOK, Pool
  <2>2. \A t \in Subs, u \in Workers :
          busy'[<<t, u>>] = IF t = s /\ u = w THEN {} ELSE busy[<<t, u>>]
    BY <2>1
  <2>3. delivered' = delivered
    BY <1>3 DEF FnReturn
  <2>4. ASSUME NEW t \in Subs, NEW u \in Workers
        PROVE  /\ busy'[<<t, u>>] \subseteq delivered'[t]
               /\ \A x, y \in busy'[<<t, u>>] : x = y
               /\ \A k \in Workers : k # u => busy'[<<t, u>>] \cap busy'[<<t, k>>] = {}
    BY <2>2, <2>3 DEF BusyInv
  <2> QED BY <2>4 DEF BusyInv
<1>4. ASSUME NEW s \in Subs, NEW w \in Workers, WorkerExit(s, w) PROVE BusyInv'
  BY <1>1, <1>4 DEF WorkerExit
<1>5. ASSUME NEW s \in Subs, SubscribeLock(s) PROVE BusyInv'
  BY <1>1, <1>5 DEF SubscribeLock
<1>6. ASSUME NEW s \in Subs, SubscribeRegister(s) PROVE BusyInv'
  BY <1>1, <1>6 DEF SubscribeRegister
<1>7. ASSUME NEW s \in Subs, SubscribeReturn(s) PROVE BusyInv'
  BY <1>1, <1>7 DEF SubscribeReturn
<1>8. ASSUME NEW s \in Subs, NEW u \in Users, UnsubCall(s, u) PROVE BusyInv'
  BY <1>1, <1>8 DEF UnsubCall
<1>9. ASSUME NEW s \in Subs, NEW c \in Callers, UnsubStep(s, c) PROVE BusyInv'
  BY <1>1, <1>9 DEF UnsubStep, OnceFirst, OnceAgain, UnsubLock, UnsubClose, UnsubReturn
<1>10. ASSUME NEW p \in Publishers, PublishCall(p) \/ PublishRange(p) \/ PublishFinish(p)
       PROVE  BusyInv'
  BY <1>1, <1>10 DEF PublishCall, PublishRange, PublishFinish
<1>11. ASSUME NEW p \in Publishers, NEW s \in Subs, PublishPick(p, s) \/ PublishSend(p, s)
       PROVE  BusyInv'
  BY <1>1, <1>11 DEF PublishPick, PublishSend
<1>12. CASE WatchStep \/ Cancel
  BY <1>1, <1>12 DEF WatchStep, WatchLock, WatchCollect, WatchReturn, Cancel
<1>13. CASE UNCHANGED vars
  BY <1>1, <1>13 DEF vars
<1> QED
  BY <1>2, <1>3, <1>4, <1>5, <1>6, <1>7, <1>8, <1>9, <1>10, <1>11, <1>12, <1>13
     DEF Next, SubscribeStep, WorkerStep, PublishStep, Callers

(* The phase of a subscription, case by case: the guards exclude another.  *)
Early(s) == subPc[s] \in {"idle", "pending"}

PhaseInv ==
  \A s \in Subs :
    /\ Early(s) => Phase(s) = "absent" /\ s \notin subs
    /\ s \in subs => Phase(s) = "member" /\ once[s] # "done"
    /\ ~Early(s) /\ s \notin subs => Phase(s) = IF once[s] = "done" THEN "gone" ELSE "leaving"

LEMMA PhaseIs == IInv => PhaseInv
<1> SUFFICES ASSUME ClosedInv, ExitInv, OnceInv, NEW s \in Subs
             PROVE  /\ Early(s) => Phase(s) = "absent" /\ s \notin subs
                    /\ s \in subs => Phase(s) = "member" /\ once[s] # "done"
                    /\ ~Early(s) /\ s \notin subs =>
                         Phase(s) = IF once[s] = "done" THEN "gone" ELSE "leaving"
  BY DEF IInv, PhaseInv
<1>1. Early(s) => s \notin subs /\ once[s] # "done"
  BY BusAssumption DEF ClosedInv, ExitInv, OnceInv, Early
<1>2. s \in subs => once[s] # "done" /\ ~Early(s)
  BY BusAssumption DEF ClosedInv, ExitInv, OnceInv, Early
<1>3. Early(s) => Phase(s) = "absent"
  BY <1>1 DEF Phase, Early
<1>4. s \in subs => Phase(s) = "member"
  BY <1>2 DEF Phase, Early
<1>5. ~Early(s) /\ s \notin subs /\ once[s] = "done" => Phase(s) = "gone"
  BY DEF Phase, Early
<1>6. ~Early(s) /\ s \notin subs /\ once[s] # "done" => Phase(s) = "leaving"
  BY DEF Phase, Early
<1> QED BY <1>1, <1>2, <1>3, <1>4, <1>5, <1>6

Running(s) == UNION {busy[<<s, w>>] : w \in Workers}

(* Every step is one of FanOut's, or none.                                 *)
LEMMA FanOutStep == IInv /\ IInv' /\ BusyInv /\ [Next]_vars => [FO!Next]_(FO!vars)
<1> SUFFICES ASSUME IInv, IInv', BusyInv, [Next]_vars PROVE [FO!Next]_(FO!vars)
  OBVIOUS
<1> USE DEF lockVars, chanVars, subVars, unsubVars, pubVars, watchVars
<1>1. PhaseInv /\ PhaseInv'
  <2>1. IInv' => PhaseInv'
    BY PhaseIs, PTL
  <2> QED BY <2>1, PhaseIs
<1>2. /\ TypeOK /\ RangeInv /\ ClosedInv /\ ExitInv /\ OnceInv
      /\ busy \in [Subs \X Workers -> SUBSET Value] /\ chan \in [Subs -> Seq(Value)]
      /\ once \in [Subs -> {"new", "running", "done"}]
      /\ subPc \in [Subs -> {"idle", "pending", "unsub", "returned"}]
  BY DEF IInv, TypeOK, Pool
(* What leaves the channels, the pools and the phases alone is a stutter.  *)
<1>3. ASSUME UNCHANGED <<chan, busy>>, \A s \in Subs : Phase(s)' = Phase(s)
      PROVE  UNCHANGED FO!vars
  BY <1>3 DEF FO!vars
<1>4. ASSUME UNCHANGED <<chan, busy, subs>>,
             \A s \in Subs : Early(s)' <=> Early(s),
             \A s \in Subs : once'[s] = "done" <=> once[s] = "done"
      PROVE  UNCHANGED FO!vars
  <2>1. \A s \in Subs : Phase(s)' = Phase(s)
    BY <1>1, <1>4 DEF PhaseInv
  <2> QED BY <1>3, <1>4, <2>1
<1>5. ASSUME UNCHANGED <<chan, busy, subs, subPc, once>>
      PROVE  UNCHANGED FO!vars
  BY <1>4, <1>5 DEF Early
(* The phase of one subscription changes.                                  *)
<1>6. ASSUME NEW s \in Subs, UNCHANGED <<chan, busy>>,
             \A t \in Subs : t # s => Phase(t)' = Phase(t),
             \/ Phase(s) = "absent" /\ Phase(s)' = "member"
             \/ Phase(s) = "member" /\ Phase(s)' = "leaving"
             \/ Phase(s) = "leaving" /\ Phase(s)' = "gone" /\ chan[s] = <<>> /\ Running(s) = {}
      PROVE  FO!Next
  BY <1>6 DEF FO!Next, FO!Join, FO!Leave, FO!Depart, Running
<1>7. ASSUME NEW s \in Subs, SubscribeLock(s) PROVE UNCHANGED FO!vars
  BY <1>2, <1>4, <1>7 DEF SubscribeLock, Early
<1>8. ASSUME NEW s \in Subs, SubscribeRegister(s) PROVE FO!Next
  <2>1. /\ Early(s) /\ subPc'[s] \in {"unsub", "returned"}
        /\ \A t \in Subs : t # s => subPc'[t] = subPc[t]
        /\ subs' = subs \union {s} /\ UNCHANGED <<chan, busy, once>>
    BY <1>2, <1>8 DEF SubscribeRegister, Early
  <2>2. Phase(s) = "absent" /\ Phase(s)' = "member"
    BY <1>1, <2>1 DEF PhaseInv
  <2>3. \A t \in Subs : t # s => Phase(t)' = Phase(t)
    BY <1>1, <2>1 DEF PhaseInv, Early
  <2> QED BY <1>6, <2>1, <2>2, <2>3
<1>9. ASSUME NEW s \in Subs, SubscribeReturn(s) PROVE UNCHANGED FO!vars
  BY <1>2, <1>4, <1>9 DEF SubscribeReturn, Early
<1>10. ASSUME NEW s \in Subs, NEW u \in Users, UnsubCall(s, u) PROVE UNCHANGED FO!vars
  BY <1>5, <1>10 DEF UnsubCall
<1>11. ASSUME NEW s \in Subs, NEW c \in Callers, OnceFirst(s, c) PROVE UNCHANGED FO!vars
  BY <1>2, <1>4, <1>11 DEF OnceFirst, Early
<1>12. ASSUME NEW s \in Subs, NEW c \in Callers, OnceAgain(s, c) \/ UnsubLock(s, c)
       PROVE  UNCHANGED FO!vars
  BY <1>5, <1>12 DEF OnceAgain, UnsubLock
<1>13. ASSUME NEW s \in Subs, NEW c \in Callers, UnsubClose(s, c) PROVE [FO!Next]_(FO!vars)
  <2>1. CASE s \in subs
    <3>1. subs' = subs \ {s} /\ UNCHANGED <<chan, busy, once, subPc>>
      BY <1>13, <2>1 DEF UnsubClose
    <3>2. Phase(s) = "member" /\ Phase(s)' = "leaving"
      BY <1>1, <2>1, <3>1 DEF PhaseInv, Early
    <3>3. \A t \in Subs : t # s => Phase(t)' = Phase(t)
      BY <1>1, <3>1 DEF PhaseInv, Early
    <3> QED BY <1>6, <3>1, <3>2, <3>3
  <2>2. CASE s \notin subs
    BY <1>5, <1>13, <2>2 DEF UnsubClose
  <2> QED BY <2>1, <2>2
<1>14. ASSUME NEW s \in Subs, NEW c \in Callers, UnsubReturn(s, c) PROVE [FO!Next]_(FO!vars)
  <2>1. /\ once' = [once EXCEPT ![s] = "done"] /\ UNCHANGED <<chan, busy, subs, subPc>>
        /\ \A w \in Workers : <<s, w>> \in exited
    BY <1>14 DEF UnsubReturn, Joined
  <2>2. /\ s \in closed /\ chan[s] = <<>> /\ \A w \in Workers : busy[<<s, w>>] = {}
    BY <1>2, <2>1, BusAssumption DEF ExitInv
  <2>3. s \notin subs /\ ~Early(s) /\ Running(s) = {}
    BY <1>2, <2>2 DEF ClosedInv, Early, Running
  <2>4. CASE once[s] = "done"
    <3>1. once' = once
      BY <1>2, <2>1, <2>4
    <3> QED BY <1>5, <2>1, <3>1
  <2>5. CASE once[s] # "done"
    <3>1. Phase(s) = "leaving" /\ Phase(s)' = "gone"
      BY <1>1, <1>2, <2>1, <2>3, <2>5 DEF PhaseInv, Early
    <3>2. \A t \in Subs : t # s => Phase(t)' = Phase(t)
      <4>1. \A t \in Subs : t # s => once'[t] = once[t] /\ (Early(t)' <=> Early(t))
        BY <1>2, <2>1 DEF Early
      <4> QED BY <1>1, <2>1, <4>1 DEF PhaseInv
    <3> QED BY <1>6, <2>1, <2>2, <2>3, <3>1, <3>2
  <2> QED BY <2>4, <2>5
<1>15. ASSUME NEW p \in Publishers, PublishCall(p) \/ PublishRange(p) \/ PublishFinish(p)
       PROVE  UNCHANGED FO!vars
  BY <1>5, <1>15 DEF PublishCall, PublishRange, PublishFinish
<1>16. ASSUME NEW p \in Publishers, NEW s \in Subs, PublishPick(p, s) PROVE UNCHANGED FO!vars
  BY <1>5, <1>16 DEF PublishPick
(* Phases only change in Subscribe and unsubscribe.                        *)
<1>17. ASSUME UNCHANGED <<subs, subPc, once>>
       PROVE  [s \in Subs |-> Phase(s)]' = [s \in Subs |-> Phase(s)]
  BY <1>1, <1>17 DEF PhaseInv, Early
<1>18. ASSUME NEW p \in Publishers, NEW s \in Subs, PublishSend(p, s) PROVE FO!Next
  <2>1. s \in subs /\ s \notin closed /\ published[p] \in 1 .. MaxPublish
    <3>1. s \in sending[p]
      BY <1>18 DEF PublishSend
    <3>2. pubPc[p] = "range" /\ s \in subs /\ published[p] > 0
      BY <1>2, <3>1 DEF RangeInv
    <3>3. published[p] \in 0 .. MaxPublish
      BY <1>2 DEF TypeOK
    <3> QED BY <1>2, <3>2, <3>3, BusAssumption DEF ClosedInv
  <2>2. /\ chan' = [chan EXCEPT ![s] = Append(@, <<p, published[p]>>)]
        /\ UNCHANGED <<busy, subs, subPc, once>> /\ <<p, published[p]>> \in Value
    BY <1>18, <2>1 DEF PublishSend, Value
  <2>3. FO!Accept(s, <<p, published[p]>>)
    <3>1. Phase(s) = "member"
      BY <1>1, <2>1 DEF PhaseInv
    <3>2. [t \in Subs |-> Phase(t)]' = [t \in Subs |-> Phase(t)]
      BY <1>17, <2>2
    <3> QED BY <2>2, <3>1, <3>2 DEF FO!Accept
  <2> QED BY <2>2, <2>3 DEF FO!Next
<1>19. ASSUME NEW s \in Subs, NEW w \in Workers, WorkerTake(s, w) PROVE FO!Next
  <2>1. PICK v : v = Head(chan[s])
    OBVIOUS
  <2>2. /\ chan[s] # <<>> /\ chan' = [chan EXCEPT ![s] = Tail(@)]
        /\ busy[<<s, w>>] = {} /\ busy' = [busy EXCEPT ![<<s, w>>] = {v}]
        /\ UNCHANGED <<subs, subPc, once>>
    BY <1>19, <2>1 DEF WorkerTake
  <2>3. \A t \in Subs, u \in Workers :
          busy'[<<t, u>>] = IF t = s /\ u = w THEN {v} ELSE busy[<<t, u>>]
    BY <1>2, <2>2
  <2>4. Running(s)' = Running(s) \union {v} /\ \A t \in Subs : t # s => Running(t)' = Running(t)
    <3>1. \A t \in Subs : \A x : x \in Running(t) <=> \E u \in Workers : x \in busy[<<t, u>>]
      BY DEF Running
    <3>2. \A t \in Subs : \A x : x \in Running(t)' <=> \E u \in Workers : x \in busy'[<<t, u>>]
      BY DEF Running
    <3>3. \A x : x \in Running(s)' <=> x \in Running(s) \/ x = v
      <4>1. \A u \in Workers : busy'[<<s, u>>] = IF u = w THEN {v} ELSE busy[<<s, u>>]
        BY <2>3
      <4>2. \A u \in Workers : \A x :
              x \in busy'[<<s, u>>] <=> x \in busy[<<s, u>>] \/ (u = w /\ x = v)
        BY <2>2, <4>1
      <4> QED BY <3>1, <3>2, <4>2
    <3>4. \A t \in Subs : t # s => \A x : x \in Running(t)' <=> x \in Running(t)
      BY <2>3, <3>1, <3>2
    <3>5. Running(s)' = Running(s) \union {v}
      BY <3>3
    <3>6. \A t \in Subs : t # s => Running(t)' = Running(t)
      BY <3>4
    <3> QED BY <3>5, <3>6
  <2>5. [t \in Subs |-> Running(t)]' = [[t \in Subs |-> Running(t)] EXCEPT ![s] = @ \union {v}]
    BY <2>4
  <2>6. [t \in Subs |-> Phase(t)]' = [t \in Subs |-> Phase(t)]
    BY <1>17, <2>2
  <2>7. FO!Handle(s)
    BY <2>1, <2>2, <2>5, <2>6 DEF FO!Handle, Running
  <2> QED BY <2>7 DEF FO!Next
<1>20. ASSUME NEW s \in Subs, NEW w \in Workers, FnReturn(s, w) PROVE FO!Next
  <2>1. /\ busy[<<s, w>>] # {} /\ busy' = [busy EXCEPT ![<<s, w>>] = {}]
        /\ UNCHANGED <<chan, subs, subPc, once>>
    BY <1>20 DEF FnReturn
  <2>2. PICK v \in Value : busy[<<s, w>>] = {v}
    <3>1. PICK v \in busy[<<s, w>>] : v \in Value
      BY <1>2, <2>1
    <3>2. \A x, y \in busy[<<s, w>>] : x = y
      BY DEF BusyInv
    <3>3. busy[<<s, w>>] = {v}
      BY <3>2
    <3> QED BY <3>1, <3>3
  <2>3. \A u \in Workers : u # w => v \notin busy[<<s, u>>]
    BY <2>2 DEF BusyInv
  <2>4. \A t \in Subs, u \in Workers :
          busy'[<<t, u>>] = IF t = s /\ u = w THEN {} ELSE busy[<<t, u>>]
    BY <1>2, <2>1
  <2>5. /\ v \in Running(s) /\ Running(s)' = Running(s) \ {v}
        /\ \A t \in Subs : t # s => Running(t)' = Running(t)
    <3>1. \A t \in Subs : \A x : x \in Running(t) <=> \E u \in Workers : x \in busy[<<t, u>>]
      BY DEF Running
    <3>2. \A t \in Subs : \A x : x \in Running(t)' <=> \E u \in Workers : x \in busy'[<<t, u>>]
      BY DEF Running
    <3>3. \A x : x \in Running(s)' <=> x \in Running(s) /\ x # v
      <4>1. \A u \in Workers : busy'[<<s, u>>] = IF u = w THEN {} ELSE busy[<<s, u>>]
        BY <2>4
      <4>2. \A u \in Workers : \A x : x \in busy'[<<s, u>>] <=> x \in busy[<<s, u>>] /\ x # v
        BY <2>2, <2>3, <4>1
      <4> QED BY <3>1, <3>2, <4>2
    <3>4. \A t \in Subs : t # s => \A x : x \in Running(t)' <=> x \in Running(t)
      BY <2>4, <3>1, <3>2
    <3>5. v \in Running(s)
      BY <2>2, <3>1
    <3>6. Running(s)' = Running(s) \ {v}
      BY <3>3
    <3>7. \A t \in Subs : t # s => Running(t)' = Running(t)
      BY <3>4
    <3> QED BY <3>5, <3>6, <3>7
  <2>6. [t \in Subs |-> Running(t)]' = [[t \in Subs |-> Running(t)] EXCEPT ![s] = @ \ {v}]
    BY <2>5
  <2>7. [t \in Subs |-> Phase(t)]' = [t \in Subs |-> Phase(t)]
    BY <1>17, <2>1
  <2>8. FO!Handled(s, v)
    BY <2>1, <2>5, <2>6, <2>7 DEF FO!Handled, Running
  <2> QED BY <2>8 DEF FO!Next
<1>21. ASSUME NEW s \in Subs, NEW w \in Workers, WorkerExit(s, w) PROVE UNCHANGED FO!vars
  BY <1>5, <1>21 DEF WorkerExit
<1>22. CASE WatchStep \/ Cancel
  BY <1>5, <1>22 DEF WatchStep, WatchLock, WatchCollect, WatchReturn, Cancel
<1>23. CASE UNCHANGED vars
  BY <1>5, <1>23 DEF vars
<1> QED
  BY <1>7, <1>8, <1>9, <1>10, <1>11, <1>12, <1>13, <1>14, <1>15, <1>16, <1>18, <1>19, <1>20,
     <1>21, <1>22, <1>23
     DEF Next, SubscribeStep, UnsubStep, WorkerStep, PublishStep, Callers

(* A topic is, for each of its subscribers, the inbox FanOut describes:    *)
(* it accepts values while the subscriber is a member, hands them over in  *)
(* their order, each once, and is empty and idle when it is gone.          *)
THEOREM ImplementsFanOut == Spec => RefinesFanOut
<1>1. Init => FO!Init
  <2> SUFFICES ASSUME Init PROVE FO!Init
    OBVIOUS
  <2>1. \A s \in Subs : Phase(s) = "absent"
    <3>1. PhaseInv
      BY InitIInv, PhaseIs
    <3> QED BY <3>1 DEF PhaseInv, Early, Init
  <2>2. \A s \in Subs : Running(s) = {}
    BY DEF Running, Init, Pool
  <2> QED BY <2>1, <2>2 DEF FO!Init, Init, Running
<1>2. Init => BusyInv
  BY DEF Init, BusyInv, Pool
<1>3. IInv /\ BusyInv /\ [Next]_vars => BusyInv'
  BY BusyStep DEF IInv
<1>4. IInv /\ IInv' /\ BusyInv /\ [Next]_vars => [FO!Next]_(FO!vars)
  BY FanOutStep
<1> QED BY <1>1, <1>2, <1>3, <1>4, Invariance, PTL DEF Spec, RefinesFanOut, FO!Spec
=============================================================================

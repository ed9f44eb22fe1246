---------------------------- MODULE CacheProofs -----------------------------
(***************************************************************************)
(* Theorems about CacheClient, for any sets of callers and users and any   *)
(* number of calls, retries and handles.  The inductive invariant is IInv. *)
(***************************************************************************)
EXTENDS CacheClient, TLAPS

(* A caller holds or waits for the lock while it stores, and only the store*)
(* of a Start has a handle in hand.                                        *)
StoreInv ==
  \A x \in Callers :
    /\ pc[x] = "setting" <=> writer = x
    /\ mine[x] # 0 => pc[x] \in {"set", "setting"}

(* An operation under way has its span open, if it has one, and no answer. *)
OpInv ==
  \A o \in Users : opPc[o] # "idle" => span[o] \in {"none", "open"} /\ answer[o] = "none"

IInv == TypeOK /\ StoreInv /\ OpInv /\ SpansEnd

(* The initial states satisfy the inductive invariant.                     *)
LEMMA InitIInv == Init => IInv
<1> SUFFICES ASSUME Init PROVE IInv
  OBVIOUS
<1> USE CacheAssumption DEF Init, LockInit
<1>1. TypeOK
  <2>1. client \in 0 .. MaxHandle /\ fresh \in 0 .. MaxHandle /\ starts \in 0 .. MaxStart
    OBVIOUS
  <2>2. mine \in [Callers -> 0 .. MaxHandle]
    OBVIOUS
  <2>3. attempt \in [Callers -> Nat]
    OBVIOUS
  <2>4. hand \in [Users -> 0 .. MaxHandle]
    OBVIOUS
  <2>5. \A o \in Users : answer[o] \in {"hit", "error"} => hand[o] # 0
    OBVIOUS
  <2> QED BY <2>1, <2>2, <2>3, <2>4, <2>5 DEF TypeOK
<1>2. StoreInv
  BY DEF StoreInv
<1>3. OpInv /\ SpansEnd
  BY DEF OpInv, SpansEnd
<1> QED BY <1>1, <1>2, <1>3 DEF IInv

----------------------------------------------------------------------------
(* Start and Stop leave the operations alone.                              *)
LEMMA CallerStep ==
  ASSUME IInv, NEW x \in Callers, StartCall(x) \/ StopCall(x) \/ CallStep(x)
  PROVE  IInv'
<1> USE CacheAssumption DEF IInv, TypeOK
<1>1. UNCHANGED opVars => OpInv' /\ SpansEnd'
  BY DEF opVars, OpInv, SpansEnd
<1>2. CASE StartCall(x)
  <2> USE <1>2 DEF StartCall, Goto, lockVars, opVars
  <2>1. starts' \in 0 .. MaxStart /\ attempt' \in [Callers -> Nat]
    OBVIOUS
  <2>2. TypeOK'
    BY <2>1
  <2>3. StoreInv'
    BY DEF StoreInv
  <2> QED BY <1>1, <2>2, <2>3
<1>3. CASE ProbeOk(x)
  BY <1>1, <1>3 DEF ProbeOk, Goto, lockVars, opVars, StoreInv
<1>4. CASE ProbeFails(x)
  BY <1>1, <1>4 DEF ProbeFails, Goto, lockVars, opVars, StoreInv
<1>5. CASE Retry(x)
  BY <1>1, <1>5 DEF Retry, Goto, lockVars, opVars, StoreInv
<1>6. CASE StopCall(x)
  BY <1>1, <1>6 DEF StopCall, Goto, lockVars, opVars, StoreInv
<1>7. CASE SetLock(x)
  BY <1>1, <1>7 DEF SetLock, Announce, Goto, opVars, StoreInv
<1>8. CASE SetClient(x)
  BY <1>1, <1>8 DEF SetClient, Unlock, Holds, Goto, opVars, StoreInv
<1> QED BY <1>2, <1>3, <1>4, <1>5, <1>6, <1>7, <1>8 DEF CallStep

(* An operation leaves Start and Stop alone, but for the read lock.        *)
LEMMA OperationStep ==
  ASSUME IInv, NEW o \in Users, OpCall(o) \/ OpStep(o)
  PROVE  IInv'
<1> USE DEF IInv, TypeOK, callVars, OpGoto
<1>1. ASSUME UNCHANGED <<callVars, writer>>
      PROVE  StoreInv'
  BY <1>1 DEF StoreInv
<1>2. CASE OpCall(o)
  <2> USE <1>2 DEF OpCall, SpanStart, RLock
  <2>1. TypeOK'
    OBVIOUS
  <2>2. OpInv' /\ SpansEnd'
    BY DEF OpInv, SpansEnd
  <2> QED BY <1>1, <2>1, <2>2
<1>3. CASE GetClient(o)
  <2> USE <1>3 DEF GetClient, RUnlock
  <2>1. TypeOK'
    BY DEF OpInv
  <2>2. OpInv' /\ SpansEnd'
    BY DEF OpInv, SpansEnd
  <2> QED BY <1>1, <2>1, <2>2
<1>4. ASSUME NEW result \in {"hit", "miss", "ok", "error"},
             opPc[o] = "read", result \in {"hit", "error"} => hand[o] # 0,
             SpanEnd(o, result), answer' = [answer EXCEPT ![o] = result], OpGoto(o, "idle"),
             UNCHANGED <<lockVars, callVars, verb, hand>>
      PROVE  IInv'
  <2> USE <1>4 DEF SpanEnd, lockVars
  <2>1. TypeOK'
    OBVIOUS
  <2>2. OpInv' /\ SpansEnd'
    BY DEF OpInv, SpansEnd
  <2> QED BY <1>1, <2>1, <2>2
<1>5. CASE Disconnected(o)
  <2>1. Unserved[verb[o]] \in {"miss", "ok"}
    BY DEF Unserved
  <2> QED BY <1>4, <1>5, <2>1 DEF Disconnected
<1>6. ASSUME NEW v, NEW results \in SUBSET {"hit", "miss", "ok", "error"}, Served(o, v, results)
      PROVE  IInv'
  BY <1>4, <1>6 DEF Served
<1>7. CASE Get(o) \/ Set(o) \/ Delete(o)
  BY <1>6, <1>7 DEF Get, Set, Delete
<1> QED BY <1>2, <1>3, <1>5, <1>7 DEF OpStep

(* IInv is inductive.                                                      *)
LEMMA IInvStep == IInv /\ [Next]_vars => IInv'
<1>1. ASSUME IInv, UNCHANGED vars PROVE IInv'
  BY <1>1 DEF vars, lockVars, callVars, opVars, IInv, TypeOK, StoreInv, OpInv,
     SpansEnd
<1> QED BY <1>1, CallerStep, OperationStep DEF Next

(* IInv holds of every reachable state.                                    *)
THEOREM Invariance == Spec => []IInv
<1> QED BY InitIInv, IInvStep, PTL DEF Spec

(* Every variable keeps its type, and an answer that only the server can   *)
(* give is given with a handle at hand.                                    *)
THEOREM TypeCorrect == Spec => []TypeOK
<1>1. IInv => TypeOK
  BY DEF IInv
<1> QED BY <1>1, Invariance, PTL

(* Every way out of Get, Set and Delete ends the span, once, and marks it  *)
(* as failed exactly when the caller gets an error that is not a miss.     *)
THEOREM SpansAreEnded == Spec => []SpansEnd
<1>1. IInv => SpansEnd
  BY DEF IInv
<1> QED BY <1>1, Invariance, PTL
=============================================================================

---------------------------- MODULE CacheClient -----------------------------
(***************************************************************************)
(* memcached.Client (src/memcached): Start with its retries, Stop, and     *)
(* Get, Set and Delete with the span the tracer puts around each.          *)
(*                                                                         *)
(* Handles are numbered in the order they are made; 0 is nil.  A handle is *)
(* never closed: an operation that has read it uses it to its end.  The    *)
(* circuit is the application's; a call it refuses changes nothing here.   *)
(***************************************************************************)
EXTENDS RWMutex, Integers, FiniteSets

CONSTANTS Callers,      \* goroutines that call Start and Stop
          Users,        \* goroutines that use the client
          MaxRetries,   \* the option WithMaxRetries; 0 is no limit
          MaxStart,     \* bound: calls of Start
          MaxHandle     \* bound: handles made

ASSUME CacheAssumption ==
  /\ MaxRetries \in Nat /\ MaxStart \in Nat /\ MaxHandle \in Nat
  /\ NoOne \notin Callers

Handles == 1 .. MaxHandle

VARIABLES client,       \* m.client
          fresh,        \* how many handles were made
          pc,           \* where a caller is in Start or Stop
          attempt,      \* the attempts its Start has made
          mine,         \* the handle it is to store
          starts,       \* how often Start was called
          opPc,         \* where a user's operation is
          verb,         \* "GET", "SET" or "DELETE"
          hand,         \* the handle it has read
          span,         \* its span: "none", "open", "ended", "failed" or "twice"
          answer        \* what it returned

callVars == <<client, fresh, pc, attempt, mine, starts>>
opVars == <<opPc, verb, hand, span, answer>>
vars == <<lockVars, callVars, opVars>>

Init ==
  /\ LockInit
  /\ client = 0 /\ fresh = 0 /\ starts = 0
  /\ pc = [x \in Callers |-> "idle"]
  /\ attempt = [x \in Callers |-> 0]
  /\ mine = [x \in Callers |-> 0]
  /\ opPc = [o \in Users |-> "idle"]
  /\ verb = [o \in Users |-> "GET"]
  /\ hand = [o \in Users |-> 0]
  /\ span = [o \in Users |-> "none"]
  /\ answer = [o \in Users |-> "none"]

Goto(x, label) == pc' = [pc EXCEPT ![x] = label]
OpGoto(o, label) == opPc' = [opPc EXCEPT ![o] = label]

----------------------------------------------------------------------------
(* Start: every attempt makes a handle and asks the server for a key; that *)
(* there is none is an answer too.                                         *)

StartCall(x) ==
  /\ pc[x] = "idle" /\ starts < MaxStart
  /\ starts' = starts + 1
  /\ attempt' = [attempt EXCEPT ![x] = 0]
  /\ Goto(x, "attempt")
  /\ UNCHANGED <<lockVars, client, fresh, mine, opVars>>

ProbeOk(x) ==
  /\ pc[x] = "attempt" /\ fresh < MaxHandle
  /\ fresh' = fresh + 1
  /\ attempt' = [attempt EXCEPT ![x] = @ + 1]
  /\ mine' = [mine EXCEPT ![x] = fresh + 1]
  /\ Goto(x, "set")
  /\ UNCHANGED <<lockVars, client, starts, opVars>>

Enough(n) == MaxRetries > 0 /\ n >= MaxRetries

ProbeFails(x) ==
  /\ pc[x] = "attempt"
  /\ attempt' = [attempt EXCEPT ![x] = IF MaxRetries > 0 THEN @ + 1 ELSE @]
  /\ Goto(x, IF Enough(attempt[x] + 1) THEN "idle" ELSE "wait")
  /\ UNCHANGED <<lockVars, client, fresh, mine, starts, opVars>>

(* backoff.Retry waits; the time may be over or the context done.          *)
Retry(x) ==
  /\ pc[x] = "wait"
  /\ \E label \in {"attempt", "idle"} : Goto(x, label)
  /\ UNCHANGED <<lockVars, client, fresh, attempt, mine, starts, opVars>>

(* Stop is SetClient(nil).                                                 *)
StopCall(x) ==
  /\ pc[x] = "idle"
  /\ Goto(x, "set")
  /\ UNCHANGED <<lockVars, client, fresh, attempt, mine, starts, opVars>>

SetLock(x) ==
  /\ pc[x] = "set"
  /\ Announce(x)
  /\ Goto(x, "setting")
  /\ UNCHANGED <<client, fresh, attempt, mine, starts, opVars>>

SetClient(x) ==
  /\ pc[x] = "setting" /\ Holds(x)
  /\ client' = mine[x]
  /\ mine' = [mine EXCEPT ![x] = 0]
  /\ Unlock
  /\ Goto(x, "idle")
  /\ UNCHANGED <<fresh, attempt, starts, opVars>>

----------------------------------------------------------------------------
(* The tracer: no span without a parent, nor when the context opted out.   *)

SpanStart(o) == \E s \in {"none", "open"} : span' = [span EXCEPT ![o] = s]

(* A miss is no error.  A span that has ended stays as it is when it is    *)
(* ended again, which nobody should do.                                    *)
SpanEnd(o, result) ==
  span' = [span EXCEPT ![o] =
             IF @ = "none" THEN "none"
             ELSE IF @ # "open" THEN "twice"
             ELSE IF result = "error" THEN "failed" ELSE "ended"]

(* Get, Set and Delete start a span, read the handle under the read lock,  *)
(* and without one end at once: a miss, or nothing to do.                  *)

OpCall(o) ==
  /\ opPc[o] = "idle"
  /\ \E v \in {"GET", "SET", "DELETE"} : verb' = [verb EXCEPT ![o] = v]
  /\ SpanStart(o)
  /\ RLock(o)
  /\ OpGoto(o, "rlock")
  /\ answer' = [answer EXCEPT ![o] = "none"]
  /\ UNCHANGED <<callVars, hand>>

GetClient(o) ==
  /\ opPc[o] = "rlock" /\ o \in readers
  /\ hand' = [hand EXCEPT ![o] = client]
  /\ RUnlock(o)
  /\ OpGoto(o, "read")
  /\ UNCHANGED <<callVars, verb, span, answer>>

Unserved == [GET |-> "miss", SET |-> "ok", DELETE |-> "ok"]

BugDisconnected(o) ==
  /\ opPc[o] = "read" /\ hand[o] = 0
  /\ answer' = [answer EXCEPT ![o] = Unserved[verb[o]]]
  /\ OpGoto(o, "idle")
  /\ UNCHANGED <<lockVars, callVars, verb, hand, span>>

Disconnected(o) ==
  /\ opPc[o] = "read" /\ hand[o] = 0
  /\ SpanEnd(o, Unserved[verb[o]])
  /\ answer' = [answer EXCEPT ![o] = Unserved[verb[o]]]
  /\ OpGoto(o, "idle")
  /\ UNCHANGED <<lockVars, callVars, verb, hand>>

(* With a handle the server is asked, whatever happens to the client.      *)
BugServed(o, v, results) ==
  /\ opPc[o] = "read" /\ client # 0 /\ verb[o] = v
  /\ \E result \in results :
       SpanEnd(o, result) /\ answer' = [answer EXCEPT ![o] = result]
  /\ OpGoto(o, "idle")
  /\ UNCHANGED <<lockVars, callVars, verb, hand>>

Served(o, v, results) ==
  /\ opPc[o] = "read" /\ hand[o] # 0 /\ verb[o] = v
  /\ \E result \in results :
       SpanEnd(o, result) /\ answer' = [answer EXCEPT ![o] = result]
  /\ OpGoto(o, "idle")
  /\ UNCHANGED <<lockVars, callVars, verb, hand>>

Get(o) == Served(o, "GET", {"hit", "miss", "error"})
Set(o) == Served(o, "SET", {"ok", "error"})
Delete(o) == Served(o, "DELETE", {"ok", "miss", "error"})

----------------------------------------------------------------------------
CallStep(x) == ProbeOk(x) \/ ProbeFails(x) \/ Retry(x) \/ SetLock(x) \/ SetClient(x)
OpStep(o) == GetClient(o) \/ Disconnected(o) \/ Get(o) \/ Set(o) \/ Delete(o)

Next ==
  \/ \E x \in Callers : StartCall(x) \/ StopCall(x) \/ CallStep(x)
  \/ \E o \in Users : OpCall(o) \/ OpStep(o)

Spec == Init /\ [][Next]_vars

----------------------------------------------------------------------------
(* What the client guarantees.                                             *)

(* Every variable has its type, and an answer that only the server can     *)
(* give is only given with a handle at hand.                               *)
TypeOK ==
  /\ readers \subseteq Users /\ blocked \subseteq Users
  /\ writer \in Callers \union {NoOne}
  /\ client \in 0 .. MaxHandle /\ fresh \in 0 .. MaxHandle
  /\ pc \in [Callers -> {"idle", "attempt", "wait", "set", "setting"}]
  /\ attempt \in [Callers -> Nat]
  /\ mine \in [Callers -> 0 .. MaxHandle]
  /\ starts \in 0 .. MaxStart
  /\ opPc \in [Users -> {"idle", "rlock", "read"}]
  /\ verb \in [Users -> {"GET", "SET", "DELETE"}]
  /\ hand \in [Users -> 0 .. MaxHandle]
  /\ span \in [Users -> {"none", "open", "ended", "failed", "twice"}]
  /\ answer \in [Users -> {"none", "hit", "miss", "ok", "error"}]
  /\ \A o \in Users : answer[o] \in {"hit", "error"} => hand[o] # 0

(* The span an operation opened has ended, once, when the operation        *)
(* returns, on every way out, and tells of an error exactly when the       *)
(* caller got one that is not a miss.                                      *)
SpansEnd ==
  \A o \in Users : opPc[o] = "idle" =>
    /\ span[o] \notin {"open", "twice"}
    /\ span[o] # "none" => (span[o] = "failed" <=> answer[o] = "error")
=============================================================================

--------------------------- MODULE ServiceProofs ----------------------------
(***************************************************************************)
(* Theorems about Service, for any number of requests and any chains.      *)
(*                                                                         *)
(* A step of Service moves one request.  Move says how, field by field, and*)
(* LEMMA Moves that it says so of every action; the invariants are about   *)
(* one request and the instruments of its transport, and each is proved    *)
(* preserved by the kinds of moves.                                        *)
(***************************************************************************)
EXTENDS Service, FiniteSetTheorems, TLAPS

(* The request that opted out.                                             *)
Skip(x) == x.input.transport = "http" /\ Reduced(x)

(* What a move leaves alone.                                               *)
Kept(x, y) ==
  y.input = x.input /\ y.counted = x.counted /\ y.failed = x.failed /\ y.held = x.held
Routed(x, y) == y.clones = x.clones /\ y.pattern = x.pattern
Silent(x, y) == y.answer = x.answer /\ y.status = x.status
Wrote(x, y, s) ==
  /\ y.answer = IF x.answer = None THEN s ELSE x.answer
  /\ y.status = IF x.defers # {} THEN s ELSE x.status
Ended(x, y) == y.end = x.end /\ y.cause = x.cause

Thrown == {Value} \union {Error(class, wraps) : class \in Raised, wraps \in 0 .. Wraps}

----------------------------------------------------------------------------
(* The kinds of moves.                                                     *)
Arrives(x, y) ==
  /\ x = Idle /\ y.input \in Arrivals /\ y.mode = "in" /\ y.at = 1
  /\ y.answer = None /\ y.err = Nil /\ y.end = "none" /\ y.defers = {} /\ y.status = 200
  /\ y.pattern = None /\ y.counted = <<>> /\ ~y.failed

Forward(x, y) ==
  /\ x.mode = "in" /\ y.mode = "in" /\ x.at \in DOMAIN Chain(x) /\ y.at = x.at + 1
  /\ Kept(x, y) /\ Silent(x, y) /\ Ended(x, y) /\ y.err = x.err /\ y.defers = x.defers
  /\ Here(x) = "metrics" => Skip(x)
  /\ Here(x) = "mux" => x.input.matched /\ y.pattern = x.clones
  /\ Here(x) # "mux" => y.pattern = x.pattern
  /\ Here(x) # "logger" \/ x.input.transport # "http" => y.clones = x.clones

Writes(x, y) ==
  /\ x.input.transport = "http" /\ x.answer = None
  /\ x.mode = "in" /\ y.mode = "in" /\ Here(x) = "handler" /\ y.at = x.at
  /\ Kept(x, y) /\ Ended(x, y) /\ Routed(x, y) /\ y.err = x.err /\ y.defers = x.defers
  /\ \E s \in Written : Wrote(x, y, s)

(* From the way in to the way out.                                         *)
Back(x, y) ==
  /\ y.mode \in {"out", "panic"} /\ x.at >= 1 /\ y.at = x.at - 1
  /\ Routed(x, y) /\ y.input = x.input /\ y.held = x.held

HttpTurns(x, y) ==
  /\ x.input.transport = "http"
  /\ \/ Silent(x, y) /\ y.mode = "out" /\ y.end = "returned"
     \/ /\ Silent(x, y) /\ y.mode = "panic" /\ y.cause \in Thrown /\ y.err = y.cause
        /\ y.end = IF x.answer = None THEN "panicked" ELSE "late"
     \/ /\ x.answer = None /\ y.mode = "out" /\ y.end = "failed" /\ y.cause \in Thrown
        /\ y.cause # Value /\ Wrote(x, y, ErrorToHTTP(y.cause))

GrpcTurns(x, y) ==
  /\ x.input.transport # "http" /\ Silent(x, y) /\ y.err = y.cause
  /\ \/ y.mode = "out" /\ y.end = "returned" /\ y.cause = Nil
     \/ y.mode = "out" /\ y.end = "failed" /\ y.cause # Nil
     \/ y.mode = "panic" /\ y.end = "panicked" /\ y.cause = Value

Turns(x, y) ==
  /\ x.mode = "in" /\ Here(x) = "handler" /\ Back(x, y)
  /\ Kept(x, y) /\ y.defers = x.defers
  /\ HttpTurns(x, y) \/ GrpcTurns(x, y)

NotFound(x, y) ==
  /\ x.mode = "in" /\ Here(x) = "mux" /\ ~x.input.matched /\ Back(x, y)
  /\ Kept(x, y) /\ y.defers = x.defers /\ y.mode = "out"
  /\ y.end = "returned" /\ Wrote(x, y, 404)

(* Out through a layer, as it is or as the layer makes it.                 *)
Passes(x, y) ==
  /\ Here(x) = "recovery" => x.mode = "out"
  /\ Here(x) = "error" => x.mode = IF x.input.transport = "http" THEN "out" ELSE "panic"
  /\ y.mode = x.mode /\ Silent(x, y) /\ y.err = x.err

Converted(x, y) ==
  /\ Here(x) = "error" /\ x.input.transport # "http" /\ x.mode = "out"
  /\ y.mode = "out" /\ Silent(x, y) /\ y.err = ErrorToGRPCError(x.err)

Rescued(x, y) ==
  /\ x.mode = "panic" /\ y.mode = "out"
  /\ \/ /\ Here(x) = "recovery" /\ x.input.transport # "http"
        /\ Silent(x, y) /\ y.err = Status(Internal)
     \/ /\ Here(x) = "recovery" /\ x.input.transport = "http" /\ Wrote(x, y, 500)
     \/ /\ Here(x) = "error" /\ x.input.transport = "http" /\ Wrote(x, y, Recovered(x.err))

Outward(x, y) ==
  /\ x.mode \in {"out", "panic"} /\ x.at \in DOMAIN Chain(x) /\ Back(x, y)
  /\ Kept(x, y) /\ Ended(x, y) /\ y.defers = x.defers
  /\ Here(x) = "metrics" => Skip(x)
  /\ Passes(x, y) \/ Converted(x, y) \/ Rescued(x, y)

Ends(x, y) ==
  /\ x.at = 0 /\ y.at = 0 /\ Kept(x, y) /\ Ended(x, y) /\ y.defers = x.defers
  /\ \/ /\ x.mode = "out" /\ y.mode = "done"
        /\ y.answer = IF x.input.transport # "http" THEN CodeOf(x.err)
                      ELSE IF x.answer = None THEN 200 ELSE x.answer
     \/ x.mode = "panic" /\ y.mode = "escaped"

(* The moves at the metrics layer, which also change the instruments.      *)
AtMetrics(x) == Here(x) = "metrics" /\ ~Skip(x)

InitStarts(x, y, t) ==
  /\ x.mode = "in" /\ AtMetrics(x) /\ once[t] = "new"
  /\ y = [x EXCEPT !.mode = "init"] /\ y \in Records
  /\ once' = [once EXCEPT ![t] = "running"] /\ UNCHANGED <<made, inflight>>

Full(t) == IF t = "http" THEN Health ELSE Active

InitReturns(x, y, t) ==
  /\ x.mode = "init" /\ y = [x EXCEPT !.mode = "in"]
  /\ made' = [made EXCEPT ![t] = Full(t)]

InitPanics(x, y, t) ==
  /\ x.mode = "init" /\ y.mode = "panic" /\ y.failed /\ y.defers = x.defers
  /\ Back(x, y) /\ Silent(x, y) /\ Ended(x, y) /\ y.counted = x.counted
  /\ \E n \in Partial \union {Full(t)} : made' = [made EXCEPT ![t] = n]

Inits(x, y, t) ==
  /\ InitReturns(x, y, t) \/ InitPanics(x, y, t)
  /\ once' = [once EXCEPT ![t] = "done"] /\ UNCHANGED inflight

Counted(x, t) == x.input.path = "api" /\ made[t] >= Active

Opened(x, y, t) ==
  /\ x.mode = "in" /\ y.mode = "in" /\ AtMetrics(x) /\ y.at = x.at + 1 /\ once[t] = "done"
  /\ y.defers = IF Counted(x, t) THEN {"record", "inflight"} ELSE {"record"}
  /\ t = "http" => y.held = x.clones
  /\ y.input = x.input /\ y.counted = x.counted /\ y.failed = x.failed
  /\ Silent(x, y) /\ Ended(x, y) /\ Routed(x, y) /\ y.err = x.err
  /\ inflight' = IF Counted(x, t) THEN [inflight EXCEPT ![t] = @ + 1] ELSE inflight
  /\ UNCHANGED <<once, made>>

Instrument(x) == IF Healthcheck(x) /\ x.input.transport = "http" THEN Health ELSE Requested

Closed(x, y, t) ==
  /\ x.mode \in {"out", "panic"} /\ AtMetrics(x) /\ x.defers # {}
  /\ y.defers = {} /\ Back(x, y) /\ Silent(x, y) /\ Ended(x, y)
  /\ \/ y.mode = "panic" /\ y.failed
     \/ /\ y.mode = x.mode /\ y.failed = x.failed /\ y.err = x.err
        /\ \E slow \in BOOLEAN :
             y.counted =
               IF made[t] < Instrument(x) THEN x.counted
               ELSE Append(x.counted,
                           IF t # "http" THEN Sample(x, slow)
                           ELSE [series |-> IF Healthcheck(x) THEN "healthcheck" ELSE "request",
                                 route |-> RoutePattern(x), status |-> x.status,
                                 exemplar |-> Healthcheck(x) \/ AttachHTTPExemplar(x.status, slow)])
  /\ inflight' = IF "inflight" \in x.defers THEN [inflight EXCEPT ![t] = @ - 1] ELSE inflight
  /\ UNCHANGED <<once, made>>

Move(x, y) ==
  LET t == x.input.transport IN
  \/ /\ \/ Arrives(x, y) \/ Forward(x, y) \/ Writes(x, y) \/ Turns(x, y) \/ NotFound(x, y)
        \/ Outward(x, y) \/ Ends(x, y)
     /\ MeterUnchanged
  \/ InitStarts(x, y, t) \/ Inits(x, y, t) \/ Opened(x, y, t) \/ Closed(x, y, t)

Moved(r) ==
  /\ q' = [q EXCEPT ![r] = q'[r]] /\ q'[r] \in Records
  /\ (q[r].mode # "idle" => q'[r].input = q[r].input)
  /\ Move(q[r], q'[r])

----------------------------------------------------------------------------
(* The inductive invariant: first where a request is and what the metrics  *)
(* layer has deferred for it, which its place decides.                     *)
Place(x) ==
  /\ x.mode = "idle" => x = Idle
  /\ x.mode \in {"in", "init"} => x.at >= 1
  /\ x.mode = "init" => AtMetrics(x)
  /\ x.mode \in {"out", "panic"} => x.at <= Len(Chain(x))
  /\ x.mode \in {"done", "escaped"} => x.at = 0
  /\ x.input.transport # "http" => x.input.path = "api" /\ x.input.matched

Deferred(x, n) ==
  x.defers = IF ~Behind(x) \/ Skip(x) THEN {}
             ELSE IF x.input.path = "api" /\ n >= Active THEN {"record", "inflight"}
             ELSE {"record"}

(* The instruments are made once, before anyone is behind the layer.       *)
Made(x, o) ==
  /\ x.mode = "init" => o = "running"
  /\ Behind(x) /\ ~Skip(x) => o = "done"

OneInits ==
  /\ \A t \in Transports : once[t] # "done" => made[t] = 0
  /\ \A r, s \in Requests :
       q[r].mode = "init" /\ q[s].mode = "init" /\ q[r].input.transport = q[s].input.transport
         => r = s

RequestsInv ==
  \A r \in Requests :
    /\ Place(q[r])
    /\ Deferred(q[r], made[q[r].input.transport])
    /\ Made(q[r], once[q[r].input.transport])

(* The requests whose deferred functions count down.                       *)
Open(t) == {r \in Requests : q[r].input.transport = t /\ "inflight" \in q[r].defers}

OpenInv == \A t \in Transports : inflight[t] = Cardinality(Open(t))

IInv == TypeOK /\ RequestsInv /\ OneInits /\ OpenInv

----------------------------------------------------------------------------
(* What is counted of a request.                                           *)
CountedOk(x) ==
  IF Skip(x) THEN x.counted = <<>>
  ELSE /\ Len(x.counted) = 1
       /\ x.counted[1].series = IF x.input.path = "health" THEN "healthcheck" ELSE "request"
       /\ x.counted[1].route = IF x.input.matched THEN "route" ELSE "unknown"

PastMux(x) == \E j \in DOMAIN Chain(x) : j < x.at /\ Chain(x)[j] = "mux"

(* Nothing is counted before the metrics layer is left.  The mux has set   *)
(* the Pattern of the request the layer holds, if it matched.              *)
Counting(x, o, n) ==
  /\ x.mode \in {"idle", "in", "init"} \/ Behind(x) \/ Skip(x) => x.counted = <<>>
  /\ Metered(x.input.transport) =>
       /\ x.input.transport = "http" =>
            /\ Behind(x) /\ ~Skip(x) => x.held = x.clones
            /\ x.mode \in {"idle", "in", "init"} =>
                 /\ x.pattern = IF PastMux(x) THEN x.clones ELSE None
                 /\ PastMux(x) => x.input.matched
            /\ x.mode \in {"out", "panic"} /\ Behind(x) =>
                 x.pattern = IF x.input.matched THEN x.clones ELSE None
       /\ x.mode \in {"out", "panic", "done", "escaped"} /\ ~Behind(x) /\ ~x.failed =>
            /\ ~Skip(x) => o = "done"
            /\ n = Full(x.input.transport) => CountedOk(x)

CountingInv ==
  \A r \in Requests :
    LET x == q[r]  t == x.input.transport IN Counting(x, once[t], made[t])

(* On its way in a request has not ended, and before its handler it has no *)
(* answer.                                                                 *)
Fresh(x) ==
  x.mode \in {"idle", "in", "init"} =>
    /\ x.end = "none" /\ ~x.failed
    /\ x.at \in DOMAIN Chain(x) => x.answer = None

FreshInv == \A r \in Requests : Fresh(q[r])

(* A panic behind the metrics layer has a recovery before it.              *)
Caught(x) ==
  \E i, j \in DOMAIN Chain(x) :
    i < j /\ j <= x.at /\ Chain(x)[i] = "metrics" /\ Chain(x)[j] = "recovery"

Code(x) ==
  IF x.mode = "done" THEN x.answer
  ELSE IF x.input.transport # "http" THEN CodeOf(x.err)
  ELSE IF x.answer = None THEN 200 ELSE x.answer

(* What statusRecorder holds is what the client got, until a handler that  *)
(* has written panics.  After the metrics layer nothing changes the answer.*)
Agreeing(x) ==
  x.end # "late" /\ Guarded(x.input.transport) =>
    /\ x.mode \in {"idle", "in", "init"} /\ ~Behind(x) => x.status = 200
    /\ Behind(x) /\ ~Skip(x) /\ x.input.transport = "http" => x.status = Code(x)
    /\ Behind(x) /\ x.mode = "panic" =>
         Caught(x) /\ (x.input.transport = "http" => x.answer = None)
    /\ x.counted # <<>> /\ ~x.failed =>
         /\ x.mode \in {"out", "done"} /\ ~Behind(x)
         /\ x.counted[1].status = Code(x)
         /\ x.counted[1].status >= 500
            \/ (x.input.transport # "http" /\ x.counted[1].status = Internal)
              => x.counted[1].exemplar

AgreeingInv == \A r \in Requests : Agreeing(q[r])

(* How far an error has come.                                              *)
Unanswered(x) ==
  /\ Chains[x.input.transport] # <<>> /\ Chains[x.input.transport][1] = "recovery" =>
       /\ x.mode # "escaped"
       /\ x.mode = "panic" => x.at >= 1
  /\ x.mode = "panic" /\ ~x.failed => x.end \in {"panicked", "late"}

Returned(x) ==
  x.end = "failed" /\ ~x.failed =>
    IF x.input.transport = "http" THEN x.answer = Promised("http", x.cause)
    ELSE /\ x.cause # Nil
         /\ \A i \in DOMAIN Chain(x) :
              (\A j \in DOMAIN Chain(x) : Chain(x)[j] = "error" <=> j = i) =>
                IF x.mode = "done" THEN x.answer = Promised(x.input.transport, x.cause)
                ELSE x.err = IF x.at < i THEN ErrorToGRPCError(x.cause) ELSE x.cause

Thrown1(e) == IF e.class = "value" THEN Value ELSE Unwrap(e)

Panicked(x) ==
  x.end = "panicked" /\ ~x.failed =>
    LET t == x.input.transport IN
    /\ t # "http" => x.cause = Value
    /\ x.mode = "panic" => x.err = x.cause /\ (t = "http" => x.answer = None)
    /\ \A i \in DOMAIN Chain(x) :
         Chain(x)[i] = (IF t = "http" THEN "error" ELSE "recovery")
         /\ (\A j \in DOMAIN Chain(x) : Chain(x)[j] \in {"recovery", "error"} => j <= i) =>
           /\ x.mode = "panic" => x.at >= i
           /\ x.mode \in {"out", "done"} /\ t = "http" => x.answer = Promised(t, Thrown1(x.cause))
           /\ x.mode = "out" /\ t # "http" => x.err = Status(Internal)
           /\ x.mode = "done" /\ t # "http" => x.answer = Internal

AnsweringInv ==
  \A r \in Requests : Unanswered(q[r]) /\ Returned(q[r]) /\ Panicked(q[r])
----------------------------------------------------------------------------
(* The types of what moves make.                                           *)
Modes == {"idle", "in", "init", "out", "panic", "done", "escaped"}

LEMMA FieldTypes ==
  ASSUME NEW x \in Records
  PROVE  /\ x.mode \in Modes /\ x.at \in Nat /\ x.input \in Inputs
         /\ x.answer \in Nat \union {None} /\ x.err \in Errors /\ x.cause \in Errors
         /\ x.end \in {"none", "returned", "failed", "panicked", "late"}
         /\ x.defers \in SUBSET {"record", "inflight"}
         /\ x.status \in Nat /\ x.clones \in Nat /\ x.held \in Nat
         /\ x.pattern \in Nat \union {None} /\ x.counted \in Seq(Samples) /\ x.failed \in BOOLEAN
         /\ x.input.transport \in Transports /\ x.input.path \in {"api", "health"}
         /\ x.input.reduced \in BOOLEAN /\ x.input.matched \in BOOLEAN
BY DEF Records, Modes, Inputs

LEMMA ErrorTypes ==
  /\ Nil \in Errors /\ Value \in Errors /\ Thrown \subseteq Errors
  /\ \A n \in Codes : Status(n) \in Errors
  /\ \A e \in Errors : ErrorToHTTP(e) \in Nat /\ Recovered(e) \in Nat /\ Unwrap(e) \in Errors
  /\ \A e \in Errors : ErrorToGRPCError(e) \in Errors /\ CodeOf(e) \in Codes
<1>1. Nil \in Errors /\ Value \in Errors /\ Thrown \subseteq Errors
  <2>1. Raised \subseteq Domain \union {"internal"}
    BY ChainsAssumption
  <2>2. 0 \in 0 .. Wraps /\ 0 \in Codes
    BY WrapsAssumption DEF Codes
  <2>3. \A c \in Classes, w \in 0 .. Wraps : Error(c, w) \in Errors
    BY <2>2 DEF Error, Errors
  <2>4. {"none", "value", "internal"} \subseteq Classes /\ Domain \subseteq Classes
    BY DEF Classes
  <2>5. Nil \in Errors /\ Value \in Errors
    BY <2>2, <2>3, <2>4 DEF Nil, Value
  <2> QED
    BY <2>1, <2>3, <2>4, <2>5 DEF Thrown
<1>2. \A n \in Codes : Status(n) \in Errors
  BY WrapsAssumption DEF Status, Errors, Classes
<1>3. \A e \in Errors : ErrorToHTTP(e) \in Nat
  BY DEF Errors, ErrorToHTTP, HttpStatus, Is, Domain
<1>4. \A e \in Errors : Unwrap(e) \in Errors
  BY WrapsAssumption DEF Errors, Unwrap
<1>5. \A e \in Errors : Recovered(e) \in Nat
  BY <1>3, <1>4 DEF Recovered
<1>6. \A e \in Errors : (\E c \in Domain : Is(e, c)) => GrpcCode[e.class] \in Codes
  BY DEF GrpcCode, Is, Domain, Codes, Errors
<1>7. \A e \in Errors : ErrorToGRPCError(e) \in Errors
  BY <1>1, <1>2, <1>6 DEF ErrorToGRPCError, Codes, Internal
<1>8. \A e \in Errors : CodeOf(e) \in Codes
  BY DEF CodeOf, Errors, Codes, OK, Unknown
<1> QED
  BY <1>1, <1>2, <1>3, <1>4, <1>5, <1>7, <1>8

(* The operators the actions are made of, as moves.                        *)
LEMMA EnterIs ==
  ASSUME NEW x \in Records, NEW y, y = Enter(x)
  PROVE  /\ y \in Records /\ y.mode = x.mode /\ y.at = x.at + 1
         /\ Kept(x, y) /\ Silent(x, y) /\ Ended(x, y) /\ Routed(x, y)
         /\ y.err = x.err /\ y.defers = x.defers
<1>1. y \in Records
  BY DEF Records, Enter
<1> QED
  BY <1>1 DEF Records, Enter, Kept, Silent, Ended, Routed

LEMMA ReturnIs ==
  ASSUME NEW x \in Records, x.at >= 1, NEW y, y = Return(x)
  PROVE  /\ y \in Records /\ y.mode = "out"
         /\ Back(x, y) /\ Kept(x, y) /\ Silent(x, y) /\ Ended(x, y)
         /\ y.err = x.err /\ y.defers = x.defers
<1>1. PICK n \in Nat : n = x.at - 1
  BY FieldTypes
<1>2. y = [x EXCEPT !.mode = "out", !.at = n]
  BY <1>1 DEF Return
<1>3. y \in Records
  BY <1>2 DEF Records
<1> QED
  BY <1>3 DEF Records, Return, Back, Kept, Silent, Ended, Routed

LEMMA ThrowIs ==
  ASSUME NEW x \in Records, x.at >= 1, NEW e \in Errors, NEW y, y = Throw(x, e)
  PROVE  /\ y \in Records /\ y.mode = "panic"
         /\ Back(x, y) /\ Kept(x, y) /\ Silent(x, y) /\ Ended(x, y)
         /\ y.err = e /\ y.defers = x.defers
<1>1. PICK n \in Nat : n = x.at - 1
  BY FieldTypes
<1>2. y = [x EXCEPT !.mode = "panic", !.at = n, !.err = e]
  BY <1>1 DEF Throw
<1>3. y \in Records
  BY <1>2 DEF Records
<1> QED
  BY <1>3 DEF Records, Throw, Back, Kept, Silent, Ended, Routed

LEMMA WriteIs ==
  ASSUME NEW x \in Records, NEW s \in Nat, NEW y, y = WriteHeader(x, s)
  PROVE  /\ y \in Records /\ y.mode = x.mode /\ y.at = x.at
         /\ Kept(x, y) /\ Wrote(x, y, s) /\ Ended(x, y) /\ Routed(x, y)
         /\ y.err = x.err /\ y.defers = x.defers
<1>1. y \in Records
  BY DEF Records, WriteHeader, Recorded
<1>2. Wrote(x, y, s)
  BY DEF Records, WriteHeader, Recorded, Wrote
<1>3. /\ y.mode = x.mode /\ y.at = x.at /\ y.err = x.err /\ y.defers = x.defers
      /\ Kept(x, y) /\ Ended(x, y) /\ Routed(x, y)
  BY DEF Records, WriteHeader, Kept, Ended, Routed
<1> QED
  BY <1>1, <1>2, <1>3

LEMMA WriteReturnIs ==
  ASSUME NEW x \in Records, x.at >= 1, NEW s \in Nat, NEW y, y = Return(WriteHeader(x, s))
  PROVE  /\ y \in Records /\ y.mode = "out"
         /\ Back(x, y) /\ Kept(x, y) /\ Wrote(x, y, s) /\ Ended(x, y)
         /\ y.err = x.err /\ y.defers = x.defers
<1> DEFINE w == WriteHeader(x, s)
<1>1. /\ w \in Records /\ w.at = x.at /\ Kept(x, w) /\ Wrote(x, w, s) /\ Ended(x, w)
      /\ Routed(x, w) /\ w.err = x.err /\ w.defers = x.defers
  BY WriteIs
<1>2. y = Return(w)
  OBVIOUS
<1> HIDE DEF w
<1>3. /\ y \in Records /\ y.mode = "out"
      /\ Back(w, y) /\ Kept(w, y) /\ Silent(w, y) /\ Ended(w, y)
      /\ y.err = w.err /\ y.defers = w.defers
  BY <1>1, <1>2, ReturnIs
<1> QED
  BY <1>1, <1>3 DEF Back, Kept, Wrote, Silent, Ended, Routed

(* How a handler ends.                                                     *)
LEMMA PanicsIs ==
  ASSUME NEW x \in Records, x.at >= 1, NEW e \in Errors, NEW y, y = Panics(x, e)
  PROVE  /\ y \in Records /\ y.mode = "panic"
         /\ Back(x, y) /\ Kept(x, y) /\ Silent(x, y)
         /\ y.err = e /\ y.defers = x.defers /\ y.cause = e
         /\ y.end = IF x.answer = None THEN "panicked" ELSE "late"
<1>1. PICK d \in {"panicked", "late"} : d = IF x.answer = None THEN "panicked" ELSE "late"
  OBVIOUS
<1>2. PICK n \in Nat : n = x.at - 1
  BY FieldTypes
<1>3. y = [x EXCEPT !.mode = "panic", !.at = n, !.err = e, !.end = d, !.cause = e]
  BY <1>1, <1>2 DEF Panics, Throw, Records
<1>4. y \in Records
  BY <1>1, <1>3 DEF Records
<1>5. y.end = d /\ y.at = n
  BY <1>3 DEF Records
<1>6. /\ y.mode = "panic" /\ y.err = e /\ y.cause = e
      /\ Kept(x, y) /\ Silent(x, y) /\ Routed(x, y)
      /\ y.input = x.input /\ y.defers = x.defers
  BY <1>3 DEF Records, Kept, Silent, Routed
<1> QED
  BY <1>1, <1>2, <1>4, <1>5, <1>6 DEF Back, Kept

LEMMA ReturnsIs ==
  ASSUME NEW x \in Records, x.at >= 1, NEW e \in Errors, NEW y, y = Returns(x, e)
  PROVE  /\ y \in Records /\ y.mode = "out"
         /\ Back(x, y) /\ Kept(x, y) /\ Silent(x, y)
         /\ y.err = e /\ y.defers = x.defers /\ y.cause = e
         /\ y.end = IF e = Nil THEN "returned" ELSE "failed"
<1>1. PICK d \in {"returned", "failed"} : d = IF e = Nil THEN "returned" ELSE "failed"
  OBVIOUS
<1>2. PICK n \in Nat : n = x.at - 1
  BY FieldTypes
<1>3. y = [x EXCEPT !.err = e, !.cause = e, !.end = d, !.mode = "out", !.at = n]
  BY <1>1, <1>2 DEF Returns, Return, Records
<1>4. y \in Records
  BY <1>1, <1>3 DEF Records
<1>5. y.end = d /\ y.at = n
  BY <1>3 DEF Records
<1>6. /\ y.mode = "out" /\ y.err = e /\ y.cause = e
      /\ Kept(x, y) /\ Silent(x, y) /\ Routed(x, y)
      /\ y.input = x.input /\ y.defers = x.defers
  BY <1>3 DEF Records, Kept, Silent, Routed
<1> QED
  BY <1>1, <1>2, <1>4, <1>5, <1>6 DEF Back, Kept

----------------------------------------------------------------------------
(* Where a request is.                                                     *)
LEMMA HereIs ==
  ASSUME NEW x \in Records
  PROVE  /\ Chain(x) \in Seq(Layers)
         /\ Here(x) # "handler" =>
              x.at \in DOMAIN Chain(x) /\ x.at \in 1 .. Len(Chain(x)) /\ Here(x) = Chain(x)[x.at]
         /\ Here(x) = "handler" => x.at \notin DOMAIN Chain(x)
         /\ Here(x) \in Layers \union {"handler"}
         /\ x.input.transport # "http" => Here(x) \notin {"mux", "trace"}
         /\ x.input.transport = "stream" => Here(x) \in {"metrics", "handler"}
<1>1. Chain(x) \in Seq(Layers)
  BY ChainsAssumption, FieldTypes DEF Chain
<1>2. /\ Here(x) # "handler" =>
           x.at \in DOMAIN Chain(x) /\ x.at \in 1 .. Len(Chain(x)) /\ Here(x) = Chain(x)[x.at]
      /\ Here(x) = "handler" => x.at \notin DOMAIN Chain(x)
      /\ Here(x) \in Layers \union {"handler"}
  BY <1>1 DEF Here, Layers
<1>3. ASSUME x.input.transport = "unary" PROVE Here(x) \notin {"mux", "trace"}
  <2>1. Chain(x) \in Seq({"recovery", "error", "metrics", "logger"})
    BY <1>3, ChainsAssumption DEF Chain
  <2> QED
    BY <2>1 DEF Here
<1>4. x.input.transport = "stream" => Here(x) \in {"metrics", "handler"}
  BY ChainsAssumption DEF Here, Chain
<1> QED
  BY <1>1, <1>2, <1>3, <1>4, FieldTypes DEF Transports

Places == \A r \in Requests : Place(q[r])

LEMMA StepIs ==
  ASSUME TypeOK, Places, NEW r \in Requests, NEW modes, NEW layers, NEW y, Step(r, modes, layers, y)
  PROVE  /\ q[r] \in Records /\ Place(q[r]) /\ q[r].mode \in modes /\ Here(q[r]) \in layers
         /\ q'[r] = y /\ q' = [q EXCEPT ![r] = q'[r]]
         /\ Here(q[r]) # "handler" => q[r].at >= 1 /\ q[r].at \in DOMAIN Chain(q[r])
BY HereIs DEF Step, TypeOK, Places

----------------------------------------------------------------------------
(* Every action of Service is a move.                                      *)
LEMMA HandlerMoves ==
  ASSUME TypeOK, Places, NEW r \in Requests, HttpHandler(r)
  PROVE  Moved(r)
<1> DEFINE x == q[r]
<1>1. CASE HandlerWrites(r)
  <2>1. PICK s \in Written : Step(r, {"in"}, {"handler"}, WriteHeader(x, s))
    BY <1>1 DEF HandlerWrites
  <2>2. s \in Nat
    BY ChainsAssumption
  <2>3. /\ x \in Records /\ x.mode = "in" /\ Here(x) = "handler"
        /\ q'[r] = WriteHeader(x, s) /\ q' = [q EXCEPT ![r] = q'[r]]
    BY <2>1, StepIs
  <2>4. Writes(x, q'[r]) /\ q'[r] \in Records
    BY <1>1, <2>2, <2>3, WriteIs DEF HandlerWrites, IsHttp, Writes
  <2> QED
    BY <1>1, <2>3, <2>4 DEF Moved, Move, HandlerWrites, Writes, Kept
<1>2. CASE HandlerReturns(r)
  <2>1. /\ x \in Records /\ x.mode = "in" /\ Here(x) = "handler" /\ x.at >= 1
        /\ q'[r] = Return([x EXCEPT !.end = "returned"]) /\ q' = [q EXCEPT ![r] = q'[r]]
    BY <1>2, StepIs DEF HandlerReturns, Place
  <2>2. PICK z : z = [x EXCEPT !.end = "returned"]
    OBVIOUS
  <2>3. z \in Records
    BY <2>1, <2>2 DEF Records
  <2>4. /\ z.mode = x.mode /\ z.at = x.at /\ z.end = "returned" /\ q'[r] = Return(z)
        /\ Kept(x, z) /\ Silent(x, z) /\ Routed(x, z) /\ z.defers = x.defers
    BY <2>1, <2>2 DEF Records, Kept, Silent, Routed
  <2>5. /\ q'[r] \in Records /\ q'[r].mode = "out" /\ Back(z, q'[r]) /\ Kept(z, q'[r])
        /\ Silent(z, q'[r]) /\ Ended(z, q'[r]) /\ q'[r].defers = z.defers
    BY <2>1, <2>3, <2>4, ReturnIs
  <2>6. Turns(x, q'[r])
    BY <1>2, <2>1, <2>4, <2>5 DEF Turns, HttpTurns, Back, Kept, Silent, Ended, Routed, HandlerReturns, IsHttp
  <2> QED
    BY <1>2, <2>1, <2>5, <2>6 DEF Moved, Move, HandlerReturns, Turns, Kept
<1>3. CASE HandlerPanics(r)
  <2>1. PICK e \in Thrown : Step(r, {"in"}, {"handler"}, Panics(x, e))
    BY <1>3 DEF HandlerPanics, Thrown
  <2>2. /\ x \in Records /\ x.mode = "in" /\ Here(x) = "handler" /\ x.at >= 1
        /\ q'[r] = Panics(x, e) /\ q' = [q EXCEPT ![r] = q'[r]]
    BY <2>1, StepIs DEF Place
  <2>3. /\ q'[r] \in Records /\ q'[r].mode = "panic"
        /\ Back(x, q'[r]) /\ Kept(x, q'[r]) /\ Silent(x, q'[r])
        /\ q'[r].err = e /\ q'[r].defers = x.defers /\ q'[r].cause = e
        /\ q'[r].end = IF x.answer = None THEN "panicked" ELSE "late"
    BY <2>2, ErrorTypes, PanicsIs
  <2>4. Turns(x, q'[r])
    BY <1>3, <2>2, <2>3 DEF Turns, HttpTurns, HandlerPanics, IsHttp
  <2> QED
    BY <1>3, <2>2, <2>3, <2>4 DEF Moved, Move, HandlerPanics, Kept
<1>4. CASE ControllerFails(r)
  <2>1. PICK class \in Raised, wraps \in 0 .. Wraps :
          Step(r, {"in"}, {"handler"},
               Return(WriteHeader([x EXCEPT !.end = "failed", !.cause = Error(class, wraps)],
                                  ErrorToHTTP(Error(class, wraps)))))
    BY <1>4 DEF ControllerFails
  <2>2. PICK e : e = Error(class, wraps)
    OBVIOUS
  <2>3. e \in Thrown /\ e # Value /\ e \in Errors /\ ErrorToHTTP(e) \in Nat
    <3>1. class \in Domain \union {"internal"}
      BY ChainsAssumption
    <3> QED
      BY <2>2, <3>1, ErrorTypes DEF Thrown, Error, Value, Domain
  <2>4. /\ x \in Records /\ x.mode = "in" /\ Here(x) = "handler" /\ x.at >= 1
        /\ q'[r] = Return(WriteHeader([x EXCEPT !.end = "failed", !.cause = e], ErrorToHTTP(e)))
        /\ q' = [q EXCEPT ![r] = q'[r]]
    BY <2>1, <2>2, StepIs DEF Place
  <2>5. PICK z : z = [x EXCEPT !.end = "failed", !.cause = e]
    OBVIOUS
  <2>6. z \in Records
    BY <2>3, <2>4, <2>5 DEF Records
  <2>7. /\ z.mode = x.mode /\ z.at = x.at
        /\ Kept(x, z) /\ Silent(x, z) /\ Routed(x, z) /\ z.defers = x.defers
        /\ z.end = "failed" /\ z.cause = e /\ q'[r] = Return(WriteHeader(z, ErrorToHTTP(e)))
    BY <2>4, <2>5 DEF Records, Kept, Silent, Routed
  <2>8. /\ q'[r] \in Records /\ q'[r].mode = "out" /\ Back(z, q'[r]) /\ Kept(z, q'[r])
        /\ Wrote(z, q'[r], ErrorToHTTP(e)) /\ Ended(z, q'[r]) /\ q'[r].defers = z.defers
    BY <2>3, <2>4, <2>6, <2>7, WriteReturnIs
  <2>9. Turns(x, q'[r])
    BY <1>4, <2>3, <2>4, <2>6, <2>7, <2>8
       DEF Turns, HttpTurns, Back, Kept, Silent, Wrote, Ended, Routed, ControllerFails, IsHttp
  <2> QED
    BY <1>4, <2>4, <2>8, <2>9 DEF Moved, Move, ControllerFails, Turns, Kept
<1> QED
  BY <1>1, <1>2, <1>3, <1>4 DEF HttpHandler

LEMMA CallMoves ==
  ASSUME TypeOK, Places, NEW r \in Requests, GrpcHandler(r)
  PROVE  Moved(r)
<1> DEFINE x == q[r]
<1>1. CASE GrpcReturns(r)
  <2>1. PICK e \in {Nil, Status(5)} \union
                   {Error(class, wraps) : class \in Raised, wraps \in 0 .. Wraps} :
          Step(r, {"in"}, {"handler"}, Returns(x, e))
    BY <1>1 DEF GrpcReturns
  <2>2. e \in Errors
    BY ErrorTypes DEF Thrown, Codes
  <2>3. /\ x \in Records /\ x.mode = "in" /\ Here(x) = "handler" /\ x.at >= 1
        /\ q'[r] = Returns(x, e) /\ q' = [q EXCEPT ![r] = q'[r]]
    BY <2>1, StepIs DEF Place
  <2>4. /\ q'[r] \in Records /\ q'[r].mode = "out"
        /\ Back(x, q'[r]) /\ Kept(x, q'[r]) /\ Silent(x, q'[r])
        /\ q'[r].err = e /\ q'[r].defers = x.defers /\ q'[r].cause = e
        /\ q'[r].end = IF e = Nil THEN "returned" ELSE "failed"
    BY <2>2, <2>3, ReturnsIs
  <2>5. Turns(x, q'[r])
    BY <1>1, <2>3, <2>4 DEF Turns, GrpcTurns, GrpcReturns, IsGrpc
  <2> QED
    BY <1>1, <2>3, <2>4, <2>5 DEF Moved, Move, GrpcReturns, Kept
<1>2. CASE GrpcPanics(r)
  <2>1. /\ x \in Records /\ x.mode = "in" /\ Here(x) = "handler" /\ x.at >= 1
        /\ q'[r] = Throw([x EXCEPT !.end = "panicked", !.cause = Value], Value)
        /\ q' = [q EXCEPT ![r] = q'[r]]
    BY <1>2, StepIs DEF GrpcPanics, Place
  <2>2. PICK v \in Errors : v = Value
    BY ErrorTypes
  <2>3. PICK z : z = [x EXCEPT !.end = "panicked", !.cause = v]
    OBVIOUS
  <2>4. z \in Records
    BY <2>1, <2>2, <2>3 DEF Records
  <2>5. /\ z.mode = x.mode /\ z.at = x.at /\ z.end = "panicked" /\ z.cause = v
        /\ q'[r] = Throw(z, v)
        /\ Kept(x, z) /\ Silent(x, z) /\ Routed(x, z) /\ z.defers = x.defers
    BY <2>1, <2>2, <2>3 DEF Records, Kept, Silent, Routed
  <2>6. /\ q'[r] \in Records /\ q'[r].mode = "panic" /\ Back(z, q'[r]) /\ Kept(z, q'[r])
        /\ Silent(z, q'[r]) /\ Ended(z, q'[r]) /\ q'[r].err = v /\ q'[r].defers = z.defers
    BY <2>1, <2>2, <2>4, <2>5, ThrowIs
  <2>7. Turns(x, q'[r])
    BY <1>2, <2>1, <2>2, <2>5, <2>6
       DEF Turns, GrpcTurns, Back, Kept, Silent, Ended, Routed, GrpcPanics, IsGrpc
  <2> QED
    BY <1>2, <2>1, <2>6, <2>7 DEF Moved, Move, GrpcPanics, Turns, Kept
<1> QED
  BY <1>1, <1>2 DEF GrpcHandler

LEMMA LayerMoves ==
  ASSUME TypeOK, Places, NEW r \in Requests,
         PassIn(r) \/ PassOut(r) \/ PassPanic(r)
  PROVE  Moved(r)
<1> DEFINE x == q[r]
<1>1. CASE PassIn(r)
  <2>1. /\ x \in Records /\ x.mode = "in" /\ Here(x) \in {"recovery", "error", "trace"}
        /\ x.at \in DOMAIN Chain(x)
        /\ q'[r] = Enter(x) /\ q' = [q EXCEPT ![r] = q'[r]]
    BY <1>1, StepIs DEF PassIn
  <2>2. /\ q'[r] \in Records /\ q'[r].mode = x.mode /\ q'[r].at = x.at + 1
        /\ Kept(x, q'[r]) /\ Silent(x, q'[r]) /\ Ended(x, q'[r]) /\ Routed(x, q'[r])
        /\ q'[r].err = x.err /\ q'[r].defers = x.defers
    BY <2>1, EnterIs
  <2>3. Forward(x, q'[r])
    BY <2>1, <2>2 DEF Forward, Routed
  <2> QED
    BY <1>1, <2>1, <2>2, <2>3 DEF Moved, Move, PassIn, Kept
<1>2. CASE PassOut(r)
  <2>1. /\ x \in Records /\ x.mode = "out" /\ Here(x) \in {"recovery", "logger", "trace", "mux"}
        /\ x.at \in DOMAIN Chain(x) /\ x.at >= 1
        /\ q'[r] = Return(x) /\ q' = [q EXCEPT ![r] = q'[r]]
    BY <1>2, StepIs DEF PassOut
  <2>2. /\ q'[r] \in Records /\ q'[r].mode = "out" /\ Back(x, q'[r]) /\ Kept(x, q'[r])
        /\ Silent(x, q'[r]) /\ Ended(x, q'[r]) /\ q'[r].err = x.err /\ q'[r].defers = x.defers
    BY <2>1, ReturnIs
  <2>3. Outward(x, q'[r])
    BY <2>1, <2>2 DEF Outward, Passes
  <2> QED
    BY <1>2, <2>1, <2>2, <2>3 DEF Moved, Move, PassOut, Kept
<1>3. CASE PassPanic(r)
  <2>1. /\ x \in Records /\ x.mode = "panic" /\ Here(x) \in {"logger", "trace", "mux"}
        /\ x.at \in DOMAIN Chain(x) /\ x.at >= 1
        /\ q'[r] = Throw(x, x.err) /\ q' = [q EXCEPT ![r] = q'[r]]
    BY <1>3, StepIs DEF PassPanic
  <2>2. /\ q'[r] \in Records /\ q'[r].mode = "panic" /\ Back(x, q'[r]) /\ Kept(x, q'[r])
        /\ Silent(x, q'[r]) /\ Ended(x, q'[r]) /\ q'[r].err = x.err /\ q'[r].defers = x.defers
    BY <2>1, FieldTypes, ThrowIs
  <2>3. Outward(x, q'[r])
    BY <2>1, <2>2 DEF Outward, Passes
  <2> QED
    BY <1>3, <2>1, <2>2, <2>3 DEF Moved, Move, PassPanic, Kept
<1> QED
  BY <1>1, <1>2, <1>3

LEMMA HttpLayerMoves ==
  ASSUME TypeOK, RequestsInv, NEW r \in Requests,
         \/ HttpLogger(r) \/ Mux(r) \/ RecoveryMiddleware(r) \/ ErrorMiddleware(r)
         \/ Skips(r) \/ SkipsOut(r)
  PROVE  Moved(r)
<1> DEFINE x == q[r]
<1>0. Places
  BY DEF RequestsInv, Places
<1>1. CASE HttpLogger(r)
  <2>1. /\ x \in Records /\ x.mode = "in" /\ Here(x) = "logger" /\ x.at \in DOMAIN Chain(x)
        /\ q'[r] = Enter([x EXCEPT !.clones = @ + 1]) /\ q' = [q EXCEPT ![r] = q'[r]]
    BY <1>1, <1>0, StepIs DEF HttpLogger
  <2>2. PICK n \in Nat : n = x.clones + 1
    BY <2>1, FieldTypes
  <2>3. PICK z : z = [x EXCEPT !.clones = n]
    OBVIOUS
  <2>4. z \in Records
    BY <2>1, <2>2, <2>3 DEF Records
  <2>5. /\ z.mode = x.mode /\ z.at = x.at /\ z.pattern = x.pattern /\ q'[r] = Enter(z)
        /\ Kept(x, z) /\ Silent(x, z) /\ Ended(x, z) /\ z.err = x.err /\ z.defers = x.defers
    BY <2>1, <2>2, <2>3 DEF Records, Kept, Silent, Ended
  <2>6. /\ q'[r] \in Records /\ q'[r].mode = z.mode /\ q'[r].at = z.at + 1
        /\ Kept(z, q'[r]) /\ Silent(z, q'[r]) /\ Ended(z, q'[r]) /\ Routed(z, q'[r])
        /\ q'[r].err = z.err /\ q'[r].defers = z.defers
    BY <2>4, <2>5, EnterIs
  <2>7. Forward(x, q'[r])
    BY <1>1, <2>1, <2>5, <2>6 DEF Forward, Routed, Kept, Silent, Ended, HttpLogger, IsHttp
  <2> QED
    BY <1>1, <2>1, <2>6, <2>7 DEF Moved, Move, HttpLogger, Forward, Kept
<1>2. CASE Mux(r) /\ x.input.matched
  <2>1. /\ x \in Records /\ x.mode = "in" /\ Here(x) = "mux" /\ x.at \in DOMAIN Chain(x)
        /\ q'[r] = Enter([x EXCEPT !.pattern = x.clones]) /\ q' = [q EXCEPT ![r] = q'[r]]
    BY <1>2, <1>0, StepIs DEF Mux
  <2>2. PICK n \in Nat : n = x.clones
    BY <2>1, FieldTypes
  <2>3. PICK z : z = [x EXCEPT !.pattern = n]
    OBVIOUS
  <2>4. z \in Records
    BY <2>1, <2>2, <2>3 DEF Records
  <2>5. /\ z.mode = x.mode /\ z.at = x.at /\ z.pattern = x.clones /\ z.clones = x.clones
        /\ q'[r] = Enter(z)
        /\ Kept(x, z) /\ Silent(x, z) /\ Ended(x, z) /\ z.err = x.err /\ z.defers = x.defers
    BY <2>1, <2>2, <2>3 DEF Records, Kept, Silent, Ended
  <2>6. /\ q'[r] \in Records /\ q'[r].mode = z.mode /\ q'[r].at = z.at + 1
        /\ Kept(z, q'[r]) /\ Silent(z, q'[r]) /\ Ended(z, q'[r]) /\ Routed(z, q'[r])
        /\ q'[r].err = z.err /\ q'[r].defers = z.defers
    BY <2>4, <2>5, EnterIs
  <2>7. Forward(x, q'[r])
    BY <1>2, <2>1, <2>5, <2>6 DEF Forward, Routed, Kept, Silent, Ended
  <2> QED
    BY <1>2, <2>1, <2>6, <2>7 DEF Moved, Move, Mux, Forward, Kept
<1>3. CASE Mux(r) /\ ~x.input.matched
  <2>1. /\ x \in Records /\ x.mode = "in" /\ Here(x) = "mux" /\ x.at \in DOMAIN Chain(x) /\ x.at >= 1
        /\ q'[r] = Return(WriteHeader([x EXCEPT !.end = "returned"], 404))
        /\ q' = [q EXCEPT ![r] = q'[r]]
    BY <1>3, <1>0, StepIs DEF Mux
  <2>2. PICK z : z = [x EXCEPT !.end = "returned"]
    OBVIOUS
  <2>3. z \in Records
    BY <2>1, <2>2 DEF Records
  <2>4. /\ z.mode = x.mode /\ z.at = x.at /\ z.end = "returned" /\ q'[r] = Return(WriteHeader(z, 404))
        /\ Kept(x, z) /\ Silent(x, z) /\ Routed(x, z) /\ z.defers = x.defers
    BY <2>1, <2>2 DEF Records, Kept, Silent, Routed
  <2>5. /\ q'[r] \in Records /\ q'[r].mode = "out" /\ Back(z, q'[r]) /\ Kept(z, q'[r])
        /\ Wrote(z, q'[r], 404) /\ Ended(z, q'[r]) /\ q'[r].defers = z.defers
    BY <2>1, <2>3, <2>4, WriteReturnIs
  <2>6. NotFound(x, q'[r])
    BY <1>3, <2>1, <2>4, <2>5 DEF NotFound, Back, Kept, Silent, Wrote, Ended, Routed
  <2> QED
    BY <1>3, <2>1, <2>5, <2>6 DEF Moved, Move, Mux, NotFound, Kept
<1>4. CASE RecoveryMiddleware(r)
  <2>1. /\ x \in Records /\ x.mode = "panic" /\ Here(x) = "recovery" /\ x.at \in DOMAIN Chain(x)
        /\ x.at >= 1 /\ q'[r] = Return(WriteHeader(x, 500)) /\ q' = [q EXCEPT ![r] = q'[r]]
    BY <1>4, <1>0, StepIs DEF RecoveryMiddleware
  <2>2. /\ q'[r] \in Records /\ q'[r].mode = "out" /\ Back(x, q'[r]) /\ Kept(x, q'[r])
        /\ Wrote(x, q'[r], 500) /\ Ended(x, q'[r])
        /\ q'[r].err = x.err /\ q'[r].defers = x.defers
    BY <2>1, WriteReturnIs
  <2>3. Outward(x, q'[r])
    BY <1>4, <2>1, <2>2 DEF Outward, Rescued, RecoveryMiddleware, IsHttp
  <2> QED
    BY <1>4, <2>1, <2>2, <2>3 DEF Moved, Move, RecoveryMiddleware, Kept
<1>5. CASE ErrorMiddleware(r) /\ Step(r, {"out"}, {"error"}, Return(x))
  <2>1. /\ x \in Records /\ x.mode = "out" /\ Here(x) = "error" /\ x.at \in DOMAIN Chain(x)
        /\ x.at >= 1 /\ q'[r] = Return(x) /\ q' = [q EXCEPT ![r] = q'[r]]
    BY <1>5, <1>0, StepIs
  <2>2. /\ q'[r] \in Records /\ q'[r].mode = "out" /\ Back(x, q'[r]) /\ Kept(x, q'[r])
        /\ Silent(x, q'[r]) /\ Ended(x, q'[r]) /\ q'[r].err = x.err /\ q'[r].defers = x.defers
    BY <2>1, ReturnIs
  <2>3. Outward(x, q'[r])
    BY <1>5, <2>1, <2>2 DEF Outward, Passes, ErrorMiddleware, IsHttp
  <2> QED
    BY <1>5, <2>1, <2>2, <2>3 DEF Moved, Move, ErrorMiddleware, Kept
<1>6. CASE /\ ErrorMiddleware(r)
           /\ Step(r, {"panic"}, {"error"}, Return(WriteHeader(x, Recovered(x.err))))
  <2>1. /\ x \in Records /\ x.mode = "panic" /\ Here(x) = "error" /\ x.at \in DOMAIN Chain(x)
        /\ x.at >= 1 /\ q'[r] = Return(WriteHeader(x, Recovered(x.err)))
        /\ q' = [q EXCEPT ![r] = q'[r]]
    BY <1>6, <1>0, StepIs
  <2>2. Recovered(x.err) \in Nat
    BY <2>1, FieldTypes, ErrorTypes
  <2>3. /\ q'[r] \in Records /\ q'[r].mode = "out" /\ Back(x, q'[r]) /\ Kept(x, q'[r])
        /\ Wrote(x, q'[r], Recovered(x.err)) /\ Ended(x, q'[r])
        /\ q'[r].err = x.err /\ q'[r].defers = x.defers
    BY <2>1, <2>2, WriteReturnIs
  <2>4. Outward(x, q'[r])
    BY <1>6, <2>1, <2>3 DEF Outward, Rescued, ErrorMiddleware, IsHttp
  <2> QED
    BY <1>6, <2>1, <2>3, <2>4 DEF Moved, Move, ErrorMiddleware, Kept
<1>7. CASE Skips(r)
  <2>1. /\ x \in Records /\ x.mode = "in" /\ Here(x) = "metrics" /\ x.at \in DOMAIN Chain(x)
        /\ q'[r] = Enter(x) /\ q' = [q EXCEPT ![r] = q'[r]]
    BY <1>7, <1>0, StepIs DEF Skips
  <2>2. /\ q'[r] \in Records /\ q'[r].mode = x.mode /\ q'[r].at = x.at + 1
        /\ Kept(x, q'[r]) /\ Silent(x, q'[r]) /\ Ended(x, q'[r]) /\ Routed(x, q'[r])
        /\ q'[r].err = x.err /\ q'[r].defers = x.defers
    BY <2>1, EnterIs
  <2>3. Forward(x, q'[r])
    BY <1>7, <2>1, <2>2 DEF Forward, Routed, Skips, Skip, IsHttp
  <2> QED
    BY <1>7, <2>1, <2>2, <2>3 DEF Moved, Move, Skips, Kept
<1>8. CASE SkipsOut(r)
  <2>1. /\ x \in Records /\ x.mode \in {"out", "panic"} /\ Here(x) = "metrics"
        /\ x.at \in DOMAIN Chain(x) /\ x.at >= 1 /\ q' = [q EXCEPT ![r] = q'[r]]
        /\ (x.mode = "out" /\ q'[r] = Return(x)) \/ (x.mode = "panic" /\ q'[r] = Throw(x, x.err))
    BY <1>8, <1>0, StepIs DEF SkipsOut
  <2>2. /\ q'[r] \in Records /\ q'[r].mode = x.mode /\ Back(x, q'[r]) /\ Kept(x, q'[r])
        /\ Silent(x, q'[r]) /\ Ended(x, q'[r]) /\ q'[r].err = x.err /\ q'[r].defers = x.defers
    BY <2>1, FieldTypes, ReturnIs, ThrowIs
  <2>3. Skip(x)
    BY <1>8, <2>1 DEF RequestsInv, Deferred, Behind, IsMetrics, SkipsOut
  <2>4. Outward(x, q'[r])
    BY <2>1, <2>2, <2>3 DEF Outward, Passes
  <2> QED
    BY <1>8, <2>1, <2>2, <2>4 DEF Moved, Move, SkipsOut, Kept
<1> QED
  BY <1>1, <1>2, <1>3, <1>4, <1>5, <1>6, <1>7, <1>8 DEF ErrorMiddleware

LEMMA GrpcLayerMoves ==
  ASSUME TypeOK, Places, NEW r \in Requests,
         GrpcLogger(r) \/ ErrorInterceptor(r) \/ RecoveryInterceptor(r)
  PROVE  Moved(r)
<1> DEFINE x == q[r]
<1>1. CASE GrpcLogger(r)
  <2>1. /\ x \in Records /\ x.mode = "in" /\ Here(x) = "logger" /\ x.at \in DOMAIN Chain(x)
        /\ q'[r] = Enter(x) /\ q' = [q EXCEPT ![r] = q'[r]]
    BY <1>1, StepIs DEF GrpcLogger
  <2>2. /\ q'[r] \in Records /\ q'[r].mode = x.mode /\ q'[r].at = x.at + 1
        /\ Kept(x, q'[r]) /\ Silent(x, q'[r]) /\ Ended(x, q'[r]) /\ Routed(x, q'[r])
        /\ q'[r].err = x.err /\ q'[r].defers = x.defers
    BY <2>1, EnterIs
  <2>3. Forward(x, q'[r])
    BY <2>1, <2>2 DEF Forward, Routed
  <2> QED
    BY <1>1, <2>1, <2>2, <2>3 DEF Moved, Move, GrpcLogger, Kept
<1>2. CASE /\ ErrorInterceptor(r)
           /\ Step(r, {"out"}, {"error"}, Return([x EXCEPT !.err = ErrorToGRPCError(@)]))
  <2>1. /\ x \in Records /\ x.mode = "out" /\ Here(x) = "error" /\ x.at \in DOMAIN Chain(x)
        /\ x.at >= 1 /\ q'[r] = Return([x EXCEPT !.err = ErrorToGRPCError(x.err)])
        /\ q' = [q EXCEPT ![r] = q'[r]]
    BY <1>2, StepIs
  <2>2. PICK e \in Errors : e = ErrorToGRPCError(x.err)
    BY <2>1, FieldTypes, ErrorTypes
  <2>3. PICK z : z = [x EXCEPT !.err = e]
    OBVIOUS
  <2>4. z \in Records
    BY <2>1, <2>3 DEF Records
  <2>5. /\ z.mode = x.mode /\ z.at = x.at /\ z.err = e /\ q'[r] = Return(z)
        /\ Kept(x, z) /\ Silent(x, z) /\ Ended(x, z) /\ Routed(x, z) /\ z.defers = x.defers
    BY <2>1, <2>2, <2>3 DEF Records, Kept, Silent, Ended, Routed
  <2>6. /\ q'[r] \in Records /\ q'[r].mode = "out" /\ Back(z, q'[r]) /\ Kept(z, q'[r])
        /\ Silent(z, q'[r]) /\ Ended(z, q'[r]) /\ q'[r].err = z.err /\ q'[r].defers = z.defers
    BY <2>1, <2>4, <2>5, ReturnIs
  <2>7. Outward(x, q'[r])
    BY <1>2, <2>1, <2>2, <2>5, <2>6
       DEF Outward, Converted, Back, Kept, Silent, Ended, Routed, ErrorInterceptor, IsGrpc
  <2> QED
    BY <1>2, <2>1, <2>6, <2>7 DEF Moved, Move, ErrorInterceptor, Outward, Kept
<1>3. CASE ErrorInterceptor(r) /\ Step(r, {"panic"}, {"error"}, Throw(x, x.err))
  <2>1. /\ x \in Records /\ x.mode = "panic" /\ Here(x) = "error" /\ x.at \in DOMAIN Chain(x)
        /\ x.at >= 1 /\ q'[r] = Throw(x, x.err) /\ q' = [q EXCEPT ![r] = q'[r]]
    BY <1>3, StepIs
  <2>2. /\ q'[r] \in Records /\ q'[r].mode = "panic" /\ Back(x, q'[r]) /\ Kept(x, q'[r])
        /\ Silent(x, q'[r]) /\ Ended(x, q'[r]) /\ q'[r].err = x.err /\ q'[r].defers = x.defers
    BY <2>1, FieldTypes, ThrowIs
  <2>3. Outward(x, q'[r])
    BY <1>3, <2>1, <2>2 DEF Outward, Passes, ErrorInterceptor, IsGrpc
  <2> QED
    BY <1>3, <2>1, <2>2, <2>3 DEF Moved, Move, ErrorInterceptor, Kept
<1>4. CASE RecoveryInterceptor(r)
  <2>1. /\ x \in Records /\ x.mode = "panic" /\ Here(x) = "recovery" /\ x.at \in DOMAIN Chain(x)
        /\ x.at >= 1 /\ q'[r] = Return([x EXCEPT !.err = Status(Internal)])
        /\ q' = [q EXCEPT ![r] = q'[r]]
    BY <1>4, StepIs DEF RecoveryInterceptor
  <2>2. PICK e \in Errors : e = Status(Internal)
    BY ErrorTypes DEF Internal, Codes
  <2>3. PICK z : z = [x EXCEPT !.err = e]
    OBVIOUS
  <2>4. z \in Records
    BY <2>1, <2>3 DEF Records
  <2>5. /\ z.mode = x.mode /\ z.at = x.at /\ z.err = e /\ q'[r] = Return(z)
        /\ Kept(x, z) /\ Silent(x, z) /\ Ended(x, z) /\ Routed(x, z) /\ z.defers = x.defers
    BY <2>1, <2>2, <2>3 DEF Records, Kept, Silent, Ended, Routed
  <2>6. /\ q'[r] \in Records /\ q'[r].mode = "out" /\ Back(z, q'[r]) /\ Kept(z, q'[r])
        /\ Silent(z, q'[r]) /\ Ended(z, q'[r]) /\ q'[r].err = z.err /\ q'[r].defers = z.defers
    BY <2>1, <2>4, <2>5, ReturnIs
  <2>7. Outward(x, q'[r])
    BY <1>4, <2>1, <2>2, <2>5, <2>6
       DEF Outward, Rescued, Back, Kept, Silent, Ended, Routed, RecoveryInterceptor, IsUnary
  <2> QED
    BY <1>4, <2>1, <2>6, <2>7 DEF Moved, Move, RecoveryInterceptor, Outward, Kept
<1> QED
  BY <1>1, <1>2, <1>3, <1>4 DEF ErrorInterceptor

LEMMA EdgeMoves ==
  ASSUME TypeOK, Places, NEW r \in Requests, Arrive(r) \/ HttpDone(r) \/ GrpcDone(r)
  PROVE  Moved(r)
<1> DEFINE x == q[r]
<1>0. x \in Records /\ Place(x) /\ DOMAIN q = Requests
  BY DEF TypeOK, Places
<1>1. CASE Arrive(r)
  <2>1. PICK a \in Arrivals : q' = [q EXCEPT ![r].mode = "in", ![r].at = 1, ![r].input = a]
    BY <1>1 DEF Arrive
  <2>2. x = Idle
    BY <1>0, <1>1 DEF Arrive, Place
  <2>3. PICK n \in Nat, i \in Inputs : n = 1 /\ i = a
    BY ChainsAssumption
  <2>4. /\ q'[r] = [x EXCEPT !.mode = "in", !.at = n, !.input = i]
        /\ q' = [q EXCEPT ![r] = q'[r]]
    BY <1>0, <2>1, <2>3 DEF TypeOK
  <2>5. q'[r] \in Records
    BY <1>0, <2>4 DEF Records
  <2>6. Arrives(x, q'[r])
    BY <2>2, <2>3, <2>4 DEF Arrives, Idle
  <2> QED
    BY <1>0, <1>1, <2>4, <2>5, <2>6 DEF Moved, Move, Arrive
<1>2. CASE HttpDone(r) /\ x.mode = "out"
  <2>1. PICK a \in Nat \union {None} : a = IF x.answer = None THEN 200 ELSE x.answer
    BY <1>0, FieldTypes
  <2>2. /\ q'[r] = [x EXCEPT !.answer = a, !.mode = "done"]
        /\ q' = [q EXCEPT ![r] = q'[r]]
    BY <1>0, <1>2, <2>1 DEF TypeOK, HttpDone, SendHeader, Records
  <2>3. q'[r] \in Records
    BY <1>0, <2>2 DEF Records
  <2>4. Ends(x, q'[r])
    BY <1>0, <1>2, <2>1, <2>2 DEF Ends, HttpDone, IsHttp, Kept, Ended, Records
  <2> QED
    BY <1>0, <1>2, <2>2, <2>3, <2>4 DEF Moved, Move, HttpDone, Ends, Kept
<1>3. CASE GrpcDone(r) /\ x.mode = "out"
  <2>0. x.err \in Errors /\ Codes \subseteq Nat
    BY <1>0, FieldTypes DEF Codes
  <2>1. PICK a \in Nat : a = CodeOf(x.err)
    BY <2>0, ErrorTypes
  <2>2. /\ q'[r] = [x EXCEPT !.mode = "done", !.answer = a]
        /\ q' = [q EXCEPT ![r] = q'[r]]
    BY <1>0, <1>3, <2>1 DEF TypeOK, GrpcDone, Records
  <2>3. q'[r] \in Records
    BY <1>0, <2>2 DEF Records
  <2>4. Ends(x, q'[r])
    BY <1>0, <1>3, <2>1, <2>2 DEF Ends, GrpcDone, IsGrpc, Kept, Ended, Records
  <2> QED
    BY <1>0, <1>3, <2>2, <2>3, <2>4 DEF Moved, Move, GrpcDone, Ends, Kept
<1>4. CASE (HttpDone(r) \/ GrpcDone(r)) /\ x.mode = "panic"
  <2>1. /\ q'[r] = [x EXCEPT !.mode = "escaped"] /\ q' = [q EXCEPT ![r] = q'[r]]
        /\ x.at = 0
    BY <1>0, <1>4 DEF TypeOK, HttpDone, GrpcDone
  <2>2. q'[r] \in Records
    BY <1>0, <2>1 DEF Records
  <2>3. Ends(x, q'[r])
    BY <1>0, <1>4, <2>1 DEF Ends, Kept, Ended, Records
  <2> QED
    BY <1>0, <1>4, <2>1, <2>2, <2>3 DEF Moved, Move, HttpDone, GrpcDone, Ends, Kept
<1> QED
  BY <1>1, <1>2, <1>3, <1>4 DEF HttpDone, GrpcDone

LEMMA OpenMoves ==
  ASSUME TypeOK, Places, NEW r \in Requests,
         HttpOpens(r) \/ UnaryOpens(r) \/ StreamOpens(r)
  PROVE  Moved(r)
<1> DEFINE x == q[r]
           t == x.input.transport
<1>0. x \in Records /\ Place(x)
  BY DEF TypeOK, Places
<1>1. PICK h \in Nat : h = IF t = "http" THEN x.clones ELSE x.held
  BY <1>0, FieldTypes
<1>2. PICK f \in SUBSET {"record", "inflight"} :
        f = IF Counted(x, t) THEN {"record", "inflight"} ELSE {"record"}
  OBVIOUS
<1>3. x = [x EXCEPT !.held = x.held]
  BY <1>0 DEF Records
<1>4. /\ Opens(r, t, [x EXCEPT !.held = h], x.input.path = "api")
      /\ once[t] = "done" /\ ~Skip(x)
  <2>1. CASE HttpOpens(r)
    <3>1. t = "http" /\ once[t] = "done" /\ ~Skip(x) /\ h = x.clones
      BY <1>1, <2>1 DEF HttpOpens, IsHttp, OnceOver, Skip, Healthcheck, Reduced
    <3>2. Opens(r, t, [x EXCEPT !.held = h], ~Healthcheck(x))
      BY <2>1, <3>1 DEF HttpOpens
    <3>3. (~Healthcheck(x)) = (x.input.path = "api")
      BY <1>0, FieldTypes DEF Healthcheck
    <3> QED
      BY <3>1, <3>2, <3>3 DEF Opens
  <2>2. CASE UnaryOpens(r)
    <3>1. t = "unary" /\ once[t] = "done" /\ ~Skip(x) /\ x = [x EXCEPT !.held = h]
      BY <1>1, <1>3, <2>2 DEF UnaryOpens, IsUnary, OnceOver, Skip
    <3>2. Opens(r, t, [x EXCEPT !.held = h], TRUE)
      BY <2>2, <3>1 DEF UnaryOpens
    <3> QED
      BY <1>0, <3>1, <3>2 DEF Opens, Place
  <2>3. CASE StreamOpens(r)
    <3>1. t = "stream" /\ once[t] = "done" /\ ~Skip(x) /\ x = [x EXCEPT !.held = h]
      BY <1>1, <1>3, <2>3 DEF StreamOpens, OnceOver, Skip
    <3>2. Opens(r, t, [x EXCEPT !.held = h], TRUE)
      BY <2>3, <3>1 DEF StreamOpens
    <3> QED
      BY <1>0, <3>1, <3>2 DEF Opens, Place
  <2> QED
    BY <2>1, <2>2, <2>3
<1>5. /\ Step(r, {"in"}, {"metrics"}, Enter([x EXCEPT !.held = h, !.defers = f]))
      /\ inflight' = IF Counted(x, t) THEN [inflight EXCEPT ![t] = @ + 1] ELSE inflight
      /\ UNCHANGED <<once, made>>
  BY <1>2, <1>4 DEF Opens, Counted
<1>6. /\ x.mode = "in" /\ Here(x) = "metrics" /\ q' = [q EXCEPT ![r] = q'[r]]
      /\ q'[r] = Enter([x EXCEPT !.held = h, !.defers = f])
  BY <1>5, StepIs
<1>7. /\ q'[r] \in Records /\ q'[r].mode = x.mode /\ q'[r].at = x.at + 1
      /\ q'[r].defers = f /\ q'[r].held = h
      /\ q'[r].input = x.input /\ q'[r].counted = x.counted /\ q'[r].failed = x.failed
      /\ Silent(x, q'[r]) /\ Ended(x, q'[r]) /\ Routed(x, q'[r]) /\ q'[r].err = x.err
  <2>1. PICK z : z = [x EXCEPT !.held = h, !.defers = f]
    OBVIOUS
  <2>2. z \in Records
    BY <1>0, <2>1 DEF Records
  <2>3. /\ z.mode = x.mode /\ z.at = x.at /\ z.defers = f /\ z.held = h /\ z.input = x.input
        /\ z.counted = x.counted /\ z.failed = x.failed /\ q'[r] = Enter(z)
        /\ Silent(x, z) /\ Ended(x, z) /\ Routed(x, z) /\ z.err = x.err
    BY <1>0, <1>6, <2>1 DEF Records, Silent, Ended, Routed
  <2>4. /\ q'[r] \in Records /\ q'[r].mode = z.mode /\ q'[r].at = z.at + 1
        /\ Kept(z, q'[r]) /\ Silent(z, q'[r]) /\ Ended(z, q'[r]) /\ Routed(z, q'[r])
        /\ q'[r].err = z.err /\ q'[r].defers = z.defers
    BY <2>2, <2>3, EnterIs
  <2> QED
    BY <2>3, <2>4 DEF Kept, Silent, Ended, Routed
<1>8. Opened(x, q'[r], t)
  BY <1>1, <1>2, <1>4, <1>5, <1>6, <1>7 DEF Opened, AtMetrics
<1> QED
  BY <1>6, <1>7, <1>8 DEF Moved, Move

LEMMA InitMoves ==
  ASSUME TypeOK, Places, NEW r \in Requests,
         HttpFirst(r) \/ GrpcFirst(r) \/ HttpInit(r) \/ GrpcInit(r)
  PROVE  Moved(r)
<1> DEFINE x == q[r]
           t == x.input.transport
<1>0. x \in Records /\ Place(x) /\ DOMAIN q = Requests
  BY DEF TypeOK, Places
<1>1. CASE HttpFirst(r) \/ GrpcFirst(r)
  <2>1. OnceFirst(r, t) /\ ~Skip(x)
    BY <1>1 DEF HttpFirst, GrpcFirst, OnceFirst, Skip, Healthcheck, Reduced
  <2>2. q'[r] = [x EXCEPT !.mode = "init"] /\ q' = [q EXCEPT ![r] = q'[r]]
    BY <1>0, <2>1 DEF OnceFirst, TypeOK
  <2>3. q'[r] \in Records
    BY <1>0, <2>2 DEF Records
  <2>4. q'[r].input = x.input
    BY <1>0, <2>2 DEF Records
  <2>5. InitStarts(x, q'[r], t)
    BY <2>1, <2>2, <2>3 DEF InitStarts, OnceFirst, AtMetrics
  <2> QED
    BY <2>2, <2>3, <2>4, <2>5 DEF Moved, Move
<1>2. CASE HttpInit(r) \/ GrpcInit(r)
  <2>1. InitEnds(r, t, Full(t))
    BY <1>2 DEF HttpInit, GrpcInit, InitEnds, Full, IsGrpc
  <2>2. PICK n \in Partial \union {Full(t)} :
          /\ made' = [made EXCEPT ![t] = n]
          /\ q' = [q EXCEPT ![r] = IF n = Full(t) THEN [x EXCEPT !.mode = "in"]
                                   ELSE [Throw(x, Value) EXCEPT !.failed = TRUE]]
    BY <2>1 DEF InitEnds
  <2>3. x.mode = "init" /\ x.at >= 1 /\ once' = [once EXCEPT ![t] = "done"] /\ UNCHANGED inflight
    BY <1>0, <2>1 DEF InitEnds, Place
  <2>4. CASE n = Full(t)
    <3>1. q'[r] = [x EXCEPT !.mode = "in"] /\ q' = [q EXCEPT ![r] = q'[r]]
      BY <1>0, <2>2, <2>4
    <3>2. q'[r] \in Records
      BY <1>0, <3>1 DEF Records
    <3>3. q'[r].input = x.input
      BY <1>0, <3>1 DEF Records
    <3>4. Inits(x, q'[r], t)
      BY <2>2, <2>3, <2>4, <3>1 DEF Inits, InitReturns
    <3> QED
      BY <3>1, <3>2, <3>3, <3>4 DEF Moved, Move
  <2>5. CASE n # Full(t)
    <3>1. /\ q'[r] = [Throw(x, Value) EXCEPT !.failed = TRUE] /\ q' = [q EXCEPT ![r] = q'[r]]
      BY <1>0, <2>2, <2>5
    <3>2. PICK z : z = Throw(x, Value)
      OBVIOUS
    <3>3. /\ z \in Records /\ z.mode = "panic"
          /\ Back(x, z) /\ Kept(x, z) /\ Silent(x, z) /\ Ended(x, z) /\ z.defers = x.defers
      BY <1>0, <2>3, <3>2, ErrorTypes, ThrowIs
    <3>4. q'[r] = [z EXCEPT !.failed = TRUE]
      BY <3>1, <3>2
    <3>5. q'[r] \in Records
      BY <3>3, <3>4 DEF Records
    <3>6. /\ q'[r].mode = "panic" /\ q'[r].failed /\ q'[r].counted = z.counted
          /\ Back(x, q'[r]) /\ Silent(z, q'[r]) /\ Ended(z, q'[r]) /\ q'[r].defers = z.defers
      BY <3>3, <3>4 DEF Records, Back, Silent, Ended, Routed
    <3>7. Inits(x, q'[r], t)
      BY <2>2, <2>3, <3>3, <3>6 DEF Inits, InitPanics, Kept, Silent, Ended
    <3> QED
      BY <3>1, <3>5, <3>6, <3>7 DEF Moved, Move, Back
  <2> QED
    BY <2>4, <2>5
<1> QED
  BY <1>1, <1>2

(* A deferred function's panic is one of the metrics layer itself.         *)
LEMMA CloseMoves ==
  ASSUME TypeOK, RequestsInv, NEW r \in Requests, HttpCloses(r) \/ GrpcCloses(r)
  PROVE  Moved(r)
<1> DEFINE x == q[r]
           t == x.input.transport
           s(slow) == IF t # "http" THEN Sample(x, slow)
                      ELSE [series |-> IF Healthcheck(x) THEN "healthcheck" ELSE "request",
                            route |-> RoutePattern(x), status |-> x.status,
                            exemplar |-> Healthcheck(x) \/ AttachHTTPExemplar(x.status, slow)]
<1>0. Places /\ x \in Records /\ Place(x) /\ t \in Transports /\ made[t] \in Nat
  <2>1. Places
    BY DEF RequestsInv, Places
  <2>2. x \in Records /\ t \in Transports
    BY FieldTypes DEF TypeOK
  <2>3. made \in [Transports -> 0 .. 3]
    BY DEF TypeOK, Health
  <2>4. made[t] \in Nat
    BY <2>2, <2>3
  <2> QED
    BY <2>1, <2>2, <2>4 DEF Places
<1>1. PICK slow \in BOOLEAN : Closes(r, t, Instrument(x), s(slow)) /\ x.defers # {}
  <2>1. CASE HttpCloses(r)
    BY <1>0, <2>1 DEF HttpCloses, IsHttp, Recorded, Instrument
  <2>2. CASE GrpcCloses(r)
    BY <1>0, <2>2 DEF GrpcCloses, IsGrpc, Instrument
  <2> QED
    BY <2>1, <2>2
<1>2. s(slow) \in Samples
  <2>1. CASE t = "http"
    BY <1>0, <2>1, FieldTypes DEF Samples, RoutePattern, AttachHTTPExemplar, Healthcheck
  <2>2. CASE t # "http"
    <3>1. CodeOf(Result(x)) \in Codes
      BY <1>0, FieldTypes, ErrorTypes DEF Result
    <3> QED
      BY <2>2, <3>1 DEF Samples, Sample, AttachGRPCExemplar, Codes
  <2> QED
    BY <2>1, <2>2
<1>3. PICK a : a = s(slow)
  OBVIOUS
<1>4. PICK fails \in BOOLEAN, counts \in BOOLEAN :
        LET z == [x EXCEPT !.defers = {}, !.at = @ - 1,
                           !.counted = IF counts /\ made[t] >= Instrument(x)
                                         THEN Append(@, a) ELSE @] IN
        /\ fails \/ counts
        /\ Step(r, {"out", "panic"}, {"metrics"},
                IF fails THEN [z EXCEPT !.mode = "panic", !.err = Value, !.failed = TRUE] ELSE z)
        /\ inflight' = IF CountsDown(x, fails) THEN [inflight EXCEPT ![t] = @ - 1] ELSE inflight
  BY <1>1, <1>3 DEF Closes
<1>5. x.mode \in {"out", "panic"} /\ Here(x) = "metrics" /\ x.at >= 1
      /\ q' = [q EXCEPT ![r] = q'[r]]
  BY <1>0, <1>4, StepIs
<1>6. PICK n \in Nat : n = x.at - 1
  BY <1>0, <1>5, FieldTypes
<1>7. PICK c \in Seq(Samples) :
        /\ c = IF counts /\ made[t] >= Instrument(x) THEN Append(x.counted, a) ELSE x.counted
        /\ counts => c = IF made[t] < Instrument(x) THEN x.counted ELSE Append(x.counted, a)
  <2>1. x.counted \in Seq(Samples) /\ Append(x.counted, a) \in Seq(Samples)
    BY <1>0, <1>2, <1>3, FieldTypes
  <2>2. made[t] < Instrument(x) <=> ~(made[t] >= Instrument(x))
    BY <1>0 DEF Instrument, Health, Requested
  <2> QED
    BY <2>1, <2>2
<1>8. UNCHANGED <<once, made>>
      /\ inflight' = IF "inflight" \in x.defers THEN [inflight EXCEPT ![t] = @ - 1] ELSE inflight
  BY <1>1, <1>4 DEF Closes, CountsDown
<1>9. ~Skip(x)
  BY <1>1 DEF RequestsInv, Deferred
<1>10. PICK z : z = [x EXCEPT !.defers = {}, !.at = n, !.counted = c]
  OBVIOUS
<1>11. z = [x EXCEPT !.defers = {}, !.at = @ - 1,
                     !.counted = IF counts /\ made[t] >= Instrument(x) THEN Append(@, a) ELSE @]
  BY <1>0, <1>6, <1>7, <1>10 DEF Records
<1>12. Step(r, {"out", "panic"}, {"metrics"},
            IF fails THEN [z EXCEPT !.mode = "panic", !.err = Value, !.failed = TRUE] ELSE z)
  BY <1>4, <1>11
<1>13. z \in Records
  BY <1>0, <1>10 DEF Records
<1>14. /\ z.defers = {} /\ z.at = n /\ z.counted = c
       /\ z.mode = x.mode /\ z.failed = x.failed /\ z.err = x.err /\ z.input = x.input
       /\ z.held = x.held /\ z.pattern = x.pattern /\ z.clones = x.clones
       /\ z.answer = x.answer /\ z.status = x.status /\ z.end = x.end /\ z.cause = x.cause
  BY <1>0, <1>10 DEF Records
<1>15. CASE fails
  <2>1. PICK v \in Errors : v = Value
    BY ErrorTypes
  <2>2. q'[r] = [z EXCEPT !.mode = "panic", !.err = v, !.failed = TRUE]
    <3>1. Step(r, {"out", "panic"}, {"metrics"},
               [z EXCEPT !.mode = "panic", !.err = v, !.failed = TRUE])
      BY <1>15, <1>12, <2>1
    <3> QED
      BY <1>0, <3>1, StepIs
  <2>3. q'[r] \in Records
    <3>1. "panic" \in Modes
      BY DEF Modes
    <3> QED
      BY <1>13, <2>2, <3>1 DEF Records
  <2>4. /\ q'[r].mode = "panic" /\ q'[r].failed
        /\ q'[r].defers = {} /\ Back(x, q'[r]) /\ Silent(x, q'[r]) /\ Ended(x, q'[r])
    <3>1. /\ q'[r].mode = "panic" /\ q'[r].failed = TRUE /\ q'[r].defers = z.defers
          /\ q'[r].input = z.input /\ q'[r].at = z.at /\ q'[r].held = z.held
          /\ q'[r].pattern = z.pattern /\ q'[r].clones = z.clones
          /\ q'[r].answer = z.answer /\ q'[r].status = z.status
          /\ q'[r].end = z.end /\ q'[r].cause = z.cause
      BY <1>13, <2>2 DEF Records
    <3> QED
      BY <1>5, <1>6, <1>14, <3>1 DEF Back, Silent, Ended, Routed
  <2>5. Closed(x, q'[r], t)
    BY <1>1, <1>5, <1>8, <1>9, <2>4 DEF Closed, AtMetrics
  <2> QED
    BY <1>5, <2>3, <2>4, <2>5 DEF Moved, Move, Back
<1>16. CASE ~fails
  <2>1. q'[r] = z
    BY <1>0, <1>12, <1>16, StepIs
  <2>2. q'[r] \in Records
    BY <1>13, <2>1
  <2>3. /\ q'[r].mode = x.mode /\ q'[r].failed = x.failed /\ q'[r].counted = c /\ q'[r].err = x.err
        /\ q'[r].defers = {} /\ Back(x, q'[r]) /\ Silent(x, q'[r]) /\ Ended(x, q'[r])
    BY <1>5, <1>6, <1>14, <2>1 DEF Back, Silent, Ended, Routed
  <2>4. Closed(x, q'[r], t)
    BY <1>1, <1>3, <1>4, <1>5, <1>7, <1>8, <1>9, <1>16, <2>3 DEF Closed, AtMetrics
  <2> QED
    BY <1>5, <2>2, <2>3, <2>4 DEF Moved, Move, Back
<1> QED
  BY <1>15, <1>16

LEMMA Moves ==
  ASSUME TypeOK, RequestsInv, Next
  PROVE  \E r \in Requests : Moved(r)
<1>1. PICK r \in Requests : Arrive(r) \/ Handle(r) \/ Advance(r)
  BY DEF Next
<1>2. Places
  BY DEF RequestsInv, Places
<1>3. Moved(r)
  BY <1>1, <1>2, HandlerMoves, CallMoves, LayerMoves, HttpLayerMoves, GrpcLayerMoves, EdgeMoves,
     OpenMoves, InitMoves, CloseMoves DEF Handle, Advance, HttpStep, GrpcStep
<1> QED
  BY <1>3

----------------------------------------------------------------------------
(* Who is behind the metrics layer, after a move.                          *)
LEMMA MetricsIs ==
  ASSUME NEW x \in Records
  PROVE  \A i, j \in DOMAIN Chain(x) : Chain(x)[i] = "metrics" /\ Chain(x)[j] = "metrics" => i = j
BY ChainsAssumption, FieldTypes DEF Chain

LEMMA BehindIs ==
  ASSUME NEW x \in Records, NEW y \in Records, y.input = x.input
  PROVE  /\ (x.at <= 1 /\ x.mode = "in") \/ x.at = 0 => ~Behind(x)
         /\ Here(x) = "metrics" /\ x.mode \in {"in", "init"} => ~Behind(x)
         /\ Here(x) = "metrics" /\ x.mode \in {"out", "panic"} => Behind(x)
         /\ x.mode = "in" /\ y.mode = "in" /\ x.at \in DOMAIN Chain(x) /\ y.at = x.at + 1 =>
              (Behind(y) <=> Behind(x) \/ Here(x) = "metrics")
         /\ Back(x, y) /\ Here(x) # "metrics" => (Behind(y) <=> Behind(x))
         /\ Back(x, y) /\ Here(x) = "metrics" => ~Behind(y)
<1>1. /\ Chain(x) \in Seq(Layers) /\ Chain(y) = Chain(x)
      /\ x.at \in Nat /\ y.at \in Nat
      /\ DOMAIN Chain(x) = 1 .. Len(Chain(x)) /\ Len(Chain(x)) \in Nat
  BY HereIs, FieldTypes DEF Chain
<1>2. Here(x) = "metrics" <=> x.at \in DOMAIN Chain(x) /\ Chain(x)[x.at] = "metrics"
  BY <1>1 DEF Here
<1>3. Here(y) = "metrics" <=> y.at \in DOMAIN Chain(x) /\ Chain(x)[y.at] = "metrics"
  BY <1>1 DEF Here
<1>4. \A i, j \in DOMAIN Chain(x) : Chain(x)[i] = "metrics" /\ Chain(x)[j] = "metrics" => i = j
  BY MetricsIs
<1> DEFINE Inside(n) == \E i \in DOMAIN Chain(x) : i < n /\ Chain(x)[i] = "metrics"
<1>5. Behind(x) <=> Inside(x.at) \/ (Here(x) = "metrics" /\ x.mode \in {"out", "panic"})
  BY DEF Behind, IsMetrics
<1>6. Behind(y) <=> Inside(y.at) \/ (Here(y) = "metrics" /\ y.mode \in {"out", "panic"})
  BY <1>1 DEF Behind, IsMetrics
<1>7. \A n \in Nat : Inside(n + 1) <=> Inside(n) \/ (n \in DOMAIN Chain(x) /\ Chain(x)[n] = "metrics")
  BY <1>1
<1>8. Here(x) = "metrics" => ~Inside(x.at)
  BY <1>1, <1>2, <1>4
<1>9. ~Inside(0) /\ ~Inside(1)
  BY <1>1
<1>10. Here(x) = "metrics" => x.at >= 1
  BY <1>1, <1>2
<1> HIDE DEF Inside
<1>11. (x.at <= 1 /\ x.mode = "in") \/ x.at = 0 => ~Behind(x)
  <2>1. x.at <= 1 => x.at = 0 \/ x.at = 1
    BY <1>1
  <2> QED
    BY <1>5, <1>9, <1>10, <2>1
<1>12. /\ Here(x) = "metrics" /\ x.mode \in {"in", "init"} => ~Behind(x)
       /\ Here(x) = "metrics" /\ x.mode \in {"out", "panic"} => Behind(x)
  BY <1>5, <1>8
<1>13. x.mode = "in" /\ y.mode = "in" /\ x.at \in DOMAIN Chain(x) /\ y.at = x.at + 1 =>
         (Behind(y) <=> Behind(x) \/ Here(x) = "metrics")
  BY <1>1, <1>2, <1>5, <1>6, <1>7
<1>14. ASSUME Back(x, y)
       PROVE  Behind(y) <=> Inside(x.at)
  <2>1. y.at \in Nat /\ x.at = y.at + 1 /\ y.mode \in {"out", "panic"}
    BY <1>1, <1>14 DEF Back
  <2> QED
    BY <1>3, <1>6, <1>7, <2>1
<1> QED
  BY <1>5, <1>8, <1>11, <1>12, <1>13, <1>14

(* Nobody counts down before the instruments are there.                    *)
LEMMA InFlightIs ==
  ASSUME TypeOK, RequestsInv, NEW t \in Transports
  PROVE  /\ made[t] >= Active => InFlight(t) = Open(t)
         /\ ~(made[t] >= Active) => Open(t) = {}
<1>1. ASSUME NEW r \in Requests, q[r].input.transport = t
      PROVE  /\ made[t] >= Active => (r \in InFlight(t) <=> r \in Open(t))
             /\ ~(made[t] >= Active) => r \notin Open(t)
  <2>1. Deferred(q[r], made[t])
    BY <1>1 DEF RequestsInv
  <2>2. Skip(q[r]) <=> q[r].input.path = "api" /\ t = "http" /\ q[r].input.reduced
    BY <1>1 DEF Skip, Reduced
  <2> QED
    BY <1>1, <2>1, <2>2 DEF Deferred, InFlight, Open
<1>2. \A r \in Requests : q[r].input.transport # t => r \notin InFlight(t) /\ r \notin Open(t)
  BY DEF InFlight, Open
<1>3. InFlight(t) \subseteq Requests /\ Open(t) \subseteq Requests
  BY DEF InFlight, Open
<1> QED
  BY <1>1, <1>2, <1>3

LEMMA InFlightCounted ==
  ASSUME IInv
  PROVE  InflightExact
<1>1. SUFFICES ASSUME NEW t \in Transports
               PROVE  inflight[t] = IF made[t] >= Active THEN Cardinality(InFlight(t)) ELSE 0
  BY DEF InflightExact
<1>2. inflight[t] = Cardinality(Open(t))
  BY DEF IInv, OpenInv
<1>3. Cardinality({}) = 0
  BY FS_EmptySet
<1> QED
  BY <1>2, <1>3, InFlightIs DEF IInv

----------------------------------------------------------------------------
(* What a move does to the request that moves.                             *)
LEMMA MoverKept ==
  ASSUME TypeOK, RequestsInv, OneInits, NEW r \in Requests, Moved(r),
         NEW y, y = q'[r], NEW t, t = y.input.transport
  PROVE  /\ y.at <= Len(Chain(y)) + 1 /\ Place(y)
         /\ Deferred(y, made'[t]) /\ Made(y, once'[t])
<1>1. PICK x : x = q[r]
  OBVIOUS
<1>2. /\ x \in Records /\ y \in Records /\ t \in Transports
      /\ x.at <= Len(Chain(x)) + 1 /\ Place(x)
      /\ Deferred(x, made[x.input.transport]) /\ Made(x, once[x.input.transport])
      /\ x.mode # "idle" => y.input = x.input
      /\ Move(x, y)
  BY <1>1, FieldTypes DEF TypeOK, RequestsInv, Moved
<1>3. /\ x.at \in Nat /\ y.at \in Nat /\ Len(Chain(x)) \in Nat
      /\ DOMAIN Chain(x) = 1 .. Len(Chain(x))
      /\ Here(x) # "handler" => x.at \in DOMAIN Chain(x)
      /\ Here(x) = "handler" => x.at \notin DOMAIN Chain(x)
  BY <1>2, FieldTypes, HereIs
<1>4. /\ made \in [Transports -> 0 .. Health] /\ once \in [Transports -> {"new", "running", "done"}]
      /\ \A u \in Transports : once[u] # "done" => made[u] = 0
  BY DEF TypeOK, OneInits
<1>5. ASSUME y.input = x.input
      PROVE  Chain(y) = Chain(x) /\ (Skip(y) <=> Skip(x)) /\ t = x.input.transport
  BY <1>5 DEF Chain, Skip, Reduced
<1>6. CASE Arrives(x, y) /\ MeterUnchanged
  <2>1. y.at = 1 /\ y.mode = "in" /\ y.defers = {} /\ y.input \in Arrivals
    BY <1>6 DEF Arrives
  <2>2. ~Behind(y)
    BY <1>2, <2>1, BehindIs
  <2>3. Len(Chain(y)) \in Nat
    BY <1>2, HereIs
  <2>4. y.input.transport # "http" => y.input.path = "api" /\ y.input.matched
    BY <2>1, ChainsAssumption
  <2> QED
    BY <2>1, <2>2, <2>3, <2>4 DEF Place, Deferred, Made
<1>7. CASE Forward(x, y) /\ MeterUnchanged
  <2>1. /\ x.mode = "in" /\ y.mode = "in" /\ x.at \in DOMAIN Chain(x) /\ y.at = x.at + 1
        /\ y.input = x.input /\ y.defers = x.defers /\ (Here(x) = "metrics" => Skip(x))
    BY <1>7 DEF Forward, Kept
  <2>2. Behind(y) <=> Behind(x) \/ Here(x) = "metrics"
    BY <1>2, <2>1, BehindIs
  <2>3. Place(y) /\ y.at <= Len(Chain(y)) + 1
    BY <1>2, <1>3, <1>5, <2>1 DEF Place
  <2> QED
    BY <1>2, <1>5, <1>7, <2>1, <2>2, <2>3 DEF Deferred, Made, MeterUnchanged
<1>8. CASE Writes(x, y) /\ MeterUnchanged
  <2>1. /\ x.mode = "in" /\ y.mode = "in" /\ y.at = x.at
        /\ y.input = x.input /\ y.defers = x.defers
    BY <1>8 DEF Writes, Kept
  <2>2. Behind(y) <=> Behind(x)
    BY <1>5, <2>1 DEF Behind, IsMetrics, Here
  <2>3. Place(y) /\ y.at <= Len(Chain(y)) + 1
    BY <1>2, <1>3, <1>5, <2>1 DEF Place
  <2> QED
    BY <1>2, <1>5, <1>8, <2>1, <2>2, <2>3 DEF Deferred, Made, MeterUnchanged
<1>9. CASE (Turns(x, y) \/ NotFound(x, y) \/ Outward(x, y)) /\ MeterUnchanged
  <2>1. /\ Back(x, y) /\ x.mode \in {"in", "out", "panic"}
        /\ y.input = x.input /\ y.defers = x.defers /\ (Here(x) = "metrics" => Skip(x))
    BY <1>9 DEF Turns, NotFound, Outward, Kept
  <2>2. Here(x) # "metrics" => (Behind(y) <=> Behind(x))
    BY <1>2, <2>1, BehindIs
  <2>3. Place(y) /\ y.at <= Len(Chain(y)) + 1
    BY <1>2, <1>3, <1>5, <2>1 DEF Place, Back
  <2> QED
    BY <1>2, <1>5, <1>9, <2>1, <2>2, <2>3 DEF Deferred, Made, MeterUnchanged, Back
<1>10. CASE Ends(x, y) /\ MeterUnchanged
  <2>1. /\ x.at = 0 /\ y.at = 0 /\ y.mode \in {"done", "escaped"}
        /\ y.input = x.input /\ y.defers = x.defers
    BY <1>10 DEF Ends, Kept
  <2>2. ~Behind(y) /\ ~Behind(x)
    BY <1>2, <2>1, BehindIs
  <2>3. Place(y) /\ y.at <= Len(Chain(y)) + 1
    BY <1>2, <1>3, <1>5, <2>1 DEF Place
  <2> QED
    BY <1>2, <2>1, <2>2, <2>3 DEF Deferred, Made
<1>11. CASE InitStarts(x, y, x.input.transport)
  <2>1. /\ x.mode = "in" /\ AtMetrics(x) /\ y = [x EXCEPT !.mode = "init"]
        /\ once' = [once EXCEPT ![x.input.transport] = "running"] /\ made' = made
    BY <1>11 DEF InitStarts
  <2>2. y.mode = "init" /\ y.at = x.at /\ y.input = x.input /\ y.defers = x.defers
    BY <1>2, <2>1 DEF Records
  <2>3. Here(y) = Here(x)
    BY <1>5, <2>2 DEF Here
  <2>4. ~Behind(x) /\ ~Behind(y)
    BY <1>2, <2>1, <2>2, <2>3, BehindIs DEF AtMetrics
  <2>5. Place(y) /\ y.at <= Len(Chain(y)) + 1
    BY <1>2, <1>3, <1>5, <2>1, <2>2, <2>3 DEF Place, AtMetrics
  <2>6. once'[t] = "running"
    BY <1>2, <1>4, <1>5, <2>1, <2>2
  <2> QED
    BY <1>2, <2>2, <2>4, <2>5, <2>6 DEF Deferred, Made
<1>12. CASE Inits(x, y, x.input.transport) /\ InitReturns(x, y, x.input.transport)
  <2>1. x.mode = "init" /\ y = [x EXCEPT !.mode = "in"]
    BY <1>12 DEF InitReturns
  <2>2. y.mode = "in" /\ y.at = x.at /\ y.input = x.input /\ y.defers = x.defers
    BY <1>2, <2>1 DEF Records
  <2>3. Here(y) = Here(x) /\ AtMetrics(x)
    BY <1>2, <1>5, <2>1, <2>2 DEF Here, Place
  <2>4. ~Behind(x) /\ ~Behind(y)
    BY <1>2, <2>1, <2>2, <2>3, BehindIs DEF AtMetrics
  <2>5. Place(y) /\ y.at <= Len(Chain(y)) + 1
    BY <1>2, <1>3, <1>5, <2>1, <2>2, <2>3 DEF Place, AtMetrics
  <2> QED
    BY <1>2, <2>2, <2>4, <2>5 DEF Deferred, Made
<1>13. CASE Inits(x, y, x.input.transport) /\ InitPanics(x, y, x.input.transport)
  <2>1. x.mode = "init" /\ Back(x, y) /\ y.input = x.input /\ y.defers = x.defers /\ y.mode = "panic"
    BY <1>13 DEF InitPanics, Back
  <2>2. Here(x) = "metrics"
    BY <1>2, <2>1 DEF Place, AtMetrics
  <2>3. ~Behind(x) /\ ~Behind(y)
    BY <1>2, <2>1, <2>2, BehindIs
  <2>4. Place(y) /\ y.at <= Len(Chain(y)) + 1
    BY <1>2, <1>3, <1>5, <2>1, <2>2 DEF Place, Back
  <2> QED
    BY <1>2, <2>1, <2>3, <2>4 DEF Deferred, Made
<1>14. CASE Opened(x, y, x.input.transport)
  <2>1. /\ x.mode = "in" /\ y.mode = "in" /\ AtMetrics(x) /\ y.at = x.at + 1 /\ y.input = x.input
        /\ once[x.input.transport] = "done"
        /\ y.defers = IF Counted(x, x.input.transport) THEN {"record", "inflight"} ELSE {"record"}
        /\ UNCHANGED <<once, made>>
    BY <1>14 DEF Opened
  <2>2. Behind(y) /\ ~Skip(y)
    BY <1>2, <1>3, <1>5, <2>1, BehindIs DEF AtMetrics
  <2>3. Place(y) /\ y.at <= Len(Chain(y)) + 1
    BY <1>2, <1>3, <1>5, <2>1 DEF Place, AtMetrics
  <2> QED
    BY <1>2, <1>5, <2>1, <2>2, <2>3 DEF Deferred, Made, Counted
<1>15. CASE Closed(x, y, x.input.transport)
  <2>1. /\ x.mode \in {"out", "panic"} /\ AtMetrics(x) /\ Back(x, y) /\ y.defers = {} /\ y.input = x.input
    BY <1>15 DEF Closed, Back
  <2>2. ~Behind(y)
    BY <1>2, <2>1, BehindIs DEF AtMetrics
  <2>3. Place(y) /\ y.at <= Len(Chain(y)) + 1
    BY <1>2, <1>3, <1>5, <2>1 DEF Place, Back
  <2> QED
    BY <2>1, <2>2, <2>3 DEF Deferred, Made, Back
<1> QED
  BY <1>2, <1>6, <1>7, <1>8, <1>9, <1>10, <1>11, <1>12, <1>13, <1>14, <1>15 DEF Move, Inits

(* What it does to the instruments.                                        *)
LEMMA MeterKept ==
  ASSUME TypeOK, RequestsInv, OneInits, OpenInv, NEW r \in Requests, Moved(r),
         NEW t, t = q[r].input.transport
  PROVE  /\ \/ UNCHANGED <<once, made>>
            \/ /\ once[t] = "new" /\ once' = [once EXCEPT ![t] = "running"] /\ made' = made
               /\ q[r].mode # "init" /\ q'[r].mode = "init" /\ q'[r].input = q[r].input
            \/ /\ once[t] = "running" /\ once' = [once EXCEPT ![t] = "done"]
               /\ \E n \in 0 .. Full(t) : made' = [made EXCEPT ![t] = n]
               /\ q[r].mode = "init" /\ q'[r].mode # "init"
         /\ q'[r].mode = "init" => once[t] = "new" /\ q'[r].input = q[r].input
         /\ made' \in [Transports -> 0 .. Health]
         /\ once' \in [Transports -> {"new", "running", "done"}]
<1>1. PICK x, y : x = q[r] /\ y = q'[r]
  OBVIOUS
<1>2. /\ x \in Records /\ y \in Records /\ t \in Transports /\ Made(x, once[t])
      /\ Move(x, y) /\ t = x.input.transport
  BY <1>1, FieldTypes DEF TypeOK, RequestsInv, Moved
<1>3. /\ made \in [Transports -> 0 .. Health] /\ once \in [Transports -> {"new", "running", "done"}]
  BY DEF TypeOK
<1>4. CASE MeterUnchanged /\ y.mode # "init"
  BY <1>1, <1>3, <1>4 DEF MeterUnchanged
<1>5. CASE InitStarts(x, y, t)
  <2>1. /\ x.mode = "in" /\ y = [x EXCEPT !.mode = "init"] /\ once[t] = "new"
        /\ once' = [once EXCEPT ![t] = "running"] /\ made' = made
    BY <1>5 DEF InitStarts
  <2>2. y.mode = "init" /\ y.input = x.input
    BY <1>2, <2>1 DEF Records
  <2> QED
    BY <1>1, <1>2, <1>3, <2>1, <2>2
<1>6. CASE Inits(x, y, t)
  <2>1. PICK n \in Partial \union {Full(t)} : made' = [made EXCEPT ![t] = n]
    BY <1>6 DEF Inits, InitReturns, InitPanics
  <2>2. n \in 0 .. Full(t) /\ n \in 0 .. Health
    BY ChainsAssumption DEF Full, Health, Active, Requested
  <2>3. x.mode = "init" /\ once' = [once EXCEPT ![t] = "done"]
    BY <1>6 DEF Inits, InitReturns, InitPanics
  <2>4. y.mode # "init"
    BY <1>2, <1>6 DEF Inits, InitReturns, InitPanics, Records
  <2>5. once[t] = "running"
    BY <1>2, <2>3 DEF Made
  <2>6. made' \in [Transports -> 0 .. Health]
    BY <1>3, <2>1, <2>2
  <2> QED
    BY <1>1, <1>2, <1>3, <2>1, <2>2, <2>3, <2>4, <2>5, <2>6
<1>7. CASE UNCHANGED <<once, made>> /\ y.mode # "init"
  BY <1>1, <1>3, <1>7
<1> QED
  BY <1>2, <1>4, <1>5, <1>6, <1>7
     DEF Move, Arrives, Forward, Writes, Turns, NotFound, Outward, Ends, Opened, Closed, Back

LEMMA OpenKept ==
  ASSUME TypeOK, RequestsInv, OpenInv, NEW r \in Requests, Moved(r)
  PROVE  /\ OpenInv'
         /\ inflight' \in [Transports -> Nat]
<1> DEFINE t == q[r].input.transport
           N(u) == {s \in Requests : q'[s].input.transport = u /\ "inflight" \in q'[s].defers}
<1>1. PICK x, y : x = q[r] /\ y = q'[r]
  OBVIOUS
<1>2. /\ x \in Records /\ y \in Records /\ t \in Transports /\ Move(x, y) /\ t = x.input.transport
      /\ q' = [q EXCEPT ![r] = y] /\ DOMAIN q = Requests
  BY <1>1, FieldTypes DEF TypeOK, Moved
<1>3. \A s \in Requests : s # r => q'[s] = q[s]
  BY <1>2
<1>4. /\ inflight \in [Transports -> Nat]
      /\ \A u \in Transports : inflight[u] = Cardinality(Open(u)) /\ IsFiniteSet(Open(u))
  <2>1. \A u \in Transports : IsFiniteSet(Open(u))
    BY ChainsAssumption, FS_Subset DEF Open
  <2> QED
    BY <2>1 DEF TypeOK, OpenInv
<1>5. ASSUME NEW u \in Transports, u # t, y.input.transport = t
      PROVE  N(u) = Open(u)
  BY <1>1, <1>3, <1>5 DEF Open
<1>6. CASE /\ inflight' = inflight
           /\ "inflight" \in x.defers \/ "inflight" \in y.defers =>
                y.input = x.input /\ "inflight" \in x.defers /\ "inflight" \in y.defers
  <2>1. \A u \in Transports : N(u) = Open(u)
    BY <1>1, <1>3, <1>6 DEF Open
  <2> QED
    BY <1>4, <1>6, <2>1 DEF OpenInv, Open
<1>7. CASE /\ inflight' = [inflight EXCEPT ![t] = @ + 1] /\ y.input = x.input
           /\ "inflight" \notin x.defers /\ "inflight" \in y.defers
  <2>1. r \notin Open(t) /\ N(t) = Open(t) \union {r}
    BY <1>1, <1>2, <1>3, <1>7 DEF Open
  <2>2. Cardinality(N(t)) = Cardinality(Open(t)) + 1
    <3>1. IsFiniteSet(Open(t)) /\ r \notin Open(t)
      BY <1>2, <1>4, <2>1
    <3>2. Cardinality(Open(t) \union {r}) = Cardinality(Open(t)) + 1
      BY <3>1, FS_AddElement
    <3> QED
      BY <2>1, <3>2
  <2>3. \A u \in Transports : u # t => N(u) = Open(u)
    BY <1>2, <1>5, <1>7
  <2>4. /\ inflight' \in [Transports -> Nat] /\ inflight'[t] = inflight[t] + 1
        /\ \A u \in Transports : u # t => inflight'[u] = inflight[u]
    BY <1>2, <1>4, <1>7
  <2> QED
    BY <1>2, <1>4, <2>2, <2>3, <2>4 DEF OpenInv, Open
<1>8. CASE /\ inflight' = [inflight EXCEPT ![t] = @ - 1] /\ y.input = x.input
           /\ "inflight" \in x.defers /\ "inflight" \notin y.defers
  <2>1. r \in Open(t) /\ N(t) = Open(t) \ {r}
    BY <1>1, <1>2, <1>3, <1>8 DEF Open
  <2>2. Cardinality(N(t)) = Cardinality(Open(t)) - 1 /\ Cardinality(N(t)) \in Nat
    <3>1. IsFiniteSet(Open(t) \ {r}) /\ Cardinality(Open(t) \ {r}) = Cardinality(Open(t)) - 1
      BY <1>2, <1>4, <2>1, FS_RemoveElement
    <3> QED
      BY <2>1, <3>1, FS_CardinalityType
  <2>3. \A u \in Transports : u # t => N(u) = Open(u)
    BY <1>2, <1>5, <1>8
  <2>4. /\ inflight' \in [Transports -> Nat] /\ inflight'[t] = inflight[t] - 1
        /\ \A u \in Transports : u # t => inflight'[u] = inflight[u]
    <3>1. inflight[t] - 1 \in Nat
      BY <1>2, <1>4, <2>2
    <3> QED
      BY <1>2, <1>4, <1>8, <3>1
  <2> QED
    BY <1>2, <1>4, <2>2, <2>3, <2>4 DEF OpenInv, Open
<1>9. CASE /\ \/ Forward(x, y) \/ Writes(x, y) \/ Turns(x, y) \/ NotFound(x, y)
              \/ Outward(x, y) \/ Ends(x, y)
           /\ MeterUnchanged
  <2>1. y.defers = x.defers /\ y.input = x.input
    BY <1>9 DEF Forward, Writes, Turns, NotFound, Outward, Ends, Kept
  <2> QED
    BY <1>6, <1>9, <2>1 DEF MeterUnchanged
<1>10. CASE Arrives(x, y) /\ MeterUnchanged
  <2>1. y.defers = {} /\ x.defers = {} /\ inflight' = inflight
    BY <1>10 DEF Arrives, Idle, MeterUnchanged
  <2> QED
    BY <1>6, <2>1
<1>11. CASE InitStarts(x, y, t) \/ Inits(x, y, t)
  <2>1. y.defers = x.defers /\ y.input = x.input
    BY <1>2, <1>11 DEF InitStarts, Inits, InitReturns, InitPanics, Back, Records
  <2> QED
    BY <1>6, <1>11, <2>1 DEF InitStarts, Inits
<1>12. CASE Opened(x, y, t)
  <2>1. x.mode = "in" /\ AtMetrics(x) /\ y.input = x.input
    BY <1>12 DEF Opened
  <2>2. x.defers = {}
    <3>1. ~Behind(x)
      BY <1>2, <2>1, BehindIs DEF AtMetrics
    <3> QED
      BY <1>1, <3>1 DEF RequestsInv, Deferred
  <2>3. CASE Counted(x, t)
    BY <1>7, <1>12, <2>1, <2>2, <2>3 DEF Opened
  <2>4. CASE ~Counted(x, t)
    BY <1>6, <1>12, <2>2, <2>4 DEF Opened
  <2> QED
    BY <2>3, <2>4
<1>13. CASE Closed(x, y, t)
  <2>1. y.input = x.input /\ y.defers = {}
    BY <1>13 DEF Closed, Back
  <2>2. CASE "inflight" \in x.defers
    BY <1>8, <1>13, <2>1, <2>2 DEF Closed
  <2>3. CASE "inflight" \notin x.defers
    BY <1>6, <1>13, <2>1, <2>3 DEF Closed
  <2> QED
    BY <2>2, <2>3
<1> QED
  BY <1>2, <1>9, <1>10, <1>11, <1>12, <1>13 DEF Move

----------------------------------------------------------------------------
LEMMA IdleIs ==
  Idle \in Records /\ ~Behind(Idle)
<1>1. Nil \in Errors /\ None \in Nat \union {None}
  BY ErrorTypes
<1>2. Idle \in Records
  BY <1>1 DEF Idle, Records, Inputs, Transports
<1>3. Idle.at = 0
  BY DEF Idle
<1> QED
  BY <1>2, <1>3, BehindIs

LEMMA InitHolds ==
  ASSUME Init
  PROVE  IInv
<1>1. Idle \in Records
  BY IdleIs
<1>2. \A r \in Requests : q[r] = Idle
  BY DEF Init
<1>3. Idle.at = 0 /\ Idle.mode = "idle" /\ Idle.defers = {} /\ Idle.input.transport = "http"
  BY DEF Idle
<1>4. ~Behind(Idle)
  BY IdleIs
<1>5. TypeOK
  <2>1. Len(Chain(Idle)) \in Nat
    BY <1>1, HereIs
  <2>2. /\ q \in [Requests -> Records] /\ once \in [Transports -> {"new", "running", "done"}]
        /\ made \in [Transports -> 0 .. Health] /\ inflight \in [Transports -> Nat]
    BY <1>1 DEF Init, Health
  <2>3. Idle.at <= Len(Chain(Idle)) + 1
    BY <1>3, <2>1
  <2> QED
    BY <1>2, <2>2, <2>3 DEF TypeOK
<1>6. RequestsInv
  BY <1>2, <1>3, <1>4 DEF RequestsInv, Place, Deferred, Made
<1>7. OneInits
  BY <1>2, <1>3 DEF OneInits, Init
<1>8. OpenInv
  <2>1. \A t \in Transports : Open(t) = {}
    BY <1>2, <1>3 DEF Open
  <2>2. Cardinality({}) = 0
    BY FS_EmptySet
  <2> QED
    BY <2>1, <2>2 DEF OpenInv, Init
<1> QED
  BY <1>5, <1>6, <1>7, <1>8 DEF IInv

LEMMA StepHolds ==
  ASSUME IInv, Next
  PROVE  IInv'
<1>1. TypeOK /\ RequestsInv /\ OneInits /\ OpenInv
  BY DEF IInv
<1>2. PICK r \in Requests : Moved(r)
  BY <1>1, Moves
<1>3. PICK t : t = q[r].input.transport
  OBVIOUS
<1>4. /\ \/ UNCHANGED <<once, made>>
         \/ /\ once[t] = "new" /\ once' = [once EXCEPT ![t] = "running"] /\ made' = made
            /\ q[r].mode # "init" /\ q'[r].mode = "init" /\ q'[r].input = q[r].input
         \/ /\ once[t] = "running" /\ once' = [once EXCEPT ![t] = "done"]
            /\ \E n \in 0 .. Full(t) : made' = [made EXCEPT ![t] = n]
            /\ q[r].mode = "init" /\ q'[r].mode # "init"
      /\ q'[r].mode = "init" => once[t] = "new" /\ q'[r].input = q[r].input
      /\ made' \in [Transports -> 0 .. Health]
      /\ once' \in [Transports -> {"new", "running", "done"}]
  BY <1>1, <1>2, <1>3, MeterKept
<1>5. OpenInv' /\ inflight' \in [Transports -> Nat]
  BY <1>1, <1>2, OpenKept
<1>6. /\ q'[r].at <= Len(Chain(q'[r])) + 1 /\ Place(q'[r])
      /\ Deferred(q'[r], made'[q'[r].input.transport]) /\ Made(q'[r], once'[q'[r].input.transport])
  BY <1>1, <1>2, MoverKept
<1>7. /\ \A s \in Requests : s # r => q'[s] = q[s]
      /\ q' \in [Requests -> Records] /\ t \in Transports
  BY <1>1, <1>2, <1>3, FieldTypes DEF TypeOK, Moved
<1>8. /\ made \in [Transports -> 0 .. Health] /\ once \in [Transports -> {"new", "running", "done"}]
      /\ \A s \in Requests : q[s].input.transport \in Transports /\ q[s].at <= Len(Chain(q[s])) + 1
  BY <1>1, FieldTypes DEF TypeOK
<1>9. TypeOK'
  BY <1>4, <1>5, <1>6, <1>7, <1>8 DEF TypeOK, Chain
<1>10. ASSUME NEW s \in Requests, s # r
       PROVE  /\ Place(q[s])
              /\ Deferred(q[s], made'[q[s].input.transport])
              /\ Made(q[s], once'[q[s].input.transport])
  <2>1. PICK u \in Transports : u = q[s].input.transport
    BY <1>8
  <2>2. Place(q[s]) /\ Deferred(q[s], made[u]) /\ Made(q[s], once[u])
    BY <1>1, <2>1 DEF RequestsInv
  <2>3. CASE once'[u] = once[u] /\ made'[u] = made[u]
    BY <2>1, <2>2, <2>3
  <2>4. CASE u = t /\ once[t] = "new" /\ once' = [once EXCEPT ![t] = "running"] /\ made' = made
    BY <2>1, <2>2, <2>4 DEF Made
  <2>5. CASE u = t /\ once[t] = "running" /\ once' = [once EXCEPT ![t] = "done"] /\ q[r].mode = "init"
    <3>1. q[s].mode # "init"
      BY <1>1, <1>3, <1>10, <2>1, <2>5 DEF OneInits
    <3>2. ~Behind(q[s]) \/ Skip(q[s])
      BY <2>2, <2>5 DEF Made
    <3> QED
      BY <2>1, <2>2, <3>1, <3>2 DEF Made, Deferred
  <2> QED
    BY <1>4, <1>7, <1>8, <2>1, <2>3, <2>4, <2>5
<1>11. RequestsInv'
  BY <1>6, <1>7, <1>10 DEF RequestsInv, Place, Deferred, Made
<1>12. OneInits'
  <2>1. \A u \in Transports : once'[u] # "done" => made'[u] = 0
    BY <1>1, <1>4, <1>7, <1>8 DEF OneInits
  <2>2. ASSUME NEW s \in Requests, s # r, q[s].mode = "init", q'[r].mode = "init",
               q[s].input.transport = q'[r].input.transport
        PROVE  FALSE
    <3>1. once[t] = "new" /\ q'[r].input = q[r].input
      BY <1>4, <2>2
    <3>2. once[q[s].input.transport] = "running"
      BY <1>1, <2>2 DEF RequestsInv, Made
    <3> QED
      BY <1>3, <2>2, <3>1, <3>2
  <2> QED
    BY <1>1, <1>7, <2>1, <2>2 DEF OneInits
<1> QED
  BY <1>5, <1>9, <1>11, <1>12 DEF IInv

(* The invariant is inductive.                                             *)
THEOREM Invariance == Spec => []IInv
<1>1. ASSUME IInv, UNCHANGED vars
      PROVE  IInv'
  BY <1>1 DEF IInv, TypeOK, RequestsInv, OneInits, OpenInv, Open, vars, Chain
<1> QED
  BY <1>1, InitHolds, StepHolds, PTL DEF Spec

(* Every variable keeps its type, and a request its place in its chain.    *)
THEOREM TypeCorrect == Spec => []TypeOK
<1>1. IInv => TypeOK
  BY DEF IInv
<1> QED
  BY <1>1, Invariance, PTL

(* However requests end and interleave, with whatever chains: the counter  *)
(* of active requests of MetricsMiddleware and of the interceptors is the  *)
(* number of requests behind them.                                         *)
THEOREM ActiveIsExact == Spec => []InflightExact
BY InFlightCounted, Invariance, PTL

----------------------------------------------------------------------------
(* Where the mux is.                                                       *)
LEMMA PastMuxIs ==
  ASSUME NEW x \in Records, NEW y \in Records, y.input = x.input
  PROVE  /\ x.at \in DOMAIN Chain(x) /\ y.at = x.at + 1 =>
              (PastMux(y) <=> PastMux(x) \/ Here(x) = "mux")
         /\ y.at = x.at => (PastMux(y) <=> PastMux(x))
         /\ x.at = 1 => ~PastMux(x)
         /\ x.input.transport = "http" /\ x.at >= 1 /\ Here(x) = "handler" => PastMux(x)
<1>1. /\ Chain(y) = Chain(x) /\ x.at \in Nat
      /\ DOMAIN Chain(x) = 1 .. Len(Chain(x)) /\ Len(Chain(x)) \in Nat
  BY HereIs, FieldTypes DEF Chain
<1>2. Here(x) = "mux" <=> x.at \in DOMAIN Chain(x) /\ Chain(x)[x.at] = "mux"
  BY <1>1 DEF Here
<1>3. y.at = x.at => (PastMux(y) <=> PastMux(x))
  BY <1>1 DEF PastMux
<1>4. x.at = 1 => ~PastMux(x)
  BY <1>1 DEF PastMux
<1>5. x.at \in DOMAIN Chain(x) /\ y.at = x.at + 1 => (PastMux(y) <=> PastMux(x) \/ Here(x) = "mux")
  BY <1>1, <1>2 DEF PastMux
<1>6. ASSUME x.input.transport = "http", x.at >= 1, Here(x) = "handler"
      PROVE  PastMux(x)
  <2>1. PICK j \in DOMAIN Chain(x) : Chain(x)[j] = "mux"
    BY <1>6, ChainsAssumption DEF Chain
  <2>2. x.at \notin DOMAIN Chain(x)
    BY <1>6, HereIs
  <2> QED
    BY <1>1, <1>6, <2>1, <2>2 DEF PastMux
<1> QED
  BY <1>3, <1>4, <1>5, <1>6

(* What the place of the metrics layer rules out.                          *)
LEMMA MeteredIs ==
  ASSUME NEW x \in Records, Metered(x.input.transport), x.mode = "in", x.at >= 1
  PROVE  /\ Here(x) \in {"handler", "mux"} => Behind(x)
         /\ x.input.transport = "http" /\ (Behind(x) \/ PastMux(x)) => Here(x) # "logger"
<1>1. PICK i \in DOMAIN Chain(x) :
        /\ Chain(x)[i] = "metrics"
        /\ \A j \in DOMAIN Chain(x) : Chain(x)[j] = "mux" => j > i
        /\ \A j \in DOMAIN Chain(x) : Chain(x)[j] = "logger" /\ x.input.transport = "http" => j < i
  BY DEF Metered, Chain
<1>2. /\ x.at \in Nat /\ DOMAIN Chain(x) = 1 .. Len(Chain(x)) /\ Len(Chain(x)) \in Nat
      /\ Here(x) # "handler" => x.at \in DOMAIN Chain(x) /\ Here(x) = Chain(x)[x.at]
      /\ Here(x) = "handler" => x.at \notin DOMAIN Chain(x)
  BY HereIs, FieldTypes
<1>3. Here(x) \in {"handler", "mux"} => Behind(x)
  BY <1>1, <1>2 DEF Behind
<1>4. Behind(x) => i < x.at
  BY <1>1, <1>2, MetricsIs DEF Behind, IsMetrics
<1>5. PastMux(x) => i < x.at
  BY <1>1, <1>2 DEF PastMux
<1> QED
  BY <1>1, <1>2, <1>3, <1>4, <1>5

LEMMA CountingKept ==
  ASSUME TypeOK, RequestsInv, OneInits, NEW r \in Requests, Moved(r),
         Counting(q[r], once[q[r].input.transport], made[q[r].input.transport]),
         NEW y, y = q'[r], NEW t, t = y.input.transport
  PROVE  Counting(y, once'[t], made'[t])
<1>1. PICK x : x = q[r]
  OBVIOUS
<1>2. /\ x \in Records /\ y \in Records /\ t \in Transports
      /\ x.at <= Len(Chain(x)) + 1 /\ Place(x)
      /\ Made(x, once[x.input.transport])
      /\ Counting(x, once[x.input.transport], made[x.input.transport])
      /\ x.mode # "idle" => y.input = x.input
      /\ Move(x, y)
  BY <1>1, FieldTypes DEF TypeOK, RequestsInv, Moved
<1>3. x.clones \in Nat /\ None \notin Nat
  BY <1>2, FieldTypes DEF None
<1>4. /\ made \in [Transports -> 0 .. Health] /\ once \in [Transports -> {"new", "running", "done"}]
  BY DEF TypeOK
<1>5. ASSUME y.input = x.input
      PROVE  (Skip(y) <=> Skip(x)) /\ t = x.input.transport
  BY <1>5 DEF Skip, Reduced
<1>6. CASE Arrives(x, y) /\ MeterUnchanged
  <2>1. /\ y.at = 1 /\ y.mode = "in" /\ y.pattern = None /\ y.counted = <<>>
    BY <1>6 DEF Arrives
  <2>2. ~Behind(y) /\ ~PastMux(y)
    BY <1>2, <2>1, BehindIs, PastMuxIs
  <2> QED
    BY <2>1, <2>2 DEF Counting
<1>7. CASE Forward(x, y) /\ MeterUnchanged
  <2>1. /\ x.mode = "in" /\ y.mode = "in" /\ x.at \in DOMAIN Chain(x) /\ y.at = x.at + 1
        /\ y.input = x.input /\ y.counted = x.counted /\ y.held = x.held
        /\ (Here(x) = "metrics" => Skip(x)) /\ x.at >= 1
        /\ Here(x) = "mux" => x.input.matched /\ y.pattern = x.clones
        /\ Here(x) # "mux" => y.pattern = x.pattern
        /\ Here(x) # "logger" \/ x.input.transport # "http" => y.clones = x.clones
    BY <1>2, <1>7 DEF Forward, Kept, Place
  <2>2. Behind(y) <=> Behind(x) \/ Here(x) = "metrics"
    BY <1>2, <2>1, BehindIs
  <2>3. PastMux(y) <=> PastMux(x) \/ Here(x) = "mux"
    BY <1>2, <2>1, PastMuxIs
  <2>4. x.counted = <<>>
    BY <1>2, <2>1 DEF Counting
  <2>5. CASE Metered(t) /\ t = "http"
    <3>1. Behind(x) \/ PastMux(x) => Here(x) # "logger"
      BY <1>2, <1>5, <2>1, <2>5, MeteredIs
    <3> QED
      BY <1>2, <1>5, <2>1, <2>2, <2>3, <2>4, <2>5, <3>1 DEF Counting
  <2>6. CASE ~(Metered(t) /\ t = "http")
    BY <2>1, <2>4, <2>6 DEF Counting
  <2> QED
    BY <2>5, <2>6
<1>8. CASE Writes(x, y) /\ MeterUnchanged
  <2>1. /\ x.mode = "in" /\ y.mode = "in" /\ y.at = x.at /\ y.input = x.input
        /\ y.counted = x.counted /\ y.held = x.held /\ y.clones = x.clones /\ y.pattern = x.pattern
    BY <1>8 DEF Writes, Kept, Routed
  <2>2. (Behind(y) <=> Behind(x)) /\ (PastMux(y) <=> PastMux(x))
    BY <2>1 DEF Behind, IsMetrics, Here, Chain, PastMux
  <2> QED
    BY <1>2, <1>5, <2>1, <2>2 DEF Counting
<1>9. CASE (Turns(x, y) \/ NotFound(x, y)) /\ MeterUnchanged
  <2>1. /\ x.mode = "in" /\ Back(x, y) /\ y.mode \in {"out", "panic"} /\ y.input = x.input
        /\ Here(x) \in {"handler", "mux"} /\ x.at >= 1
        /\ Here(x) = "mux" => ~x.input.matched
        /\ y.counted = x.counted /\ y.held = x.held /\ y.clones = x.clones /\ y.pattern = x.pattern
    BY <1>9 DEF Turns, NotFound, Back, Kept, Routed
  <2>2. x.counted = <<>>
    BY <1>2, <2>1 DEF Counting
  <2>3. CASE Metered(t)
    <3>1. Behind(x) /\ Behind(y)
      BY <1>2, <1>5, <2>1, <2>3, MeteredIs, BehindIs
    <3>2. t = "http" /\ Here(x) = "handler" => PastMux(x)
      BY <1>2, <1>5, <2>1, PastMuxIs
    <3> QED
      BY <1>2, <1>5, <2>1, <2>2, <2>3, <3>1, <3>2 DEF Counting
  <2>4. CASE ~Metered(t)
    BY <2>1, <2>2, <2>4 DEF Counting
  <2> QED
    BY <2>3, <2>4
<1>10. CASE Outward(x, y) /\ MeterUnchanged
  <2>1. /\ x.mode \in {"out", "panic"} /\ y.mode \in {"out", "panic"} /\ Back(x, y)
        /\ y.input = x.input /\ y.counted = x.counted /\ y.failed = x.failed /\ y.held = x.held
        /\ y.clones = x.clones /\ y.pattern = x.pattern
        /\ (Here(x) = "metrics" => Skip(x))
    BY <1>10 DEF Outward, Back, Kept, Routed
  <2>2. once' = once /\ made' = made
    BY <1>10 DEF MeterUnchanged
  <2>3. CASE Here(x) = "metrics"
    <3>1. ~Behind(y) /\ Skip(y) /\ y.counted = <<>>
      BY <1>2, <1>5, <2>1, <2>3, BehindIs DEF Counting
    <3> QED
      BY <2>1, <3>1 DEF Counting, CountedOk
  <2>4. CASE Here(x) # "metrics"
    <3>1. Behind(y) <=> Behind(x)
      BY <1>2, <2>1, <2>4, BehindIs
    <3>2. CountedOk(x) <=> CountedOk(y)
      BY <1>5, <2>1 DEF CountedOk
    <3> QED
      BY <1>2, <1>5, <2>1, <2>2, <3>1, <3>2 DEF Counting
  <2> QED
    BY <2>3, <2>4
<1>11. CASE Ends(x, y) /\ MeterUnchanged
  <2>1. /\ x.at = 0 /\ y.at = 0 /\ x.mode \in {"out", "panic"} /\ y.mode \in {"done", "escaped"}
        /\ y.input = x.input /\ y.counted = x.counted /\ y.failed = x.failed
    BY <1>11 DEF Ends, Kept
  <2>2. ~Behind(y) /\ ~Behind(x) /\ once' = once /\ made' = made
    BY <1>2, <1>11, <2>1, BehindIs DEF MeterUnchanged
  <2>3. CountedOk(x) <=> CountedOk(y)
    BY <1>5, <2>1 DEF CountedOk
  <2> QED
    BY <1>2, <1>5, <2>1, <2>2, <2>3 DEF Counting
<1>12. CASE InitStarts(x, y, x.input.transport) \/ InitReturns(x, y, x.input.transport)
  <2>1. /\ x.mode \in {"in", "init"} /\ y.mode \in {"in", "init"} /\ y.at = x.at /\ y.input = x.input
        /\ AtMetrics(x)
        /\ y.counted = x.counted /\ y.held = x.held /\ y.clones = x.clones /\ y.pattern = x.pattern
    BY <1>2, <1>12 DEF InitStarts, InitReturns, Records, Place
  <2>2. ~Behind(x) /\ ~Behind(y) /\ (PastMux(y) <=> PastMux(x))
    <3>1. Here(y) = Here(x)
      BY <2>1 DEF Here, Chain
    <3> QED
      BY <1>2, <2>1, <3>1, BehindIs, PastMuxIs DEF AtMetrics
  <2> QED
    BY <1>2, <1>5, <2>1, <2>2 DEF Counting
<1>13. CASE InitPanics(x, y, x.input.transport)
  <2>1. /\ x.mode = "init" /\ y.mode = "panic" /\ y.failed /\ Back(x, y) /\ y.input = x.input
        /\ AtMetrics(x) /\ y.counted = x.counted
    BY <1>2, <1>13 DEF InitPanics, Back, Place
  <2>2. ~Behind(y) /\ y.counted = <<>>
    BY <1>2, <2>1, BehindIs DEF AtMetrics, Counting
  <2> QED
    BY <2>1, <2>2 DEF Counting
<1>14. CASE Opened(x, y, x.input.transport)
  <2>1. /\ x.mode = "in" /\ y.mode = "in" /\ AtMetrics(x) /\ y.at = x.at + 1 /\ y.input = x.input
        /\ x.input.transport = "http" => y.held = x.clones
        /\ y.counted = x.counted /\ y.clones = x.clones /\ y.pattern = x.pattern
    BY <1>14 DEF Opened, Routed
  <2>2. PastMux(y) <=> PastMux(x)
    BY <1>2, <2>1, HereIs, PastMuxIs DEF AtMetrics
  <2> QED
    BY <1>2, <1>5, <2>1, <2>2 DEF Counting
<1>15. CASE Closed(x, y, x.input.transport)
  <2>1. /\ x.mode \in {"out", "panic"} /\ AtMetrics(x) /\ Back(x, y) /\ y.input = x.input
        /\ y.mode \in {"out", "panic"} /\ once' = once /\ made' = made
    BY <1>15 DEF Closed, Back
  <2>2. ~Behind(y) /\ Behind(x) /\ ~Skip(x) /\ ~Skip(y) /\ x.counted = <<>> /\ once[t] = "done"
    BY <1>2, <1>5, <2>1, BehindIs DEF AtMetrics, Counting, Made
  <2>3. CASE y.failed
    BY <2>1, <2>2, <2>3 DEF Counting
  <2>4. CASE ~y.failed /\ Metered(t) /\ made[t] = Full(t)
    <3>1. ~(made[t] < Instrument(x))
      BY <1>5, <2>1, <2>4 DEF Full, Instrument, Health, Active, Requested
    <3>2. PICK slow \in BOOLEAN :
            y.counted = Append(x.counted,
              IF t # "http" THEN Sample(x, slow)
              ELSE [series |-> IF Healthcheck(x) THEN "healthcheck" ELSE "request",
                    route |-> RoutePattern(x), status |-> x.status,
                    exemplar |-> Healthcheck(x) \/ AttachHTTPExemplar(x.status, slow)])
      BY <1>5, <1>15, <2>1, <2>4, <3>1 DEF Closed
    <3>3. PICK a : y.counted = <<a>>
                   /\ a = IF t # "http" THEN Sample(x, slow)
                          ELSE [series |-> IF Healthcheck(x) THEN "healthcheck" ELSE "request",
                                route |-> RoutePattern(x), status |-> x.status,
                                exemplar |-> Healthcheck(x) \/ AttachHTTPExemplar(x.status, slow)]
      BY <2>2, <3>2
    <3>4. Len(y.counted) = 1 /\ y.counted[1] = a
      BY <3>3
    <3>5. a.series = IF y.input.path = "health" THEN "healthcheck" ELSE "request"
      BY <1>2, <1>5, <2>1, <3>3 DEF Sample, Healthcheck, Place
    <3>6. a.route = IF y.input.matched THEN "route" ELSE "unknown"
      <4>1. CASE t = "http"
        <5>1. x.held = x.clones /\ x.pattern = IF x.input.matched THEN x.clones ELSE None
          BY <1>2, <1>5, <2>1, <2>2, <2>4, <4>1 DEF Counting
        <5>2. a.route = RoutePattern(x)
          BY <3>3, <4>1
        <5> QED
          BY <1>3, <2>1, <5>1, <5>2 DEF RoutePattern
      <4>2. CASE t # "http"
        BY <1>2, <1>5, <2>1, <3>3, <4>2 DEF Sample, Place
      <4> QED
        BY <4>1, <4>2
    <3>7. CountedOk(y)
      BY <2>2, <3>4, <3>5, <3>6 DEF CountedOk
    <3> QED
      BY <2>1, <2>2, <3>7 DEF Counting
  <2> QED
    BY <2>1, <2>2, <2>3, <2>4 DEF Counting
<1> QED
  BY <1>2, <1>6, <1>7, <1>8, <1>9, <1>10, <1>11, <1>12, <1>13, <1>14, <1>15 DEF Move, Inits

LEMMA CountingHolds ==
  ASSUME IInv, CountingInv, Next
  PROVE  CountingInv'
<1>1. TypeOK /\ RequestsInv /\ OneInits /\ OpenInv
  BY DEF IInv
<1>2. PICK r \in Requests : Moved(r)
  BY <1>1, Moves
<1>3. Counting(q'[r], once'[q'[r].input.transport], made'[q'[r].input.transport])
  BY <1>1, <1>2, CountingKept DEF CountingInv
<1>4. ASSUME NEW s \in Requests, s # r
      PROVE  Counting(q'[s], once'[q'[s].input.transport], made'[q'[s].input.transport])
  <2>1. PICK x, u : x = q[s] /\ u = q[s].input.transport /\ u \in Transports
    BY <1>1, FieldTypes DEF TypeOK
  <2>2. /\ q'[s] = x /\ Counting(x, once[u], made[u])
        /\ \A t \in Transports : once[t] # "done" => made[t] = 0
    BY <1>1, <1>2, <1>4, <2>1 DEF CountingInv, TypeOK, Moved, OneInits
  <2>3. \/ once'[u] = once[u] /\ made'[u] = made[u]
        \/ once[u] # "done"
    <3>1. PICK t \in Transports : t = q[r].input.transport
      BY <1>1, FieldTypes DEF TypeOK
    <3>2. /\ \/ UNCHANGED <<once, made>>
             \/ /\ once[t] = "new" /\ once' = [once EXCEPT ![t] = "running"] /\ made' = made
             \/ /\ once[t] = "running" /\ once' = [once EXCEPT ![t] = "done"]
                /\ \E n \in 0 .. Full(t) : made' = [made EXCEPT ![t] = n]
      BY <1>1, <1>2, <3>1, MeterKept
    <3> QED
      BY <1>1, <2>1, <3>1, <3>2 DEF TypeOK
  <2>4. CASE once'[u] = once[u] /\ made'[u] = made[u]
    BY <2>1, <2>2, <2>4
  <2>5. CASE once[u] # "done"
    <3>1. u = x.input.transport
      BY <2>1
    <3> QED
      BY <2>2, <2>5, <3>1 DEF Counting, CountedOk
  <2> QED
    BY <2>1, <2>2, <2>3, <2>4, <2>5
<1>5. \A s \in Requests :
        Counting(q'[s], once'[q'[s].input.transport], made'[q'[s].input.transport])
  BY <1>3, <1>4
<1> QED
  BY <1>5 DEF CountingInv

LEMMA CountingInit ==
  ASSUME Init
  PROVE  CountingInv
<1>1. TypeOK /\ \A r \in Requests : q[r] = Idle
  BY InitHolds DEF IInv, Init
<1>2. ASSUME NEW r \in Requests, NEW o, NEW n
      PROVE  Counting(q[r], o, n)
  <2>1. /\ q[r].mode = "idle" /\ q[r].at = 0 /\ q[r].counted = <<>> /\ q[r].pattern = None
    BY <1>1 DEF Idle
  <2>2. ~Behind(q[r]) /\ ~PastMux(q[r])
    <3>1. q[r] \in Records
      BY <1>1 DEF TypeOK
    <3>2. ~Behind(q[r])
      BY <2>1, <3>1, BehindIs
    <3>3. DOMAIN Chain(q[r]) = 1 .. Len(Chain(q[r])) /\ Len(Chain(q[r])) \in Nat
      BY <3>1, HereIs
    <3> QED
      BY <2>1, <3>2, <3>3 DEF PastMux
  <2> QED
    BY <2>1, <2>2 DEF Counting
<1> QED
  BY <1>2 DEF CountingInv

LEMMA CountingIsInductive == Spec => []CountingInv
<1>1. ASSUME IInv, CountingInv, [Next]_vars
      PROVE  CountingInv'
  <2>1. CASE Next
    BY <1>1, <2>1, CountingHolds
  <2>2. CASE UNCHANGED vars
    BY <1>1, <2>2 DEF CountingInv, vars, Counting, Behind, IsMetrics, Here, Chain, PastMux,
                      Skip, Reduced, CountedOk
  <2> QED
    BY <1>1, <2>1, <2>2
<1> QED
  BY <1>1, CountingInit, Invariance, PTL DEF Spec

(* With the layers in the order the comments ask for, every request that   *)
(* has ended was counted once, in its series and with its route, however   *)
(* many panicked, unless the metrics layer did; and who opted out was not. *)
THEOREM CountedExactlyOnce == Spec => []CountedOnce
<1>1. ASSUME IInv, CountingInv
      PROVE  CountedOnce
  <2>1. SUFFICES ASSUME NEW r \in Requests, NEW x, x = q[r], NEW t, t = x.input.transport,
                        Over(x), Metered(t), ~x.failed,
                        made[t] = IF t = "http" THEN Health ELSE Active
                 PROVE  IF t = "http" /\ x.input.path = "api" /\ x.input.reduced
                        THEN x.counted = <<>>
                        ELSE /\ Len(x.counted) = 1
                             /\ x.counted[1].series =
                                  IF x.input.path = "health" THEN "healthcheck" ELSE "request"
                             /\ x.counted[1].route =
                                  IF x.input.matched THEN "route" ELSE "unknown"
    BY DEF CountedOnce
  <2>2. x \in Records /\ Place(x) /\ Counting(x, once[t], made[t])
    BY <1>1, <2>1 DEF IInv, TypeOK, RequestsInv, CountingInv
  <2>3. x.at = 0 /\ x.mode \in {"done", "escaped"}
    BY <2>1, <2>2 DEF Over, Place
  <2>4. ~Behind(x)
    BY <2>2, <2>3, BehindIs
  <2>5. made[t] = Full(t)
    BY <2>1 DEF Full
  <2>6. CountedOk(x)
    BY <2>1, <2>2, <2>3, <2>4, <2>5 DEF Counting
  <2> QED
    BY <2>1, <2>6 DEF CountedOk, Skip, Reduced
<1> QED
  BY <1>1, CountingIsInductive, Invariance, PTL

----------------------------------------------------------------------------
LEMMA FreshKept ==
  ASSUME TypeOK, RequestsInv, NEW r \in Requests, Moved(r), Fresh(q[r])
  PROVE  Fresh(q'[r])
<1>1. PICK x, y : x = q[r] /\ y = q'[r]
  OBVIOUS
<1>2. x \in Records /\ y \in Records /\ Place(x) /\ Move(x, y) /\ Fresh(x)
  BY <1>1 DEF TypeOK, RequestsInv, Moved
<1>3. y.input = x.input => Chain(y) = Chain(x)
  BY DEF Chain
<1>4. /\ Here(x) = "handler" => x.at \notin DOMAIN Chain(x)
      /\ Here(x) # "handler" => x.at \in DOMAIN Chain(x)
  BY <1>2, HereIs
<1>5. CASE Arrives(x, y)
  BY <1>1, <1>5 DEF Arrives, Fresh
<1>6. CASE Forward(x, y) \/ Opened(x, y, x.input.transport)
  <2>1. /\ x.mode = "in" /\ x.at \in DOMAIN Chain(x)
        /\ y.end = x.end /\ y.failed = x.failed /\ y.answer = x.answer
    BY <1>4, <1>6 DEF Forward, Opened, AtMetrics, Kept, Silent, Ended
  <2> QED
    BY <1>1, <1>2, <2>1 DEF Fresh
<1>7. CASE Writes(x, y)
  BY <1>1, <1>2, <1>3, <1>4, <1>7 DEF Writes, Kept, Ended, Fresh
<1>8. CASE InitStarts(x, y, x.input.transport) \/ InitReturns(x, y, x.input.transport)
  <2>1. /\ x.mode \in {"in", "init"} /\ Here(x) # "handler"
        /\ y.end = x.end /\ y.failed = x.failed /\ y.answer = x.answer
    BY <1>2, <1>8 DEF InitStarts, InitReturns, Records, Place, AtMetrics
  <2> QED
    BY <1>1, <1>2, <1>4, <2>1 DEF Fresh
<1>9. CASE y.mode \notin {"idle", "in", "init"}
  BY <1>1, <1>9 DEF Fresh
<1>10. CASE \/ Turns(x, y) \/ NotFound(x, y) \/ Outward(x, y) \/ Ends(x, y)
            \/ InitPanics(x, y, x.input.transport) \/ Closed(x, y, x.input.transport)
  BY <1>9, <1>10 DEF Turns, NotFound, Outward, Ends, InitPanics, Closed, Back
<1> QED
  BY <1>2, <1>5, <1>6, <1>7, <1>8, <1>10 DEF Move, Inits

(* What a recovery inside the metrics layer, and no error layer outside it *)
(* in gRPC, mean for a request.                                            *)
LEMMA GuardedIs ==
  ASSUME NEW x \in Records, Guarded(x.input.transport), x.at >= 1, x.at <= Len(Chain(x)) + 1,
         NEW y \in Records
  PROVE  /\ x.mode = "in" /\ Here(x) = "handler" => Behind(x)
         /\ x.mode = "in" /\ Here(x) = "handler" /\ Back(x, y) => Caught(y)
         /\ Caught(x) /\ Back(x, y) /\ Here(x) # "recovery" => Caught(y)
         /\ Caught(x) => Here(x) # "metrics"
         /\ x.input.transport # "http" /\ Here(x) = "error" => Behind(x)
<1>1. PICK i \in DOMAIN Chain(x), j \in DOMAIN Chain(x) :
        /\ i < j /\ Chain(x)[i] = "metrics" /\ Chain(x)[j] = "recovery"
        /\ x.input.transport # "http" =>
             \A k \in DOMAIN Chain(x) : Chain(x)[k] = "error" => k > i
  BY DEF Guarded, Chain
<1>2. /\ x.at \in Nat /\ y.at \in Nat /\ DOMAIN Chain(x) = 1 .. Len(Chain(x)) /\ Len(Chain(x)) \in Nat
      /\ Here(x) # "handler" => x.at \in DOMAIN Chain(x) /\ Here(x) = Chain(x)[x.at]
      /\ Here(x) = "handler" => x.at \notin DOMAIN Chain(x)
  BY HereIs, FieldTypes
<1>3. Here(x) = "handler" => i < x.at /\ j <= x.at - 1
  BY <1>1, <1>2
<1>4. x.mode = "in" /\ Here(x) = "handler" => Behind(x)
  BY <1>1, <1>3 DEF Behind
<1>5. ASSUME Back(x, y)
      PROVE  Chain(y) = Chain(x) /\ y.at = x.at - 1
  BY <1>5 DEF Back, Chain
<1>6. Here(x) = "handler" /\ Back(x, y) => Caught(y)
  BY <1>1, <1>2, <1>3, <1>5 DEF Caught
<1>7. Caught(x) /\ Back(x, y) /\ Here(x) # "recovery" => Caught(y)
  BY <1>2, <1>5 DEF Caught
<1>8. Caught(x) => Here(x) # "metrics"
  BY <1>2, MetricsIs DEF Caught
<1>9. x.input.transport # "http" /\ Here(x) = "error" => Behind(x)
  BY <1>1, <1>2 DEF Behind
<1> QED
  BY <1>4, <1>6, <1>7, <1>8, <1>9

(* What is counted stays what the client gets, by every kind of move.      *)
LEMMA AgreeingKept ==
  ASSUME TypeOK, RequestsInv, NEW r \in Requests, Moved(r), Fresh(q[r]), Agreeing(q[r]),
         Counting(q[r], once[q[r].input.transport], made[q[r].input.transport]),
         NEW y, y = q'[r], y.end # "late", Guarded(y.input.transport)
  PROVE  Agreeing(y)
<1>1. PICK x : x = q[r]
  OBVIOUS
<1>2. /\ x \in Records /\ y \in Records /\ x.at <= Len(Chain(x)) + 1 /\ Place(x) /\ Move(x, y)
      /\ Deferred(x, made[x.input.transport]) /\ Fresh(x) /\ Agreeing(x)
      /\ x.mode \in {"idle", "in", "init"} \/ Behind(x) \/ Skip(x) => x.counted = <<>>
  BY <1>1 DEF TypeOK, RequestsInv, Moved, Counting
<1>3. y.input = x.input => (Skip(y) <=> Skip(x))
  BY DEF Skip, Reduced
<1>4. Behind(x) /\ ~Skip(x) => x.defers # {}
  BY <1>2 DEF Deferred
<1>5. /\ None \notin Nat /\ x.answer \in Nat \union {None} /\ x.cause \in Errors /\ x.err \in Errors
      /\ y.cause \in Errors
  BY <1>2, FieldTypes DEF None
<1>6. /\ \A s \in Written : s \in Nat
      /\ ErrorToHTTP(y.cause) \in Nat /\ Recovered(x.err) \in Nat
  BY <1>5, ErrorTypes, ChainsAssumption
<1>7. ASSUME x.end # "late", y.input = x.input
      PROVE  /\ Guarded(x.input.transport)
             /\ x.mode \in {"idle", "in", "init"} /\ ~Behind(x) => x.status = 200
             /\ Behind(x) /\ ~Skip(x) /\ x.input.transport = "http" => x.status = Code(x)
             /\ Behind(x) /\ x.mode = "panic" =>
                  Caught(x) /\ (x.input.transport = "http" => x.answer = None)
             /\ x.counted # <<>> /\ ~x.failed =>
                  /\ x.mode \in {"out", "done"} /\ ~Behind(x)
                  /\ x.counted[1].status = Code(x)
                  /\ x.counted[1].status >= 500
                     \/ (x.input.transport # "http" /\ x.counted[1].status = Internal)
                       => x.counted[1].exemplar
  BY <1>2, <1>7 DEF Agreeing
<1>8. CASE Arrives(x, y)
  <2>1. y.at = 1 /\ y.mode = "in" /\ y.status = 200 /\ y.counted = <<>>
    BY <1>8 DEF Arrives
  <2>2. ~Behind(y)
    BY <1>2, <2>1, BehindIs
  <2> QED
    BY <2>1, <2>2 DEF Agreeing
<1>9. CASE Forward(x, y)
  <2>1. /\ x.mode = "in" /\ y.mode = "in" /\ x.at \in DOMAIN Chain(x) /\ y.at = x.at + 1
        /\ y.input = x.input /\ y.counted = <<>> /\ y.status = x.status /\ y.answer = x.answer
        /\ y.err = x.err /\ y.end = x.end
        /\ Here(x) = "metrics" => Skip(x)
    BY <1>2, <1>9 DEF Forward, Kept, Silent, Ended
  <2>2. Behind(y) <=> Behind(x) \/ Here(x) = "metrics"
    BY <1>2, <2>1, BehindIs
  <2>3. Code(y) = Code(x)
    BY <2>1 DEF Code
  <2> QED
    BY <1>3, <1>7, <2>1, <2>2, <2>3 DEF Agreeing
<1>10. CASE Writes(x, y)
  <2>1. /\ x.mode = "in" /\ y.mode = "in" /\ Here(x) = "handler" /\ y.at = x.at
        /\ y.input = x.input /\ y.counted = <<>> /\ y.end = x.end
        /\ x.input.transport = "http" /\ x.answer = None /\ x.at >= 1
    BY <1>2, <1>10 DEF Writes, Kept, Ended, Place
  <2>2. Behind(x) /\ Behind(y)
    <3>1. Behind(x)
      BY <1>2, <1>7, <2>1, GuardedIs
    <3> QED
      BY <2>1, <3>1 DEF Behind, IsMetrics, Here, Chain
  <2>3. PICK s \in Nat : Wrote(x, y, s)
    BY <1>6, <1>10 DEF Writes
  <2>4. ~Skip(x) => y.status = Code(y)
    BY <1>4, <1>5, <2>1, <2>2, <2>3 DEF Code, Wrote
  <2> QED
    BY <1>3, <2>1, <2>2, <2>4 DEF Agreeing
<1>11. CASE Turns(x, y)
  <2>1. /\ x.mode = "in" /\ y.mode \in {"out", "panic"} /\ Here(x) = "handler" /\ Back(x, y)
        /\ y.input = x.input /\ y.counted = <<>> /\ x.end = "none" /\ x.at >= 1
    BY <1>2, <1>11 DEF Turns, Back, Kept, Fresh
  <2>2. Behind(x) /\ Behind(y) /\ Caught(y)
    <3>1. Behind(x) /\ Caught(y)
      BY <1>2, <1>7, <2>1, GuardedIs
    <3>2. Behind(y)
      BY <1>2, <2>1, <3>1, BehindIs
    <3> QED
      BY <3>1, <3>2
  <2>3. CASE x.input.transport = "http"
    <3>1. /\ Silent(x, y) \/ (x.answer = None /\ Wrote(x, y, ErrorToHTTP(y.cause)))
          /\ y.mode = "panic" => x.answer = None /\ Silent(x, y)
      <4>1. HttpTurns(x, y)
        BY <1>11, <2>3 DEF Turns, GrpcTurns
      <4> QED
        BY <4>1 DEF HttpTurns
    <3>2. ~Skip(x) => y.status = Code(y)
      <4>1. CASE Silent(x, y)
        BY <1>7, <2>1, <2>2, <2>3, <4>1 DEF Silent, Code
      <4>2. CASE x.answer = None /\ Wrote(x, y, ErrorToHTTP(y.cause))
        BY <1>4, <1>5, <1>6, <2>1, <2>2, <2>3, <4>2 DEF Wrote, Code
      <4> QED
        BY <3>1, <4>1, <4>2
    <3> QED
      BY <1>3, <2>1, <2>2, <2>3, <3>1, <3>2 DEF Agreeing, Silent
  <2>4. CASE x.input.transport # "http"
    BY <2>1, <2>2, <2>4 DEF Agreeing
  <2> QED
    BY <2>3, <2>4
<1>12. CASE NotFound(x, y)
  <2>1. /\ x.mode = "in" /\ y.mode = "out" /\ Here(x) = "mux" /\ Back(x, y)
        /\ y.input = x.input /\ y.counted = <<>> /\ Wrote(x, y, 404)
    BY <1>2, <1>12 DEF NotFound, Back, Kept
  <2>2. x.answer = None /\ (Behind(y) <=> Behind(x))
    <3>1. x.answer = None
      BY <1>2, <2>1, HereIs DEF Fresh
    <3> QED
      BY <1>2, <2>1, <3>1, BehindIs
  <2>3. Behind(y) /\ ~Skip(y) /\ y.input.transport = "http" => y.status = Code(y)
    BY <1>3, <1>4, <1>5, <2>1, <2>2 DEF Code, Wrote
  <2> QED
    BY <2>1, <2>3 DEF Agreeing
<1>13. CASE Outward(x, y)
  <2>1. /\ x.mode \in {"out", "panic"} /\ y.mode \in {"out", "panic"} /\ Back(x, y) /\ x.at >= 1
        /\ y.input = x.input /\ y.counted = x.counted /\ y.failed = x.failed /\ y.end = x.end
        /\ Here(x) = "metrics" => Skip(x)
        /\ Passes(x, y) \/ Converted(x, y) \/ Rescued(x, y)
    BY <1>13 DEF Outward, Back, Kept, Ended
  <2>2. CASE Here(x) = "metrics"
    <3>1. ~Behind(y) /\ y.counted = <<>>
      BY <1>2, <2>1, <2>2, BehindIs
    <3> QED
      BY <2>1, <3>1 DEF Agreeing
  <2>3. CASE Here(x) # "metrics"
    <3>1. Behind(y) <=> Behind(x)
      BY <1>2, <2>1, <2>3, BehindIs
    <3>2. CASE Passes(x, y)
      <4>1. /\ y.mode = x.mode /\ y.status = x.status /\ y.answer = x.answer /\ y.err = x.err
            /\ x.mode = "panic" => Here(x) # "recovery"
        BY <3>2 DEF Passes, Silent
      <4>2. Code(y) = Code(x)
        BY <2>1, <4>1 DEF Code
      <4>3. Caught(x) /\ x.mode = "panic" => Caught(y)
        BY <1>2, <1>7, <2>1, <4>1, GuardedIs
      <4> QED
        BY <1>3, <1>7, <2>1, <3>1, <4>1, <4>2, <4>3 DEF Agreeing
    <3>3. CASE Converted(x, y)
      <4>1. Behind(x)
        BY <1>2, <1>7, <2>1, <3>3, GuardedIs DEF Converted
      <4>2. y.counted = <<>> /\ x.input.transport # "http" /\ y.mode = "out"
        BY <1>2, <2>1, <3>3, <4>1 DEF Converted
      <4> QED
        BY <2>1, <4>2 DEF Agreeing
    <3>4. CASE Rescued(x, y)
      <4>1. /\ x.mode = "panic" /\ y.mode = "out" /\ (x.counted = <<>> \/ x.failed)
            /\ x.input.transport = "http" => \E s \in Nat : Wrote(x, y, s)
        BY <1>6, <1>7, <2>1, <3>4 DEF Rescued
      <4>2. Behind(y) /\ ~Skip(y) /\ y.input.transport = "http" => y.status = Code(y)
        BY <1>3, <1>4, <1>5, <1>7, <2>1, <3>1, <4>1 DEF Wrote, Code
      <4> QED
        BY <2>1, <4>1, <4>2 DEF Agreeing
    <3> QED
      BY <2>1, <3>2, <3>3, <3>4
  <2> QED
    BY <2>2, <2>3
<1>14. CASE Ends(x, y)
  <2>1. /\ x.at = 0 /\ y.at = 0 /\ x.mode \in {"out", "panic"} /\ y.mode \in {"done", "escaped"}
        /\ y.input = x.input /\ y.counted = x.counted /\ y.failed = x.failed /\ y.end = x.end
        /\ x.mode = "out" => y.mode = "done" /\ Code(y) = Code(x)
    BY <1>14 DEF Ends, Kept, Ended, Code
  <2>2. ~Behind(y)
    BY <1>2, <2>1, BehindIs
  <2> QED
    BY <1>7, <2>1, <2>2 DEF Agreeing
<1>15. CASE InitStarts(x, y, x.input.transport) \/ InitReturns(x, y, x.input.transport)
  <2>1. /\ x.mode \in {"in", "init"} /\ y.mode \in {"in", "init"} /\ y.at = x.at /\ y.input = x.input
        /\ AtMetrics(x) /\ y.counted = <<>> /\ y.status = x.status /\ y.end = x.end
    BY <1>2, <1>15 DEF InitStarts, InitReturns, Records, Place
  <2>2. ~Behind(x) /\ ~Behind(y)
    <3>1. Here(y) = Here(x)
      BY <2>1 DEF Here, Chain
    <3> QED
      BY <1>2, <2>1, <3>1, BehindIs DEF AtMetrics
  <2> QED
    BY <1>7, <2>1, <2>2 DEF Agreeing
<1>16. CASE InitPanics(x, y, x.input.transport)
  <2>1. /\ x.mode = "init" /\ y.mode = "panic" /\ Back(x, y) /\ y.input = x.input
        /\ AtMetrics(x) /\ y.counted = <<>>
    BY <1>2, <1>16 DEF InitPanics, Back, Place
  <2>2. ~Behind(y)
    BY <1>2, <2>1, BehindIs DEF AtMetrics
  <2> QED
    BY <2>1, <2>2 DEF Agreeing
<1>17. CASE Opened(x, y, x.input.transport)
  <2>1. /\ x.mode = "in" /\ y.mode = "in" /\ AtMetrics(x) /\ y.input = x.input /\ y.end = x.end
        /\ y.counted = <<>> /\ y.status = x.status /\ y.answer = x.answer
    BY <1>2, <1>17 DEF Opened, Silent, Ended
  <2>2. ~Behind(x) /\ x.answer = None
    <3>1. x.at \in DOMAIN Chain(x)
      BY <1>2, <2>1, HereIs DEF AtMetrics
    <3> QED
      BY <1>2, <2>1, <3>1, BehindIs DEF AtMetrics, Fresh
  <2>3. x.status = 200
    BY <1>7, <2>1, <2>2
  <2>4. y.status = 200 /\ (y.input.transport = "http" => Code(y) = 200)
    BY <2>1, <2>2, <2>3 DEF Code
  <2> QED
    BY <2>1, <2>4 DEF Agreeing
<1>18. CASE Closed(x, y, x.input.transport)
  <2>1. /\ x.mode \in {"out", "panic"} /\ AtMetrics(x) /\ Back(x, y) /\ y.input = x.input
        /\ y.mode \in {"out", "panic"} /\ y.end = x.end /\ x.at >= 1
    BY <1>18 DEF Closed, Back, Ended
  <2>2. ~Behind(y) /\ Behind(x) /\ ~Skip(x) /\ x.counted = <<>>
    BY <1>2, <2>1, BehindIs DEF AtMetrics
  <2>3. x.mode = "out"
    <3>1. Caught(x) => Here(x) # "metrics"
      BY <1>2, <1>7, <2>1, GuardedIs
    <3> QED
      BY <1>7, <2>1, <2>2, <3>1 DEF AtMetrics
  <2>4. CASE y.counted = <<>> \/ y.failed
    BY <2>1, <2>2, <2>4 DEF Agreeing
  <2>5. CASE y.counted # <<>> /\ ~y.failed
    <3> DEFINE s(slow) ==
                 IF x.input.transport # "http" THEN Sample(x, slow)
                 ELSE [series |-> IF Healthcheck(x) THEN "healthcheck" ELSE "request",
                       route |-> RoutePattern(x), status |-> x.status,
                       exemplar |-> Healthcheck(x) \/ AttachHTTPExemplar(x.status, slow)]
    <3>0. PICK slow \in BOOLEAN :
            /\ y.counted = Append(x.counted, s(slow))
            /\ y.mode = x.mode /\ y.err = x.err /\ Silent(x, y)
      BY <1>18, <2>2, <2>5 DEF Closed
    <3>1. PICK a : a = s(slow) /\ y.counted = Append(x.counted, a)
      BY <3>0
    <3>2. y.counted = <<a>> /\ y.mode = "out" /\ y.answer = x.answer /\ y.counted[1] = a
      BY <2>2, <2>3, <3>0, <3>1 DEF Silent
    <3>3. Code(y) = Code(x)
      BY <2>1, <2>3, <3>0, <3>2 DEF Code
    <3>4. CASE x.input.transport = "http"
      <4>1. a.status = Code(x) /\ (a.status >= 500 => a.exemplar)
        BY <1>7, <2>1, <2>2, <3>1, <3>4 DEF AttachHTTPExemplar
      <4> QED
        BY <2>1, <2>2, <3>2, <3>3, <3>4, <4>1 DEF Agreeing
    <3>5. CASE x.input.transport # "http"
      <4>1. a.status = CodeOf(x.err) /\ a.exemplar = AttachGRPCExemplar(CodeOf(x.err), slow)
        BY <2>3, <3>1, <3>5 DEF Sample, Result
      <4>2. a.status = Code(x)
        BY <2>3, <3>5, <4>1 DEF Code
      <4>3. CodeOf(x.err) \in Codes
        BY <1>5, ErrorTypes
      <4>4. ~(a.status >= 500) /\ (a.status = Internal => a.exemplar)
        <5>1. ~(CodeOf(x.err) >= 500)
          BY <4>3 DEF Codes
        <5>2. CodeOf(x.err) = Internal => AttachGRPCExemplar(CodeOf(x.err), slow)
          BY DEF AttachGRPCExemplar
        <5> QED
          BY <4>1, <5>1, <5>2
      <4> QED
        BY <2>1, <2>2, <3>2, <3>3, <4>2, <4>4 DEF Agreeing
    <3> QED
      BY <3>4, <3>5
  <2> QED
    BY <2>4, <2>5
<1> QED
  BY <1>2, <1>8, <1>9, <1>10, <1>11, <1>12, <1>13, <1>14, <1>15, <1>16, <1>17, <1>18 DEF Move, Inits

LEMMA FreshHolds ==
  ASSUME IInv, FreshInv, Next
  PROVE  FreshInv'
<1>1. PICK r \in Requests : Moved(r)
  BY Moves DEF IInv
<1>2. Fresh(q'[r])
  BY <1>1, FreshKept DEF IInv, FreshInv
<1>3. \A s \in Requests : s # r => q'[s] = q[s]
  BY <1>1 DEF IInv, TypeOK, Moved
<1>4. \A s \in Requests : Fresh(q'[s])
  BY <1>2, <1>3 DEF FreshInv
<1> QED
  BY <1>4 DEF FreshInv

LEMMA AgreeingHolds ==
  ASSUME IInv, CountingInv, FreshInv, AgreeingInv, Next
  PROVE  AgreeingInv'
<1>1. TypeOK /\ RequestsInv
  BY DEF IInv
<1>2. PICK r \in Requests : Moved(r)
  BY <1>1, Moves DEF IInv
<1>3. Agreeing(q'[r])
  <2>1. PICK y : y = q'[r]
    OBVIOUS
  <2>2. CASE y.end # "late" /\ Guarded(y.input.transport)
    <3>1. /\ Fresh(q[r]) /\ Agreeing(q[r])
          /\ Counting(q[r], once[q[r].input.transport], made[q[r].input.transport])
      BY DEF FreshInv, AgreeingInv, CountingInv
    <3> QED
      BY <1>1, <1>2, <2>1, <2>2, <3>1, AgreeingKept
  <2>3. CASE ~(y.end # "late" /\ Guarded(y.input.transport))
    BY <2>1, <2>3 DEF Agreeing
  <2> QED
    BY <2>2, <2>3
<1>4. \A s \in Requests : s # r => q'[s] = q[s]
  BY <1>1, <1>2 DEF TypeOK, Moved
<1>5. \A s \in Requests : Agreeing(q'[s])
  BY <1>3, <1>4 DEF AgreeingInv
<1> QED
  BY <1>5 DEF AgreeingInv

LEMMA AgreeingInit ==
  ASSUME Init
  PROVE  FreshInv /\ AgreeingInv
<1>1. ~Behind(Idle) /\ \A r \in Requests : q[r] = Idle
  BY IdleIs DEF Init
<1>2. /\ Idle.mode = "idle" /\ Idle.at = 0 /\ Idle.end = "none" /\ ~Idle.failed
      /\ Idle.answer = None /\ Idle.status = 200 /\ Idle.counted = <<>>
  BY DEF Idle
<1> QED
  BY <1>1, <1>2 DEF FreshInv, Fresh, AgreeingInv, Agreeing

(* With a recovery inside the metrics layer, the status or the code that   *)
(* was counted is the one the client got, and a sample of a failure has    *)
(* its trace: whatever the other layers are, and although the layers write *)
(* one after the other and panics change the answer on the way, as long as *)
(* the record does not panic after its counter.                            *)
THEOREM CountedAsAnswered == Spec => []AnswersAgree
<1>1. ASSUME IInv, AgreeingInv
      PROVE  AnswersAgree
  <2>1. SUFFICES ASSUME NEW r \in Requests, NEW x, x = q[r], NEW t, t = x.input.transport,
                        Over(x), Guarded(t), x.end # "late", ~x.failed,
                        x.counted # <<>>
                 PROVE  /\ x.counted[1].status = x.answer
                        /\ x.answer >= 500 \/ (t # "http" /\ x.answer = Internal)
                             => x.counted[1].exemplar
    BY DEF AnswersAgree
  <2>2. x.mode \in {"done", "escaped"} /\ Agreeing(x)
    BY <1>1, <2>1 DEF Over, AgreeingInv
  <2>3. /\ x.mode = "done" /\ x.counted[1].status = Code(x)
        /\ x.counted[1].status >= 500
           \/ (x.input.transport # "http" /\ x.counted[1].status = Internal)
             => x.counted[1].exemplar
    BY <2>1, <2>2 DEF Agreeing
  <2> QED
    BY <2>1, <2>3 DEF Code
<1>2. ASSUME IInv, CountingInv, FreshInv /\ AgreeingInv, [Next]_vars
      PROVE  (FreshInv /\ AgreeingInv)'
  <2>1. CASE Next
    BY <1>2, <2>1, FreshHolds, AgreeingHolds
  <2>2. CASE UNCHANGED vars
    <3>1. \A r \in Requests : q'[r] = q[r]
      BY <2>2 DEF vars
    <3>2. \A r \in Requests : Fresh(q'[r]) /\ Agreeing(q'[r])
      BY <1>2, <3>1 DEF FreshInv, AgreeingInv
    <3> QED
      BY <3>2 DEF FreshInv, AgreeingInv
  <2> QED
    BY <1>2, <2>1, <2>2
<1> QED
  BY <1>1, <1>2, AgreeingInit, CountingIsInductive, Invariance, PTL DEF Spec

----------------------------------------------------------------------------
(* What the conversions make of an error.                                  *)
LEMMA PromisedIs ==
  ASSUME NEW e \in Errors
  PROVE  /\ Promised("http", e) \in Nat
         /\ ErrorToHTTP(e) = Promised("http", e)
         /\ Recovered(e) = Promised("http", Thrown1(e))
         /\ \A t \in Transports : t # "http" =>
              /\ e # Nil => CodeOf(ErrorToGRPCError(e)) = Promised(t, e)
              /\ Promised(t, Value) = Internal
         /\ ErrorToGRPCError(Status(Internal)) = Status(Internal)
         /\ CodeOf(Status(Internal)) = Internal
<1>1. \A c : Is(e, c) <=> e.wraps = 0 /\ e.class = c
  BY DEF Is
<1>2. Promised("http", e) \in Nat /\ ErrorToHTTP(e) = Promised("http", e)
  BY <1>1 DEF Promised, ErrorToHTTP, HttpStatus, Domain
<1>3. Recovered(e) = Promised("http", Thrown1(e))
  <2>1. PICK u : u = Unwrap(e)
    OBVIOUS
  <2>2. ErrorToHTTP(u) = Promised("http", u)
    BY DEF Promised, ErrorToHTTP, HttpStatus, Domain, Is
  <2>3. Promised("http", Value) = 500
    BY DEF Promised, Value, Error, Domain
  <2> QED
    BY <2>1, <2>2, <2>3 DEF Recovered, Thrown1
<1>4. \A t : t # "http" => Promised(t, Value) = Internal
  BY DEF Promised, Value, Error, Domain
<1>5. /\ \A n : Status(n).class = "status" /\ Status(n).code = n
      /\ \A n : Status(n) # Nil
  BY DEF Status, Nil, Error
<1>6. ASSUME NEW t \in Transports, t # "http", e # Nil
      PROVE  CodeOf(ErrorToGRPCError(e)) = Promised(t, e)
  <2>1. PICK n : n = IF \E c \in Domain : Is(e, c) THEN GrpcCode[e.class] ELSE Internal
    OBVIOUS
  <2>2. ErrorToGRPCError(e) = Status(n) /\ CodeOf(Status(n)) = n
    BY <1>5, <1>6, <2>1 DEF ErrorToGRPCError, CodeOf
  <2>3. n = Promised(t, e)
    BY <1>1, <1>6, <2>1 DEF Promised
  <2> QED
    BY <2>2, <2>3
<1>7. \A c \in Domain : ~Is(Status(Internal), c)
  BY <1>5 DEF Is, Domain
<1> QED
  BY <1>2, <1>3, <1>4, <1>5, <1>6, <1>7 DEF ErrorToGRPCError, CodeOf

(* Moves as errors see them.                                               *)
Along(x, y) ==
  /\ x.mode \in {"out", "panic"} /\ Back(x, y) /\ x.at \in DOMAIN Chain(x)
  /\ Here(x) = "recovery" => x.mode = "out"
  /\ Here(x) = "error" => x.mode = IF x.input.transport = "http" THEN "out" ELSE "panic"
  /\ y.mode = x.mode /\ Silent(x, y) /\ Ended(x, y) /\ y.err = x.err /\ y.failed = x.failed

Breaks(x, y) ==
  /\ Back(x, y) /\ y.mode = "panic" /\ y.failed /\ Here(x) = "metrics"

Turned(x, y) ==
  /\ x.mode \in {"out", "panic"} /\ Back(x, y) /\ x.at \in DOMAIN Chain(x)
  /\ Ended(x, y) /\ y.failed = x.failed
  /\ Converted(x, y) \/ Rescued(x, y)

LEMMA ErrorMoves ==
  ASSUME NEW x \in Records, NEW y \in Records, Place(x), Fresh(x), Move(x, y)
  PROVE  \/ y.mode \in {"in", "init"} /\ y.end = "none"
         \/ Turns(x, y) /\ ~x.failed
         \/ NotFound(x, y) \/ Ends(x, y)
         \/ Along(x, y) \/ Breaks(x, y) \/ Turned(x, y)
<1>1. Here(x) # "handler" => x.at \in DOMAIN Chain(x)
  BY HereIs
<1>2. CASE Arrives(x, y)
  BY <1>2 DEF Arrives
<1>3. CASE Forward(x, y) \/ Writes(x, y) \/ Opened(x, y, x.input.transport)
  BY <1>3 DEF Forward, Writes, Opened, Ended, Fresh
<1>4. CASE InitStarts(x, y, x.input.transport) \/ InitReturns(x, y, x.input.transport)
  BY <1>4 DEF InitStarts, InitReturns, Records, Fresh
<1>5. CASE InitPanics(x, y, x.input.transport)
  BY <1>5 DEF InitPanics, Place, AtMetrics, Breaks
<1>6. CASE Closed(x, y, x.input.transport)
  <2>1. /\ x.mode \in {"out", "panic"} /\ Here(x) = "metrics"
        /\ Back(x, y) /\ Silent(x, y) /\ Ended(x, y)
        /\ \/ y.mode = "panic" /\ y.failed
           \/ y.mode = x.mode /\ y.failed = x.failed /\ y.err = x.err
    BY <1>6 DEF Closed, AtMetrics
  <2> QED
    BY <1>1, <2>1 DEF Along, Breaks
<1>7. CASE Outward(x, y)
  BY <1>7 DEF Outward, Passes, Kept, Along, Turned
<1>8. CASE Turns(x, y)
  BY <1>8 DEF Turns, Fresh
<1> QED
  BY <1>2, <1>3, <1>4, <1>5, <1>6, <1>7, <1>8 DEF Move, Inits

LEMMA UnansweredKept ==
  ASSUME NEW x \in Records, NEW y \in Records, x.at <= Len(Chain(x)) + 1,
         Place(x), Fresh(x), Move(x, y), Unanswered(x)
  PROVE  Unanswered(y)
<1>1. /\ x.at \in Nat /\ DOMAIN Chain(x) = 1 .. Len(Chain(x)) /\ Len(Chain(x)) \in Nat
      /\ Here(x) # "handler" => x.at \in DOMAIN Chain(x) /\ Here(x) = Chain(x)[x.at]
      /\ Here(x) = "handler" => x.at \notin DOMAIN Chain(x)
  BY HereIs, FieldTypes
<1>2. Chain(x) \in Seq(Layers) /\ Chain(x) = Chains[x.input.transport]
  BY HereIs DEF Chain
<1>3. ASSUME Back(x, y), Here(x) # "recovery",
             Chains[x.input.transport] # <<>>, Chains[x.input.transport][1] = "recovery"
      PROVE  y.at >= 1
  <2>1. x.at # 1 /\ x.at >= 1 /\ y.at = x.at - 1
    BY <1>1, <1>2, <1>3 DEF Back
  <2> QED
    BY <1>1, <2>1
<1>4. CASE y.mode \in {"in", "init"}
  BY <1>4 DEF Unanswered
<1>5. CASE Turns(x, y)
  <2>1. Back(x, y) /\ Here(x) # "recovery" /\ y.mode \in {"out", "panic"} /\ y.input = x.input
    BY <1>5 DEF Turns, Back
  <2>2. y.mode = "panic" => y.end \in {"panicked", "late"}
    BY <1>5 DEF Turns, HttpTurns, GrpcTurns
  <2> QED
    BY <1>3, <2>1, <2>2 DEF Unanswered
<1>6. CASE NotFound(x, y)
  BY <1>6 DEF NotFound, Unanswered
<1>7. CASE Ends(x, y)
  <2>1. /\ x.at = 0 /\ y.input = x.input
        /\ \/ x.mode = "out" /\ y.mode = "done"
           \/ x.mode = "panic" /\ y.mode = "escaped"
    BY <1>7 DEF Ends, Kept
  <2> QED
    BY <2>1 DEF Unanswered
<1>8. CASE Along(x, y)
  <2>1. y.mode = "panic" => Here(x) # "recovery"
    BY <1>8 DEF Along
  <2> QED
    BY <1>3, <1>8, <2>1 DEF Along, Back, Ended, Unanswered
<1>9. CASE Breaks(x, y)
  <2>1. Back(x, y) /\ Here(x) # "recovery" /\ y.mode = "panic" /\ y.failed /\ y.input = x.input
    BY <1>9 DEF Breaks, Back
  <2> QED
    BY <1>3, <2>1 DEF Unanswered
<1>10. CASE Turned(x, y)
  BY <1>10 DEF Turned, Converted, Rescued, Unanswered
<1> QED
  BY <1>4, <1>5, <1>6, <1>7, <1>8, <1>9, <1>10, ErrorMoves

(* A move to the next layer out does not pass the i-th, unless it is there.*)
LEMMA BackIs ==
  ASSUME NEW x \in Records, NEW y \in Records, Back(x, y), x.at \in DOMAIN Chain(x),
         NEW i \in DOMAIN Chain(x), x.at # i
  PROVE  (x.at < i <=> y.at < i) /\ (x.at >= i <=> y.at >= i)
<1>1. /\ x.at \in Nat /\ DOMAIN Chain(x) = 1 .. Len(Chain(x)) /\ Len(Chain(x)) \in Nat
      /\ y.at = x.at - 1 /\ i \in Nat
  BY HereIs, FieldTypes DEF Back
<1> QED
  BY <1>1

LEMMA ReturnedKept ==
  ASSUME NEW x \in Records, NEW y \in Records, Place(x), Fresh(x), Move(x, y),
         x.at <= Len(Chain(x)) + 1, Unanswered(x), Returned(x)
  PROVE  Returned(y)
<1>1. SUFFICES ASSUME y.end = "failed", ~y.failed
               PROVE  Returned(y)
  BY DEF Returned
<1>2. /\ x.at \in Nat /\ DOMAIN Chain(x) = 1 .. Len(Chain(x)) /\ Len(Chain(x)) \in Nat
      /\ Here(x) # "handler" => x.at \in DOMAIN Chain(x) /\ Here(x) = Chain(x)[x.at]
      /\ Here(x) = "handler" => x.at \notin DOMAIN Chain(x)
      /\ x.cause \in Errors /\ y.cause \in Errors /\ x.input.transport \in Transports
  BY HereIs, FieldTypes
<1>3. None \notin Nat /\ \A e \in Errors : Promised("http", e) \in Nat
  BY PromisedIs DEF None
<1>4. CASE Turns(x, y)
  <2>1. x.mode = "in" /\ Here(x) = "handler" /\ Back(x, y) /\ y.mode \in {"out", "panic"}
    BY <1>4 DEF Turns, Back
  <2>2. CASE x.input.transport = "http"
    <3>1. x.answer = None /\ Wrote(x, y, ErrorToHTTP(y.cause)) /\ y.input = x.input
      BY <1>1, <1>4, <2>1, <2>2 DEF Turns, HttpTurns, GrpcTurns, Back
    <3>2. y.answer = Promised("http", y.cause)
      BY <1>2, <3>1, PromisedIs DEF Wrote
    <3> QED
      BY <2>2, <3>1, <3>2 DEF Returned
  <2>3. CASE x.input.transport # "http"
    <3>1. /\ y.err = y.cause /\ y.mode = "out" /\ y.cause # Nil /\ y.input = x.input
      BY <1>1, <1>4, <2>1, <2>3 DEF Turns, HttpTurns, GrpcTurns, Back
    <3>2. Chain(y) = Chain(x) /\ \A i \in DOMAIN Chain(x) : ~(y.at < i)
      <4>1. x.at = Len(Chain(x)) + 1 /\ y.at = x.at - 1
        BY <1>2, <2>1 DEF Back
      <4> QED
        BY <1>2, <3>1, <4>1 DEF Chain
    <3> QED
      BY <2>3, <3>1, <3>2 DEF Returned
  <2> QED
    BY <2>2, <2>3
<1>5. CASE Ends(x, y)
  <2>1. /\ x.at = 0 /\ y.input = x.input /\ y.cause = x.cause /\ x.end = "failed" /\ ~x.failed
        /\ Chain(y) = Chain(x)
    BY <1>1, <1>5 DEF Ends, Kept, Ended, Chain
  <2>2. x.mode = "out" /\ y.mode = "done"
    BY <1>5, <2>1 DEF Ends, Unanswered
  <2>3. CASE x.input.transport = "http"
    <3>1. x.answer = Promised("http", x.cause)
      BY <2>1, <2>3 DEF Returned
    <3>2. y.answer = x.answer
      BY <1>2, <1>3, <1>5, <2>2, <2>3, <3>1 DEF Ends
    <3> QED
      BY <2>1, <2>3, <3>1, <3>2 DEF Returned
  <2>4. CASE x.input.transport # "http"
    <3>1. x.cause # Nil /\ y.answer = CodeOf(x.err)
      BY <1>5, <2>1, <2>2, <2>4 DEF Ends, Returned
    <3>2. CodeOf(ErrorToGRPCError(x.cause)) = Promised(x.input.transport, x.cause)
      BY <1>2, <2>4, <3>1, PromisedIs
    <3>3. ASSUME NEW i \in DOMAIN Chain(x), \A j \in DOMAIN Chain(x) : Chain(x)[j] = "error" <=> j = i
          PROVE  y.answer = Promised(x.input.transport, x.cause)
      <4>1. x.err = IF x.at < i THEN ErrorToGRPCError(x.cause) ELSE x.cause
        BY <2>1, <2>2, <2>4, <3>3 DEF Returned
      <4>2. x.at < i
        BY <1>2, <2>1
      <4> QED
        BY <3>1, <3>2, <4>1, <4>2
    <3> QED
      BY <2>1, <2>2, <2>4, <3>1, <3>3 DEF Returned
  <2> QED
    BY <2>3, <2>4
<1>6. CASE Along(x, y) \/ Turned(x, y)
  <2>1. /\ Back(x, y) /\ y.input = x.input /\ y.cause = x.cause /\ x.end = "failed" /\ ~x.failed
        /\ Chain(y) = Chain(x) /\ x.at \in DOMAIN Chain(x) /\ x.mode \in {"out", "panic"}
    BY <1>1, <1>6 DEF Along, Turned, Ended, Back, Chain
  <2>2. x.mode = "out"
    BY <2>1 DEF Unanswered
  <2>3. y.mode = "out" /\ y.answer = x.answer
    BY <1>6, <2>2 DEF Along, Turned, Converted, Rescued, Silent
  <2>4. CASE x.input.transport = "http"
    BY <2>1, <2>3, <2>4 DEF Returned
  <2>5. CASE x.input.transport # "http"
    <3>1. ASSUME NEW i \in DOMAIN Chain(x), \A j \in DOMAIN Chain(x) : Chain(x)[j] = "error" <=> j = i
          PROVE  y.err = IF y.at < i THEN ErrorToGRPCError(x.cause) ELSE x.cause
      <4>1. x.err = IF x.at < i THEN ErrorToGRPCError(x.cause) ELSE x.cause
        BY <2>1, <2>2, <2>5, <3>1 DEF Returned
      <4>2. Here(x) = "error" <=> x.at = i
        BY <1>2, <2>1, <3>1
      <4>3. CASE Along(x, y)
        <5>1. x.at # i /\ y.err = x.err
          BY <2>2, <2>5, <4>2, <4>3 DEF Along
        <5> QED
          BY <2>1, <4>1, <5>1, BackIs
      <4>4. CASE Turned(x, y)
        <5>1. x.at = i /\ y.err = ErrorToGRPCError(x.err)
          BY <2>2, <4>2, <4>4 DEF Turned, Converted, Rescued
        <5>2. ~(x.at < i) /\ y.at < i
          BY <1>2, <2>1, <5>1 DEF Back
        <5> QED
          BY <4>1, <5>1, <5>2
      <4> QED
        BY <1>6, <4>3, <4>4
    <3>2. x.cause # Nil
      BY <2>1, <2>5 DEF Returned
    <3> QED
      BY <2>1, <2>3, <2>5, <3>1, <3>2 DEF Returned
  <2> QED
    BY <2>4, <2>5
<1>7. CASE NotFound(x, y) \/ Breaks(x, y)
  BY <1>1, <1>7 DEF NotFound, Breaks
<1> QED
  BY <1>1, <1>4, <1>5, <1>6, <1>7, ErrorMoves

LEMMA PanickedKept ==
  ASSUME NEW x \in Records, NEW y \in Records, Place(x), Fresh(x), Move(x, y),
         x.at <= Len(Chain(x)) + 1, Panicked(x)
  PROVE  Panicked(y)
<1> DEFINE t == x.input.transport
           Innermost(i) ==
             /\ Chain(x)[i] = (IF t = "http" THEN "error" ELSE "recovery")
             /\ \A j \in DOMAIN Chain(x) : Chain(x)[j] \in {"recovery", "error"} => j <= i
           Rescue(z, i) ==
             /\ z.mode = "panic" => z.at >= i
             /\ z.mode \in {"out", "done"} /\ t = "http" => z.answer = Promised("http", Thrown1(z.cause))
             /\ z.mode = "out" /\ t # "http" => z.err = Status(Internal)
             /\ z.mode = "done" /\ t # "http" => z.answer = Internal
           Raising(z) ==
             /\ t # "http" => z.cause = Value
             /\ z.mode = "panic" => z.err = z.cause /\ (t = "http" => z.answer = None)
<1>1. ASSUME y.input = x.input, y.end = "panicked" /\ ~y.failed => Raising(y),
             \A i \in DOMAIN Chain(x) :
               y.end = "panicked" /\ ~y.failed /\ Innermost(i) => Rescue(y, i)
      PROVE  Panicked(y)
  BY <1>1 DEF Panicked, Chain
<1>2. ASSUME x.end = "panicked", ~x.failed
      PROVE  /\ Raising(x)
             /\ \A i \in DOMAIN Chain(x) : Innermost(i) => Rescue(x, i)
  BY <1>2 DEF Panicked
<1>3. /\ x.at \in Nat /\ DOMAIN Chain(x) = 1 .. Len(Chain(x)) /\ Len(Chain(x)) \in Nat
      /\ Here(x) # "handler" => x.at \in DOMAIN Chain(x) /\ Here(x) = Chain(x)[x.at]
      /\ Here(x) = "handler" => x.at \notin DOMAIN Chain(x)
      /\ x.cause \in Errors /\ y.cause \in Errors /\ t \in Transports
  BY HereIs, FieldTypes
<1>4. None \notin Nat /\ Promised("http", Thrown1(x.cause)) \in Nat
  <2>1. Thrown1(x.cause) \in Errors
    BY <1>3, ErrorTypes DEF Thrown1
  <2> QED
    BY <2>1, PromisedIs DEF None
<1> HIDE DEF Innermost, Rescue, Raising
<1>5. CASE (y.mode \in {"in", "init"} /\ y.end = "none") \/ NotFound(x, y) \/ Breaks(x, y)
  BY <1>5 DEF NotFound, Breaks, Panicked
<1>6. CASE Turns(x, y)
  <2>1. /\ x.mode = "in" /\ Here(x) = "handler" /\ Back(x, y) /\ y.input = x.input
    BY <1>6 DEF Turns, Back
  <2>2. \A i \in DOMAIN Chain(x) : y.at >= i
    BY <1>3, <2>1 DEF Back
  <2>3. ASSUME y.end = "panicked"
        PROVE  /\ y.mode = "panic" /\ y.err = y.cause
               /\ t = "http" => y.answer = None
               /\ t # "http" => y.cause = Value
    <3>1. CASE t = "http"
      <4>1. HttpTurns(x, y)
        BY <1>6, <3>1 DEF Turns, GrpcTurns
      <4> QED
        BY <2>3, <3>1, <4>1 DEF HttpTurns, Silent
    <3>2. CASE t # "http"
      <4>1. GrpcTurns(x, y)
        BY <1>6, <3>2 DEF Turns, HttpTurns
      <4> QED
        BY <2>3, <3>2, <4>1 DEF GrpcTurns
    <3> QED
      BY <3>1, <3>2
  <2> QED
    BY <1>1, <2>1, <2>2, <2>3 DEF Raising, Rescue
<1>7. CASE Ends(x, y)
  <2>1. /\ x.at = 0 /\ y.input = x.input /\ y.cause = x.cause
        /\ y.end = x.end /\ y.failed = x.failed
        /\ \/ /\ x.mode = "out" /\ y.mode = "done"
              /\ y.answer = IF t # "http" THEN CodeOf(x.err)
                            ELSE IF x.answer = None THEN 200 ELSE x.answer
           \/ x.mode = "panic" /\ y.mode = "escaped"
    BY <1>7 DEF Ends, Kept, Ended
  <2>2. CodeOf(Status(Internal)) = Internal
    BY <1>3, PromisedIs
  <2>3. ASSUME NEW i \in DOMAIN Chain(x), Innermost(i), x.end = "panicked", ~x.failed
        PROVE  Rescue(y, i)
    <3>1. Rescue(x, i)
      BY <1>2, <2>3
    <3>2. CASE x.mode = "out" /\ t = "http"
      BY <1>4, <2>1, <3>1, <3>2 DEF Rescue
    <3>3. CASE x.mode = "out" /\ t # "http"
      BY <2>1, <2>2, <3>1, <3>3 DEF Rescue
    <3>4. CASE x.mode = "panic"
      BY <2>1, <3>4 DEF Rescue
    <3> QED
      BY <2>1, <3>2, <3>3, <3>4
  <2>4. y.end = "panicked" /\ ~y.failed => Raising(y)
    BY <1>2, <2>1 DEF Raising
  <2> QED
    BY <1>1, <2>1, <2>3, <2>4
<1>8. CASE Along(x, y)
  <2>1. /\ Back(x, y) /\ y.input = x.input /\ y.cause = x.cause /\ y.mode = x.mode
        /\ y.end = x.end /\ y.failed = x.failed /\ y.err = x.err /\ y.answer = x.answer
        /\ x.at \in DOMAIN Chain(x) /\ x.mode \in {"out", "panic"}
        /\ Here(x) = "recovery" => x.mode = "out"
        /\ Here(x) = "error" => x.mode = IF t = "http" THEN "out" ELSE "panic"
    BY <1>8 DEF Along, Ended, Back, Silent
  <2>2. ASSUME NEW i \in DOMAIN Chain(x), Innermost(i), x.end = "panicked", ~x.failed
        PROVE  Rescue(y, i)
    <3>1. Rescue(x, i)
      BY <1>2, <2>2
    <3>2. CASE x.mode = "out"
      BY <2>1, <3>1, <3>2 DEF Rescue
    <3>3. CASE x.mode = "panic"
      <4>1. Chain(x)[i] = IF t = "http" THEN "error" ELSE "recovery"
        BY <2>2 DEF Innermost
      <4>2. x.at # i
        BY <1>3, <2>1, <3>3, <4>1
      <4>3. y.at >= i
        BY <2>1, <3>1, <3>3, <4>2, BackIs DEF Rescue
      <4> QED
        BY <2>1, <3>3, <4>3 DEF Rescue
    <3> QED
      BY <2>1, <3>2, <3>3
  <2>3. y.end = "panicked" /\ ~y.failed => Raising(y)
    BY <1>2, <2>1 DEF Raising
  <2> QED
    BY <1>1, <2>1, <2>2, <2>3
<1>9. CASE Turned(x, y)
  <2>1. /\ Back(x, y) /\ y.input = x.input /\ y.cause = x.cause /\ y.mode = "out"
        /\ y.end = x.end /\ y.failed = x.failed
        /\ x.at \in DOMAIN Chain(x)
        /\ Converted(x, y) \/ Rescued(x, y)
    BY <1>9 DEF Turned, Ended, Back, Converted, Rescued
  <2>2. ASSUME NEW i \in DOMAIN Chain(x), Innermost(i), x.end = "panicked", ~x.failed
        PROVE  Rescue(y, i)
    <3>1. Rescue(x, i) /\ Raising(x)
      BY <1>2, <2>2
    <3>2. CASE Converted(x, y)
      <4>1. x.err = Status(Internal) /\ y.err = ErrorToGRPCError(x.err) /\ t # "http"
        BY <3>1, <3>2 DEF Converted, Rescue
      <4>2. ErrorToGRPCError(Status(Internal)) = Status(Internal)
        BY <1>3, PromisedIs
      <4> QED
        BY <2>1, <4>1, <4>2 DEF Rescue
    <3>3. CASE Rescued(x, y)
      <4>1. x.mode = "panic" /\ Here(x) \in {"recovery", "error"}
        BY <3>3 DEF Rescued
      <4>2. x.at <= i /\ x.at >= i /\ i \in Nat
        BY <1>3, <2>1, <2>2, <3>1, <4>1 DEF Innermost, Rescue
      <4>3. Here(x) = IF t = "http" THEN "error" ELSE "recovery"
        BY <1>3, <2>2, <4>1, <4>2 DEF Innermost
      <4>4. CASE t = "http"
        <5>1. x.answer = None /\ x.err = x.cause /\ Wrote(x, y, Recovered(x.err))
          BY <3>1, <3>3, <4>1, <4>3, <4>4 DEF Rescued, Raising
        <5>2. y.answer = Promised("http", Thrown1(y.cause))
          BY <1>3, <2>1, <5>1, PromisedIs DEF Wrote
        <5> QED
          BY <2>1, <4>4, <5>2 DEF Rescue
      <4>5. CASE t # "http"
        <5>1. y.err = Status(Internal)
          BY <3>3, <4>3, <4>5 DEF Rescued
        <5> QED
          BY <2>1, <4>5, <5>1 DEF Rescue
      <4> QED
        BY <4>4, <4>5
    <3> QED
      BY <2>1, <3>2, <3>3
  <2>3. y.end = "panicked" /\ ~y.failed => Raising(y)
    BY <1>2, <2>1 DEF Raising
  <2> QED
    BY <1>1, <2>1, <2>2, <2>3
<1> QED
  BY <1>5, <1>6, <1>7, <1>8, <1>9, ErrorMoves

LEMMA AnsweringHolds ==
  ASSUME IInv, FreshInv, AnsweringInv, Next
  PROVE  AnsweringInv'
<1>1. TypeOK /\ RequestsInv
  BY DEF IInv
<1>2. PICK r \in Requests : Moved(r)
  BY <1>1, Moves DEF IInv
<1>3. PICK x, y : x = q[r] /\ y = q'[r]
  OBVIOUS
<1>4. /\ x \in Records /\ y \in Records /\ x.at <= Len(Chain(x)) + 1
      /\ Place(x) /\ Fresh(x) /\ Move(x, y)
      /\ Unanswered(x) /\ Returned(x) /\ Panicked(x)
  BY <1>1, <1>2, <1>3 DEF TypeOK, RequestsInv, FreshInv, AnsweringInv, Moved
<1>5. Unanswered(y) /\ Returned(y) /\ Panicked(y)
  BY <1>4, UnansweredKept, ReturnedKept, PanickedKept
<1>6. \A s \in Requests : s # r => q'[s] = q[s]
  BY <1>1, <1>2 DEF TypeOK, Moved
<1>7. \A s \in Requests : Unanswered(q'[s]) /\ Returned(q'[s]) /\ Panicked(q'[s])
  BY <1>3, <1>5, <1>6 DEF AnsweringInv
<1> QED
  BY <1>7 DEF AnsweringInv

(* An error is answered with the status of its kind, whichever way it took *)
(* out: returned through the layers, converted by one of them, or thrown   *)
(* and recovered by the innermost that does.  With a recovery outermost no *)
(* panic leaves the chain, not even one of the metrics layer.              *)
THEOREM ErrorsKeepTheirKind == Spec => []ErrorsAnswered
<1>1. ASSUME IInv, AnsweringInv
      PROVE  ErrorsAnswered
  <2>1. SUFFICES ASSUME NEW r \in Requests, NEW x, x = q[r], NEW t, t = x.input.transport,
                        Over(x), Chains[t] # <<>>, Chains[t][1] = "recovery"
                 PROVE  /\ x.mode = "done"
                        /\ x.end = "failed" /\ ~x.failed /\ Converts(t)
                             => x.answer = Promised(t, x.cause)
                        /\ x.end = "panicked" /\ ~x.failed
                           /\ Catches(t, IF t = "http" THEN "error" ELSE "recovery")
                             => x.answer = IF x.cause.class = "value" THEN Promised(t, Value)
                                           ELSE Promised(t, Unwrap(x.cause))
    BY DEF ErrorsAnswered
  <2>2. /\ Unanswered(x) /\ Returned(x) /\ Panicked(x) /\ Chain(x) = Chains[t]
        /\ x.cause \in Errors /\ t \in Transports
    BY <1>1, <2>1, FieldTypes DEF AnsweringInv, IInv, TypeOK, Chain
  <2>3. x.mode = "done"
    BY <2>1, <2>2 DEF Over, Unanswered
  <2>4. ASSUME x.end = "failed", ~x.failed, Converts(t)
        PROVE  x.answer = Promised(t, x.cause)
    <3>1. CASE t = "http"
      BY <2>1, <2>2, <2>4, <3>1 DEF Returned
    <3>2. CASE t # "http"
      <4>1. PICK i \in DOMAIN Chain(x) : \A j \in DOMAIN Chain(x) : Chain(x)[j] = "error" <=> j = i
        BY <2>2, <2>4, <3>2 DEF Converts
      <4> QED
        BY <2>1, <2>2, <2>3, <2>4, <3>2, <4>1 DEF Returned
    <3> QED
      BY <3>1, <3>2
  <2>5. ASSUME x.end = "panicked", ~x.failed,
               Catches(t, IF t = "http" THEN "error" ELSE "recovery")
        PROVE  x.answer = IF x.cause.class = "value" THEN Promised(t, Value)
                          ELSE Promised(t, Unwrap(x.cause))
    <3>1. PICK i \in DOMAIN Chain(x) :
            /\ Chain(x)[i] = IF t = "http" THEN "error" ELSE "recovery"
            /\ \A j \in DOMAIN Chain(x) : Chain(x)[j] \in {"recovery", "error"} => j <= i
      BY <2>2, <2>5 DEF Catches
    <3>2. CASE t = "http"
      <4>1. x.answer = Promised(t, Thrown1(x.cause))
        BY <2>1, <2>2, <2>3, <2>5, <3>1, <3>2 DEF Panicked
      <4> QED
        BY <4>1 DEF Thrown1
    <3>3. CASE t # "http"
      <4>1. x.answer = Internal /\ x.cause = Value
        BY <2>1, <2>2, <2>3, <2>5, <3>1, <3>3 DEF Panicked
      <4>2. Promised(t, Value) = Internal /\ Value.class = "value"
        BY <2>2, <3>3, PromisedIs DEF Value, Error
      <4> QED
        BY <4>1, <4>2
    <3> QED
      BY <3>2, <3>3
  <2> QED
    BY <2>3, <2>4, <2>5
<1>2. Init => FreshInv /\ AnsweringInv
  <2>1. SUFFICES ASSUME Init
                 PROVE  FreshInv /\ AnsweringInv
    OBVIOUS
  <2>2. \A r \in Requests : q[r] = Idle
    BY <2>1 DEF Init
  <2>3. Idle.mode = "idle" /\ Idle.end = "none"
    BY DEF Idle
  <2> QED
    BY <2>1, <2>2, <2>3, AgreeingInit DEF AnsweringInv, Unanswered, Returned, Panicked
<1>3. ASSUME IInv, FreshInv /\ AnsweringInv, [Next]_vars
      PROVE  (FreshInv /\ AnsweringInv)'
  <2>1. CASE Next
    <3>1. FreshInv'
      BY <1>3, <2>1, FreshHolds
    <3> QED
      BY <1>3, <2>1, <3>1, AnsweringHolds
  <2>2. CASE UNCHANGED vars
    <3>1. \A r \in Requests : q'[r] = q[r]
      BY <2>2 DEF vars
    <3>2. \A r \in Requests : Fresh(q'[r]) /\ Unanswered(q'[r]) /\ Returned(q'[r]) /\ Panicked(q'[r])
      BY <1>3, <3>1 DEF FreshInv, AnsweringInv
    <3> QED
      BY <3>2 DEF FreshInv, AnsweringInv
  <2> QED
    BY <1>3, <2>1, <2>2
<1> QED
  BY <1>1, <1>2, <1>3, Invariance, PTL DEF Spec
=============================================================================

------------------------------ MODULE Service -------------------------------
(***************************************************************************)
(* A process that serves HTTP and gRPC at the same time: its requests go   *)
(* through the chains of HttpChain and GrpcChain.                          *)
(***************************************************************************)
EXTENDS HttpChain, GrpcChain

Handle(r) == HttpHandler(r) \/ GrpcHandler(r)

Advance(r) ==
  PassIn(r) \/ PassOut(r) \/ PassPanic(r) \/ HttpStep(r) \/ GrpcStep(r)

Next == \E r \in Requests : Arrive(r) \/ Handle(r) \/ Advance(r)

Spec == Init /\ [][Next]_vars

(* As long as a goroutine can run one does, and handlers end.              *)
FairSpec == Spec /\ WF_vars(\E r \in Requests : Handle(r) \/ Advance(r))

----------------------------------------------------------------------------
(* What the middlewares guarantee.                                         *)

Samples == [series : {"request", "healthcheck"}, route : {"route", "unknown"},
            status : Nat, exemplar : BOOLEAN]

Records ==
  [mode : {"idle", "in", "init", "out", "panic", "done", "escaped"}, at : Nat,
   input : Inputs, answer : Nat \union {None}, err : Errors,
   end : {"none", "returned", "failed", "panicked", "late"}, cause : Errors,
   defers : SUBSET {"record", "inflight"}, status : Nat, clones : Nat, held : Nat,
   pattern : Nat \union {None}, counted : Seq(Samples), failed : BOOLEAN]

(* Every variable has its type; a request is in its chain or next to it.   *)
TypeOK ==
  /\ q \in [Requests -> Records]
  /\ \A r \in Requests : q[r].at <= Len(Chain(q[r])) + 1
  /\ once \in [Transports -> {"new", "running", "done"}]
  /\ made \in [Transports -> 0 .. Health]
  /\ inflight \in [Transports -> Nat]

(* A request is in flight behind the metrics layer, and in it until its    *)
(* deferred functions have run; health checks and reduced requests are not *)
(* counted.                                                                *)
IsMetrics(x) == Here(x) = "metrics"
Behind(x) ==
  \/ \E i \in DOMAIN Chain(x) : i < x.at /\ Chain(x)[i] = "metrics"
  \/ IsMetrics(x) /\ x.mode \in {"out", "panic"}

InFlight(t) ==
  {r \in Requests : /\ q[r].input.transport = t /\ Behind(q[r])
                    /\ q[r].input.path = "api" /\ ~(t = "http" /\ q[r].input.reduced)}

(* The counter of active requests is how many there are, however they end: *)
(* a panic, also one of the metrics layer itself, leaves none behind.      *)
InflightExact ==
  \A t \in Transports :
    inflight[t] = IF made[t] >= Active THEN Cardinality(InFlight(t)) ELSE 0

(* The mux is behind the metrics layer, and no logger clones in between.   *)
Metered(t) ==
  \E i \in DOMAIN Chains[t] :
    /\ Chains[t][i] = "metrics"
    /\ \A j \in DOMAIN Chains[t] : Chains[t][j] = "mux" => j > i
    /\ \A j \in DOMAIN Chains[t] : Chains[t][j] = "logger" /\ t = "http" => j < i

Over(x) == x.mode \in {"done", "escaped"}

(* Every request is counted once, in its series and with its route, also if*)
(* it panics: unless the instruments are not there or the metrics layer    *)
(* panicked itself.  Requests that opted out are not counted.              *)
CountedOnce ==
  \A r \in Requests :
    LET x == q[r]  t == x.input.transport IN
    Over(x) /\ Metered(t) /\ ~x.failed /\ made[t] = (IF t = "http" THEN Health ELSE Active) =>
      IF t = "http" /\ x.input.path = "api" /\ x.input.reduced THEN x.counted = <<>>
      ELSE /\ Len(x.counted) = 1
           /\ x.counted[1].series = IF x.input.path = "health" THEN "healthcheck" ELSE "request"
           /\ x.counted[1].route = IF x.input.matched THEN "route" ELSE "unknown"

(* A recovery inside the metrics layer, and no interceptor outside it that *)
(* changes the code.                                                       *)
Guarded(t) ==
  \E i, j \in DOMAIN Chains[t] :
    /\ i < j /\ Chains[t][i] = "metrics" /\ Chains[t][j] = "recovery"
    /\ t # "http" => \A k \in DOMAIN Chains[t] : Chains[t][k] = "error" => k > i

(* The status or code counted is the one the client got, and the sample of *)
(* a failed request has its trace, if a recovery is inside the metrics     *)
(* layer and the handler does not panic after it has written.  A record    *)
(* that panics itself is not one of these: what it has counted by then does*)
(* not know that the recovery outside answers 500.                         *)
AnswersAgree ==
  \A r \in Requests :
    LET x == q[r]  t == x.input.transport IN
    Over(x) /\ Guarded(t) /\ x.end # "late" /\ ~x.failed /\ x.counted # <<>> =>
      /\ x.counted[1].status = x.answer
      /\ x.answer >= 500 \/ (t # "http" /\ x.answer = Internal) => x.counted[1].exemplar

(* The status an error stands for, in HTTP and in gRPC.                    *)
Promised(t, e) ==
  IF e.wraps = 0 /\ e.class \in Domain
    THEN IF t = "http" THEN HttpStatus[e.class] ELSE GrpcCode[e.class]
    ELSE IF t = "http" THEN 500 ELSE Internal

(* The innermost layer that recovers.                                      *)
Catches(t, layer) ==
  \E i \in DOMAIN Chains[t] :
    /\ Chains[t][i] = layer
    /\ \A j \in DOMAIN Chains[t] :
         Chains[t][j] \in {"recovery", "error"} => j <= i

(* A controller answers itself; calls need an interceptor for it, and one: *)
(* a second would not know the status the first has made.                  *)
Converts(t) ==
  t = "http" \/ \E i \in DOMAIN Chains[t] :
                  \A j \in DOMAIN Chains[t] : Chains[t][j] = "error" <=> j = i

(* An error, returned or thrown, is answered with the status of its kind,  *)
(* and what is no such error with 500; a thrown error is unwrapped once;   *)
(* unless the metrics layer panics itself.  With a recovery outermost no   *)
(* panic leaves the chain.                                                 *)
ErrorsAnswered ==
  \A r \in Requests :
    LET x == q[r]  t == x.input.transport IN
    Over(x) /\ Chains[t] # <<>> /\ Chains[t][1] = "recovery" =>
      /\ x.mode = "done"
      /\ x.end = "failed" /\ ~x.failed /\ Converts(t) => x.answer = Promised(t, x.cause)
      /\ x.end = "panicked" /\ ~x.failed
         /\ Catches(t, IF t = "http" THEN "error" ELSE "recovery") =>
           x.answer = IF x.cause.class = "value" THEN Promised(t, Value)
                      ELSE Promised(t, Unwrap(x.cause))

(* Every request that has arrived comes to its end, although it may have to*)
(* wait for the init of another one, which may panic.                      *)
Finishes == []<>(\A r \in Requests : q[r].mode = "idle" \/ Over(q[r]))
=============================================================================

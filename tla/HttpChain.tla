----------------------------- MODULE HttpChain ------------------------------
(***************************************************************************)
(* The HTTP side (src/httpx): the router, the middlewares it chains and    *)
(* the adaptor of a controller.                                            *)
(*                                                                         *)
(* The first WriteHeader that reaches net/http is the client's answer, the *)
(* later ones are superfluous.  The layers inside the metrics middleware   *)
(* write through its statusRecorder, which notes every one of them.  A     *)
(* request that is cloned, by WithContext, is a request of its own for     *)
(* whoever holds the clone: the mux sets the Pattern of the last one.      *)
(***************************************************************************)
EXTENDS Middleware

(* A router and its children share the mux; a child has the middlewares of *)
(* its parent and then its own, and chain puts the first one outermost.    *)
(* RouteLayers is what a request of one of its routes goes through: those  *)
(* of the root, whose Handler is the only one that serves, the mux, and    *)
(* those the route was registered with.                                    *)
NewRouter(mws) == [global |-> mws, route |-> <<>>]
Child(rt, mws) == [rt EXCEPT !.route = @ \o mws]
RouteLayers(rt) == rt.global \o <<"mux">> \o rt.route

(* errorToHTTP.                                                            *)
HttpStatus == [validation |-> 400, conflict |-> 409, notFound |-> 404,
               unauthorized |-> 401, forbidden |-> 403, unavailable |-> 503]
ErrorToHTTP(e) == IF \E c \in Domain : Is(e, c) THEN HttpStatus[e.class] ELSE 500

Reduced(x) == x.input.path = "api" /\ x.input.reduced
Healthcheck(x) == x.input.path = "health"

(* A body or an end without a WriteHeader sends the header with 200, which *)
(* is what a statusRecorder starts with.                                   *)
SendHeader(x) == [x EXCEPT !.answer = IF @ = None THEN 200 ELSE @]
Recorded(x) == x.defers # {}
BugWriteHeader(x, s) ==
  [x EXCEPT !.answer = IF @ = None THEN s ELSE @]
WriteHeader(x, s) ==
  [x EXCEPT !.answer = IF @ = None THEN s ELSE @,
            !.status = IF Recorded(x) THEN s ELSE @]

IsHttp(r) == q[r].input.transport = "http"

----------------------------------------------------------------------------
(* What runs behind the last layer.  A handler may write its header or a   *)
(* part of its body, and then return or panic; a controller returns a      *)
(* response or an error, and the adaptor writes for it.  Marshalling the   *)
(* body may panic after the header is written.                             *)

HandlerWrites(r) ==
  /\ IsHttp(r) /\ q[r].answer = None
  /\ \E s \in Written : Step(r, {"in"}, {"handler"}, WriteHeader(q[r], s))
  /\ MeterUnchanged

HandlerReturns(r) ==
  /\ IsHttp(r)
  /\ Step(r, {"in"}, {"handler"}, Return([q[r] EXCEPT !.end = "returned"]))
  /\ MeterUnchanged

Panics(x, e) ==
  Throw([x EXCEPT !.end = IF x.answer = None THEN "panicked" ELSE "late", !.cause = e], e)

HandlerPanics(r) ==
  /\ IsHttp(r)
  /\ \E e \in {Value} \union {Error(class, wraps) : class \in Raised, wraps \in 0 .. Wraps} :
       Step(r, {"in"}, {"handler"}, Panics(q[r], e))
  /\ MeterUnchanged

ControllerFails(r) ==
  /\ IsHttp(r) /\ q[r].answer = None
  /\ \E class \in Raised, wraps \in 0 .. Wraps :
       LET e == Error(class, wraps) IN
       Step(r, {"in"}, {"handler"},
            Return(WriteHeader([q[r] EXCEPT !.end = "failed", !.cause = e], ErrorToHTTP(e))))
  /\ MeterUnchanged

----------------------------------------------------------------------------
(* The middlewares.                                                        *)

(* Injects a logger: the request is cloned.                                *)
HttpLogger(r) ==
  /\ IsHttp(r)
  /\ Step(r, {"in"}, {"logger"}, Enter([q[r] EXCEPT !.clones = @ + 1]))
  /\ MeterUnchanged

(* http.ServeMux: the Pattern is set before the handler runs; a request    *)
(* that matches none is answered with 404.                                 *)
Mux(r) ==
  /\ Step(r, {"in"}, {"mux"},
          IF q[r].input.matched THEN Enter([q[r] EXCEPT !.pattern = q[r].clones])
          ELSE Return(WriteHeader([q[r] EXCEPT !.end = "returned"], 404)))
  /\ MeterUnchanged

RecoveryMiddleware(r) ==
  /\ IsHttp(r)
  /\ Step(r, {"panic"}, {"recovery"}, Return(WriteHeader(q[r], 500)))
  /\ MeterUnchanged

BugRecovered(e) == ErrorToHTTP(e)
Recovered(e) == IF e.class = "value" THEN 500 ELSE ErrorToHTTP(Unwrap(e))

ErrorMiddleware(r) ==
  /\ IsHttp(r)
  /\ \/ Step(r, {"out"}, {"error"}, Return(q[r]))
     \/ Step(r, {"panic"}, {"error"}, Return(WriteHeader(q[r], Recovered(q[r].err))))
  /\ MeterUnchanged

(* MetricsMiddleware.                                                      *)
HttpFirst(r) == (Healthcheck(q[r]) \/ ~Reduced(q[r])) /\ OnceFirst(r, "http")

HttpInit(r) == InitEnds(r, "http", Health)

Skips(r) ==
  /\ IsHttp(r) /\ ~Healthcheck(q[r]) /\ Reduced(q[r])
  /\ Step(r, {"in"}, {"metrics"}, Enter(q[r]))
  /\ MeterUnchanged

SkipsOut(r) ==
  /\ IsHttp(r) /\ q[r].defers = {}
  /\ \/ Step(r, {"out"}, {"metrics"}, Return(q[r]))
     \/ Step(r, {"panic"}, {"metrics"}, Throw(q[r], q[r].err))
  /\ MeterUnchanged

HttpOpens(r) ==
  /\ IsHttp(r) /\ OnceOver("http") /\ (Healthcheck(q[r]) \/ ~Reduced(q[r]))
  /\ Opens(r, "http", [q[r] EXCEPT !.held = q[r].clones], ~Healthcheck(q[r]))

RoutePattern(x) == IF x.pattern = x.held THEN "route" ELSE "unknown"

(* A sample keeps the request's span only if the request failed or is slow;*)
(* that of a health check keeps what the context has.                      *)
AttachHTTPExemplar(status, slow) == status >= 500 \/ slow

HttpCloses(r) ==
  /\ IsHttp(r) /\ Recorded(q[r])
  /\ \E slow \in BOOLEAN : LET x == q[r] IN
       Closes(r, "http", IF Healthcheck(x) THEN Health ELSE Requested,
              [series |-> IF Healthcheck(x) THEN "healthcheck" ELSE "request",
               route |-> RoutePattern(x), status |-> x.status,
               exemplar |-> Healthcheck(x) \/ AttachHTTPExemplar(x.status, slow)])

----------------------------------------------------------------------------
(* net/http: who wrote nothing answers 200, and a panic ends in it.        *)
HttpDone(r) ==
  /\ IsHttp(r) /\ q[r].at = 0
  /\ \/ q[r].mode = "out" /\ q' = [q EXCEPT ![r] = [SendHeader(@) EXCEPT !.mode = "done"]]
     \/ q[r].mode = "panic" /\ q' = [q EXCEPT ![r].mode = "escaped"]
  /\ MeterUnchanged

HttpHandler(r) ==
  HandlerWrites(r) \/ HandlerReturns(r) \/ HandlerPanics(r) \/ ControllerFails(r)

HttpStep(r) ==
  \/ HttpLogger(r) \/ Mux(r) \/ RecoveryMiddleware(r) \/ ErrorMiddleware(r)
  \/ HttpFirst(r) \/ HttpInit(r) \/ Skips(r) \/ SkipsOut(r) \/ HttpOpens(r) \/ HttpCloses(r) \/ HttpDone(r)
=============================================================================

----------------------------- MODULE Middleware -----------------------------
(***************************************************************************)
(* Requests on their way through a chain of middlewares: what the HTTP     *)
(* middlewares and the gRPC interceptors have in common.  A request goes   *)
(* in through the layers of its chain, outermost first, is handled behind  *)
(* the last one, and comes out again, returning or panicking: a deferred   *)
(* function runs either way, and one that recovers turns the panic into a  *)
(* return.                                                                 *)
(*                                                                         *)
(* The requests of one transport share the instruments of its metrics      *)
(* layer, which the first of them makes under a sync.Once.                 *)
(***************************************************************************)
EXTENDS Integers, Sequences, FiniteSets, DomainErrors

CONSTANTS Requests,     \* requests, calls and streams
          Chains,       \* the layers of every transport, outermost first
          Arrivals,     \* what a request may be: its transport and its input
          Raised,       \* bound: the classes of the errors handlers raise
          Written,      \* bound: the statuses handlers write
          Partial       \* bound: how many instruments an init that panics makes

Transports == {"http", "unary", "stream"}
Layers == {"recovery", "error", "metrics", "logger", "trace", "mux"}

Inputs == [transport : Transports, path : {"api", "health"}, reduced : BOOLEAN,
           matched : BOOLEAN]

(* The order in which init makes the instruments.                          *)
Requested == 1          \* the counter of requests is made first,
Active == 2             \* then the one of the requests in flight
Health == 3             \* and those of the health checks

ASSUME ChainsAssumption ==
  /\ IsFiniteSet(Requests)
  /\ Chains \in [Transports -> Seq(Layers)]
  /\ Chains["unary"] \in Seq({"recovery", "error", "metrics", "logger"})
  /\ Chains["stream"] \in Seq({"metrics"})
  /\ \E j \in DOMAIN Chains["http"] : Chains["http"][j] = "mux"
  /\ Arrivals \subseteq Inputs
  /\ \A a \in Arrivals : a.transport # "http" => a.path = "api" /\ a.matched
  /\ Raised \subseteq Domain \union {"internal"} /\ Written \subseteq Nat
  /\ Partial \subseteq {0, Requested, Active}
  /\ \A t \in Transports : \A i, j \in DOMAIN Chains[t] :
       Chains[t][i] = "metrics" /\ Chains[t][j] = "metrics" => i = j

VARIABLES q,            \* the requests
          once,         \* m.once of each transport: "new", "done" or who is in it
          made,         \* how many instruments init has made
          inflight      \* the counter active_requests

vars == <<q, once, made, inflight>>

None == -1              \* no answer yet

Idle == [mode |-> "idle", at |-> 0,
         input |-> [transport |-> "http", path |-> "api", reduced |-> FALSE, matched |-> TRUE],
         answer |-> None,     \* the status or code the client got
         err |-> Nil,         \* the error returned, or what the panic threw
         end |-> "none",      \* history: how the handler ended
         cause |-> Nil,       \* history: with which error
         defers |-> {},       \* what the metrics layer has deferred
         status |-> 200,      \* statusRecorder.status
         clones |-> 0,        \* how often the *http.Request was cloned
         held |-> 0,          \* the clone the metrics layer holds
         pattern |-> None,    \* the clone that has a Pattern
         counted |-> <<>>,    \* what was added to the counters
         failed |-> FALSE]    \* history: the metrics layer panicked itself

Init ==
  /\ q = [r \in Requests |-> Idle]
  /\ once = [t \in Transports |-> "new"]
  /\ made = [t \in Transports |-> 0]
  /\ inflight = [t \in Transports |-> 0]

Chain(x) == Chains[x.input.transport]
Here(x) == IF x.at \in DOMAIN Chain(x) THEN Chain(x)[x.at] ELSE "handler"

Enter(x) == [x EXCEPT !.at = @ + 1]
Return(x) == [x EXCEPT !.mode = "out", !.at = @ - 1]
Throw(x, e) == [x EXCEPT !.mode = "panic", !.at = @ - 1, !.err = e]

(* The step of a request that is in this mode at this layer.               *)
Step(r, modes, layers, y) ==
  /\ q[r].mode \in modes /\ Here(q[r]) \in layers
  /\ q' = [q EXCEPT ![r] = y]

MeterUnchanged == UNCHANGED <<once, made, inflight>>

----------------------------------------------------------------------------
Arrive(r) ==
  /\ q[r].mode = "idle"
  /\ \E a \in Arrivals : q' = [q EXCEPT ![r].mode = "in", ![r].at = 1, ![r].input = a]
  /\ MeterUnchanged

(* Code before the call of next changes nothing the properties see, or     *)
(* there is none: a recovery is only a defer.                              *)
PassIn(r) ==
  /\ Step(r, {"in"}, {"recovery", "error", "trace"}, Enter(q[r]))
  /\ MeterUnchanged

PassOut(r) ==
  /\ Step(r, {"out"}, {"recovery", "logger", "trace", "mux"}, Return(q[r]))
  /\ MeterUnchanged

(* A layer that does not recover lets a panic pass.                        *)
PassPanic(r) ==
  /\ Step(r, {"panic"}, {"logger", "trace", "mux"}, Throw(q[r], q[r].err))
  /\ MeterUnchanged

----------------------------------------------------------------------------
(* sync.Once: the first request runs init, the others wait for its end,    *)
(* which is also a panic.                                                  *)

OnceFirst(r, t) ==
  /\ q[r].mode = "in" /\ Here(q[r]) = "metrics" /\ q[r].input.transport = t
  /\ once[t] = "new" /\ once' = [once EXCEPT ![t] = "running"]
  /\ q' = [q EXCEPT ![r].mode = "init"]
  /\ UNCHANGED <<made, inflight>>

BugOnceOver(t) == once[t] # "new"
OnceOver(t) == once[t] = "done"

BugInitEnds(r, t, all) ==
  /\ q[r].mode = "init" /\ q[r].input.transport = t
  /\ \E n \in Partial \union {all} :
       /\ made' = [made EXCEPT ![t] = n]
       /\ once' = IF n = all THEN [once EXCEPT ![t] = "done"] ELSE once
       /\ q' = [q EXCEPT ![r] = IF n = all THEN [@ EXCEPT !.mode = "in"]
                                ELSE [Throw(@, Value) EXCEPT !.failed = TRUE]]
  /\ UNCHANGED inflight

(* init makes its instruments one after the other and may panic in between;*)
(* those it did not get to are nil.                                        *)
InitEnds(r, t, all) ==
  /\ q[r].mode = "init" /\ q[r].input.transport = t
  /\ once' = [once EXCEPT ![t] = "done"]
  /\ \E n \in Partial \union {all} :
       /\ made' = [made EXCEPT ![t] = n]
       /\ q' = [q EXCEPT ![r] = IF n = all THEN [@ EXCEPT !.mode = "in"]
                                ELSE [Throw(@, Value) EXCEPT !.failed = TRUE]]
  /\ UNCHANGED inflight

(* The metrics layer is entered: what it does on the way out is deferred.  *)
Opens(r, t, y, gauge) ==
  LET up == gauge /\ made[t] >= Active IN
  /\ Step(r, {"in"}, {"metrics"},
          Enter([y EXCEPT !.defers = IF up THEN {"record", "inflight"} ELSE {"record"}]))
  /\ inflight' = IF up THEN [inflight EXCEPT ![t] = @ + 1] ELSE inflight
  /\ UNCHANGED <<once, made>>

(* The deferred functions run, the last deferred first: the one that       *)
(* records may panic, the one that counts down runs nevertheless.          *)
BugNotDeferred(x, fails) == "inflight" \in x.defers /\ ~fails
BugCountsDown(x, fails) == x.defers # {}
CountsDown(x, fails) == "inflight" \in x.defers

(* The counter comes before the histogram: a record that panics has counted*)
(* the request already, or has not come as far.                            *)
Closes(r, t, instrument, sample) ==
  /\ \E fails, counts \in BOOLEAN :
       LET x == [q[r] EXCEPT !.defers = {}, !.at = @ - 1,
                             !.counted = IF counts /\ made[t] >= instrument
                                           THEN Append(@, sample) ELSE @] IN
       /\ fails \/ counts
       /\ Step(r, {"out", "panic"}, {"metrics"},
               IF fails THEN [x EXCEPT !.mode = "panic", !.err = Value, !.failed = TRUE] ELSE x)
       /\ inflight' = IF CountsDown(q[r], fails) THEN [inflight EXCEPT ![t] = @ - 1] ELSE inflight
  /\ UNCHANGED <<once, made>>
=============================================================================

----------------------------- MODULE GrpcChain ------------------------------
(***************************************************************************)
(* The gRPC side (src/grpcx): the interceptors of unary calls, and the one *)
(* of streams, which counts them.                                          *)
(*                                                                         *)
(* An interceptor returns an error or nil.  One with a named result has    *)
(* nil in it while a panic goes through: MetricsInterceptor counts such a  *)
(* call as OK, so the recovery has to be inside it.                        *)
(***************************************************************************)
EXTENDS Middleware

IsGrpc(r) == q[r].input.transport \in {"unary", "stream"}
IsUnary(r) == q[r].input.transport = "unary"

OK == 0
Unknown == 2
Internal == 13

(* errorToGRPCError.                                                       *)
GrpcCode == [validation |-> 3, conflict |-> 6, notFound |-> 5,
             unauthorized |-> 16, forbidden |-> 7, unavailable |-> 14]
ErrorToGRPCError(e) ==
  IF e = Nil THEN Nil
  ELSE Status(IF \E c \in Domain : Is(e, c) THEN GrpcCode[e.class] ELSE Internal)

(* grpcCode, and what the server makes of the error it is returned.        *)
CodeOf(e) ==
  IF e = Nil THEN OK ELSE IF e.class = "status" THEN e.code ELSE Unknown

Returns(x, e) ==
  Return([x EXCEPT !.err = e, !.cause = e, !.end = IF e = Nil THEN "returned" ELSE "failed"])

(* A handler returns nil, an error of a kind or a status, or it panics.    *)
GrpcReturns(r) ==
  /\ IsGrpc(r)
  /\ \E e \in {Nil, Status(5)} \union
              {Error(class, wraps) : class \in Raised, wraps \in 0 .. Wraps} :
       Step(r, {"in"}, {"handler"}, Returns(q[r], e))
  /\ MeterUnchanged

GrpcPanics(r) ==
  /\ IsGrpc(r)
  /\ Step(r, {"in"}, {"handler"}, Throw([q[r] EXCEPT !.end = "panicked", !.cause = Value], Value))
  /\ MeterUnchanged

----------------------------------------------------------------------------
(* The interceptors.                                                       *)

GrpcLogger(r) ==
  /\ IsGrpc(r)
  /\ Step(r, {"in"}, {"logger"}, Enter(q[r]))
  /\ MeterUnchanged

ErrorInterceptor(r) ==
  /\ IsGrpc(r)
  /\ \/ Step(r, {"out"}, {"error"}, Return([q[r] EXCEPT !.err = ErrorToGRPCError(@)]))
     \/ Step(r, {"panic"}, {"error"}, Throw(q[r], q[r].err))
  /\ MeterUnchanged

RecoveryInterceptor(r) ==
  /\ IsUnary(r)
  /\ Step(r, {"panic"}, {"recovery"}, Return([q[r] EXCEPT !.err = Status(Internal)]))
  /\ MeterUnchanged

(* MetricsInterceptor and StreamMetricsInterceptor.                        *)
GrpcFirst(r) == OnceFirst(r, "unary") \/ OnceFirst(r, "stream")

GrpcInit(r) == IsGrpc(r) /\ InitEnds(r, q[r].input.transport, Active)

UnaryOpens(r) ==
  /\ IsUnary(r) /\ OnceOver("unary")
  /\ Opens(r, "unary", q[r], TRUE)

StreamOpens(r) ==
  /\ q[r].input.transport = "stream" /\ OnceOver("stream")
  /\ Opens(r, "stream", q[r], TRUE)

(* The named result is nil while a panic goes through.                     *)
Result(x) == IF x.mode = "panic" THEN Nil ELSE x.err

AttachGRPCExemplar(code, slow) == code \in {Unknown, 4, Internal, 14, 15} \/ slow

Sample(x, slow) ==
  [series |-> "request", route |-> "route", status |-> CodeOf(Result(x)),
   exemplar |-> AttachGRPCExemplar(CodeOf(Result(x)), slow)]

GrpcCloses(r) ==
  /\ IsGrpc(r) /\ q[r].defers # {}
  /\ \E slow \in BOOLEAN : Closes(r, q[r].input.transport, Requested, Sample(q[r], slow))

(* The server answers with the code; nothing recovers a panic above.       *)
GrpcDone(r) ==
  /\ IsGrpc(r) /\ q[r].at = 0
  /\ \/ /\ q[r].mode = "out"
        /\ q' = [q EXCEPT ![r].mode = "done", ![r].answer = CodeOf(q[r].err)]
     \/ q[r].mode = "panic" /\ q' = [q EXCEPT ![r].mode = "escaped"]
  /\ MeterUnchanged

GrpcHandler(r) == GrpcReturns(r) \/ GrpcPanics(r)

GrpcStep(r) ==
  \/ GrpcLogger(r) \/ ErrorInterceptor(r) \/ RecoveryInterceptor(r)
  \/ GrpcFirst(r) \/ GrpcInit(r) \/ UnaryOpens(r) \/ StreamOpens(r) \/ GrpcCloses(r) \/ GrpcDone(r)
=============================================================================

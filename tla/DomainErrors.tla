---------------------------- MODULE DomainErrors ----------------------------
(***************************************************************************)
(* The error types of src/gtk/domain.go, as far as the HTTP and the gRPC   *)
(* package tell them apart.  An error has a class and the number of layers *)
(* fmt.Errorf("%w") put around it.  The checkers are type assertions, so   *)
(* they look at the outermost layer only.                                  *)
(***************************************************************************)
EXTENDS Naturals

CONSTANT Wraps          \* bound: how often an error may be wrapped

ASSUME WrapsAssumption == Wraps \in Nat

Domain == {"validation", "conflict", "notFound", "unauthorized", "forbidden", "unavailable"}

(* "internal" is InternalError or an error of another package, "status" an *)
(* error made by status.Error, "value" what is no error (a panic may throw *)
(* anything) and "none" is nil.                                            *)
Classes == Domain \union {"internal", "status", "value", "none"}

Codes == 0 .. 16        \* codes.OK is 0

Errors == [class : Classes, wraps : 0 .. Wraps, code : Codes]

Error(class, wraps) == [class |-> class, wraps |-> wraps, code |-> 0]
Status(code) == [class |-> "status", wraps |-> 0, code |-> code]
Nil == Error("none", 0)
Value == Error("value", 0)

Is(e, class) == e.wraps = 0 /\ e.class = class

(* errors.Unwrap, or the error itself when there is nothing to unwrap.     *)
Unwrap(e) == IF e.wraps > 0 THEN [e EXCEPT !.wraps = @ - 1] ELSE e
=============================================================================

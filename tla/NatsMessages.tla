---------------------------- MODULE NatsMessages ----------------------------
(***************************************************************************)
(* What nats.Client does with messages: Publish, the callback Subscribe    *)
(* gives to the library, and the tracer (src/nats/nats_trace.go) that puts *)
(* a span around each and joins them through the header of the message.    *)
(*                                                                         *)
(* A context is the span it carries, NoSpan without one, and whether it    *)
(* opted out of the instrumentation.  The span of a Start is in the context*)
(* Start returns, and End ends that one: so a context that Start gave back *)
(* unchanged may still carry the span of somebody else.                    *)
(***************************************************************************)
EXTENDS Naturals, Sequences

CONSTANTS Messages,
          Publishers,   \* goroutines of the application that publish
          Handlers      \* goroutines of the library that call back

ASSUME MessagesAssumption == Publishers \cap Handlers = {}

NoSpan == <<"none">>
Request(m) == <<"request", m>>      \* the application's, around its Publish
Sending(m) == <<"publish", m>>
Receiving(m) == <<"receive", m>>
Own == {Sending(m) : m \in Messages} \union {Receiving(m) : m \in Messages}
Spans == Own \union {Request(m) : m \in Messages} \union {NoSpan}

Contexts == [span : Spans, reduced : BOOLEAN]
Background == [span |-> NoSpan, reduced |-> FALSE]

Actors == Publishers \union Handlers

VARIABLES connected,    \* c.nc is not nil and connected
          used,         \* the messages Publish was called with
          outcome,      \* what it returned
          pubPc,        \* where an actor is in Publish
          given,        \* the context of its call,
          next,         \* the one StartPublish made of it,
          message,      \* and its message: none or one
          inbox,        \* the library: messages on their way, with their headers
          handling,     \* the message a handler is called with: none or one
          ctx,          \* its context
          state,        \* of a span: "none", "open", "ended", "failed" or "twice"
          parent        \* of a span

pubVars == <<used, outcome, pubPc, given, next, message>>
handlerVars == <<handling, ctx>>
spanVars == <<state, parent>>
msgVars == <<connected, pubVars, inbox, handlerVars, spanVars>>

MsgInit ==
  /\ connected = FALSE /\ used = {} /\ inbox = {}
  /\ outcome = [m \in Messages |-> "none"]
  /\ pubPc = [a \in Actors |-> "idle"]
  /\ given = [a \in Actors |-> Background]
  /\ next = [a \in Actors |-> Background]
  /\ message = [a \in Actors |-> {}]
  /\ handling = [h \in Handlers |-> {}]
  /\ ctx = [h \in Handlers |-> Background]
  /\ state = [s \in Own |-> "none"]
  /\ parent = [s \in Own |-> NoSpan]

----------------------------------------------------------------------------
(* The tracer.                                                             *)

HasTrace(c) == c.span # NoSpan /\ ~c.reduced

StartSpan(c, s) == IF HasTrace(c) THEN [c EXCEPT !.span = s] ELSE c

Started(c, s) ==
  IF HasTrace(c)
    THEN state' = [state EXCEPT ![s] = "open"] /\ parent' = [parent EXCEPT ![s] = c.span]
    ELSE UNCHANGED spanVars

(* A span of the application is not the tracer's to end.                   *)
End(c, err) ==
  /\ state' = IF c.span \in Own
                THEN [state EXCEPT ![c.span] =
                        IF @ # "open" THEN "twice" ELSE IF err THEN "failed" ELSE "ended"]
                ELSE state
  /\ UNCHANGED parent

Inject(c) == c.span
Extract(header) == [Background EXCEPT !.span = header]

----------------------------------------------------------------------------
(* Publish.  The application calls it with or without a trace; a handler   *)
(* may publish too, with its context, and either may have opted out.       *)

OptOut(c) == [c EXCEPT !.reduced = TRUE]

ContextsOf(a, m) ==
  LET c == IF a \in Handlers THEN ctx[a] ELSE [Background EXCEPT !.span = Request(m)]
  IN  {c, OptOut(c)} \union (IF a \in Handlers THEN {} ELSE {Background})

PublishRefused(a) ==
  /\ pubPc[a] = "idle" /\ ~connected
  /\ \E m \in Messages \ used :
       used' = used \union {m} /\ outcome' = [outcome EXCEPT ![m] = "error"]
  /\ UNCHANGED <<connected, pubPc, given, next, message, inbox, handlerVars, spanVars>>

StartPublish(a) ==
  /\ pubPc[a] = "idle" /\ connected
  /\ \E m \in Messages \ used : \E c \in ContextsOf(a, m) :
       /\ used' = used \union {m}
       /\ message' = [message EXCEPT ![a] = {m}]
       /\ given' = [given EXCEPT ![a] = c]
       /\ next' = [next EXCEPT ![a] = StartSpan(c, Sending(m))]
       /\ Started(c, Sending(m))
  /\ pubPc' = [pubPc EXCEPT ![a] = "send"]
  /\ UNCHANGED <<connected, outcome, inbox, handlerVars>>

(* Without a span of its own it adds no header and ends nothing.           *)
BugPlain(a) == FALSE
Plain(a) == next[a] = given[a]

PublishMsg(a) ==
  /\ pubPc[a] = "send"
  /\ \E ok \in BOOLEAN, m \in message[a] :
       LET header == IF Plain(a) THEN NoSpan ELSE Inject(next[a]) IN
       /\ inbox' = IF ok THEN inbox \union {[msg |-> m, header |-> header]} ELSE inbox
       /\ outcome' = [outcome EXCEPT ![m] = IF ok THEN "ok" ELSE "error"]
       /\ IF Plain(a) THEN UNCHANGED spanVars ELSE End(next[a], ~ok)
  /\ pubPc' = [pubPc EXCEPT ![a] = "idle"]
  /\ given' = [given EXCEPT ![a] = Background]
  /\ next' = [next EXCEPT ![a] = Background]
  /\ message' = [message EXCEPT ![a] = {}]
  /\ UNCHANGED <<connected, used, handlerVars>>

(* The callback: a handler is called with one message after the other; a   *)
(* message may also get lost.                                              *)

Callback(h) ==
  /\ handling[h] = {}
  /\ \E d \in inbox :
       LET c == Extract(d.header) IN
       /\ inbox' = inbox \ {d}
       /\ handling' = [handling EXCEPT ![h] = {d.msg}]
       /\ ctx' = [ctx EXCEPT ![h] = StartSpan(c, Receiving(d.msg))]
       /\ Started(c, Receiving(d.msg))
  /\ UNCHANGED <<connected, pubVars>>

HandlerReturns(h) ==
  /\ handling[h] # {} /\ pubPc[h] = "idle"
  /\ End(ctx[h], FALSE)
  /\ handling' = [handling EXCEPT ![h] = {}]
  /\ ctx' = [ctx EXCEPT ![h] = Background]
  /\ UNCHANGED <<connected, pubVars, inbox>>

(* Start, Stop, and the connections the library loses and restores.        *)
Connection ==
  /\ connected' = ~connected
  /\ UNCHANGED <<pubVars, inbox, handlerVars, spanVars>>

Publish(a) == PublishRefused(a) \/ StartPublish(a) \/ PublishMsg(a)

----------------------------------------------------------------------------
(* What the tracer guarantees.                                             *)

MsgTypeOK ==
  /\ connected \in BOOLEAN /\ used \subseteq Messages
  /\ outcome \in [Messages -> {"none", "ok", "error"}]
  /\ pubPc \in [Actors -> {"idle", "send"}]
  /\ given \in [Actors -> Contexts] /\ next \in [Actors -> Contexts]
  /\ message \in [Actors -> SUBSET Messages]
  /\ inbox \subseteq [msg : Messages, header : Spans]
  /\ handling \in [Handlers -> SUBSET Messages]
  /\ ctx \in [Handlers -> Contexts]
  /\ state \in [Own -> {"none", "open", "ended", "failed", "twice"}]
  /\ parent \in [Own -> Spans]
=============================================================================

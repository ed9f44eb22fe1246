----------------------------- MODULE WorkerProofs -----------------------------
(***************************************************************************)
(* Theorems about Worker, for any sets of callers, handlers, publishers and*)
(* messages: whatever CacheClient promises holds inside a worker, and the  *)
(* trace of every request is whole.  The inductive invariant is WInv.      *)
(***************************************************************************)
EXTENDS Worker, CacheProofs

(* A message nobody published has no outcome and no span, and is nowhere.  *)
UsedInv ==
  \A m \in Messages :
    /\ outcome[m] # "none" => m \in used
    /\ m \notin used => state[Sending(m)] = "none" /\ state[Receiving(m)] = "none"

(* One actor sends a message, one at a time.  The span it has in hand, if  *)
(* it started one, is the message's, and open.                             *)
SendInv ==
  \A a \in Actors : \A m \in message[a] :
    /\ \A b \in Actors : m \in message[b] => b = a
    /\ \A n \in message[a] : n = m
    /\ m \in used /\ outcome[m] = "none" /\ state[Receiving(m)] = "none"
    /\ next[a] = given[a] => state[Sending(m)] = "none"
    /\ next[a] # given[a] => next[a].span = Sending(m) /\ state[Sending(m)] = "open"

(* A message on its way is there once, was published, was not handled and  *)
(* carries the span of its Publish if that had one.                        *)
InboxInv ==
  \A d \in inbox :
    /\ \A e \in inbox : e.msg = d.msg => e = d
    /\ outcome[d.msg] = "ok" /\ state[Receiving(d.msg)] = "none"
    /\ \A h \in Handlers : d.msg \notin handling[h]
    /\ d.header = IF state[Sending(d.msg)] = "none" THEN NoSpan ELSE Sending(d.msg)

(* One handler has a message, one at a time, with the open span of its     *)
(* callback as context if its Publish had one, and else none.              *)
HandlingInv ==
  \A h \in Handlers : \A m \in handling[h] :
    /\ \A g \in Handlers : m \in handling[g] => g = h
    /\ \A n \in handling[h] : n = m
    /\ outcome[m] = "ok"
    /\ \/ ctx[h].span = NoSpan /\ state[Receiving(m)] = "none" /\ state[Sending(m)] = "none"
       \/ ctx[h].span = Receiving(m) /\ state[Receiving(m)] = "open" /\ state[Sending(m)] # "none"

WInv == MsgTypeOK /\ UsedInv /\ SendInv /\ InboxInv /\ HandlingInv /\ TracesJoin

(* Who a span belongs to, and that no span is two.                         *)
LEMMA SpansAre ==
  /\ \A m \in Messages : Sending(m) \in Own /\ Receiving(m) \in Own
  /\ \A m \in Messages : Request(m) \in Spans /\ Request(m) \notin Own /\ Request(m) # NoSpan
  /\ \A m, n \in Messages : Sending(m) # Receiving(n) /\ Request(m) # Sending(n)
  /\ \A m, n \in Messages : Sending(m) = Sending(n) => m = n
  /\ \A m, n \in Messages : Receiving(m) = Receiving(n) => m = n
  /\ NoSpan \in Spans /\ NoSpan \notin Own /\ Own \subseteq Spans
  /\ \A m \in Messages : Sending(m) # NoSpan /\ Receiving(m) # NoSpan
BY DEF Sending, Receiving, Request, NoSpan, Own, Spans

(* Contexts are what the tracer's functions take and return.               *)
LEMMA ContextsAre ==
  /\ Background \in Contexts
  /\ \A c \in Contexts : c.span \in Spans /\ c.reduced \in BOOLEAN
  /\ \A c \in Contexts : OptOut(c) \in Contexts /\ OptOut(c).span = c.span
  /\ \A c \in Contexts, s \in Spans : StartSpan(c, s) \in Contexts
  /\ \A s \in Spans : Extract(s) \in Contexts /\ Extract(s).span = s /\ (HasTrace(Extract(s)) <=> s # NoSpan)
BY SpansAre DEF Contexts, Background, OptOut, StartSpan, Extract, HasTrace

(* The initial states satisfy the inductive invariant.                     *)
LEMMA InitWInv == MsgInit /\ Init => WInv
<1> SUFFICES ASSUME MsgInit, Init PROVE WInv
  OBVIOUS
<1> USE SpansAre, ContextsAre DEF MsgInit
<1>1. MsgTypeOK
  <2>1. parent \in [Own -> Spans] /\ state \in [Own -> {"none", "open", "ended", "failed", "twice"}]
    OBVIOUS
  <2> QED BY <2>1 DEF MsgTypeOK
<1>2. UsedInv /\ SendInv /\ InboxInv /\ HandlingInv
  BY DEF UsedInv, SendInv, InboxInv, HandlingInv
<1>3. TracesJoin
  BY WorkerAssumption DEF TracesJoin, Seen, Init
<1> QED BY <1>1, <1>2, <1>3 DEF WInv

----------------------------------------------------------------------------
(* Publish was called while the client is not connected.                   *)
LEMMA RefusedStep ==
  ASSUME WInv, NEW a \in Actors, PublishRefused(a), UNCHANGED vars
  PROVE  WInv'
<1> USE SpansAre DEF WInv, MsgTypeOK, handlerVars, spanVars
<1>1. PICK m \in Messages \ used :
        used' = used \union {m} /\ outcome' = [outcome EXCEPT ![m] = "error"]
  BY DEF PublishRefused
<1>2. UNCHANGED <<connected, pubPc, given, next, message, inbox, handling, ctx, state, parent>>
  BY DEF PublishRefused
<1>3. outcome[m] = "none" /\ state[Sending(m)] = "none"
  BY DEF UsedInv
<1>4. MsgTypeOK' /\ UsedInv'
  BY <1>1, <1>2, <1>3 DEF UsedInv
<1>5. SendInv'
  BY <1>1, <1>2, <1>3 DEF SendInv
<1>6. InboxInv'
  BY <1>1, <1>2, <1>3 DEF InboxInv
<1>7. HandlingInv'
  BY <1>1, <1>2, <1>3 DEF HandlingInv
<1>8. TracesJoin'
  BY <1>1, <1>2, <1>3 DEF TracesJoin, Seen, vars, opVars
<1> QED BY <1>4, <1>5, <1>6, <1>7, <1>8

(* A span may begin: the one whose context it is given, if any, is open.   *)
LEMMA StartStep ==
  ASSUME WInv, NEW a \in Actors, a \in Handlers => handling[a] # {},
         StartPublish(a), UNCHANGED vars
  PROVE  WInv'
<1> USE DEF WInv, handlerVars, spanVars
<1>0. PICK m \in Messages \ used : \E k \in ContextsOf(a, m) :
        /\ used' = used \union {m}
        /\ message' = [message EXCEPT ![a] = {m}]
        /\ given' = [given EXCEPT ![a] = k]
        /\ next' = [next EXCEPT ![a] = StartSpan(k, Sending(m))]
        /\ Started(k, Sending(m))
  BY DEF StartPublish
<1>1. PICK c \in ContextsOf(a, m) :
        /\ used' = used \union {m}
        /\ message' = [message EXCEPT ![a] = {m}]
        /\ given' = [given EXCEPT ![a] = c]
        /\ next' = [next EXCEPT ![a] = StartSpan(c, Sending(m))]
        /\ Started(c, Sending(m))
  BY <1>0
<1>2. /\ pubPc' = [pubPc EXCEPT ![a] = "send"]
      /\ UNCHANGED <<connected, outcome, inbox, handling, ctx>>
  BY DEF StartPublish
<1>3. /\ m \in Messages /\ outcome[m] = "none" /\ state[Sending(m)] = "none" /\ state[Receiving(m)] = "none"
      /\ \A b \in Actors : m \notin message[b]
      /\ \A d \in inbox : d.msg # m
      /\ \A h \in Handlers : m \notin handling[h]
  BY DEF MsgTypeOK, UsedInv, SendInv, InboxInv, HandlingInv
<1>4. /\ c \in Contexts /\ \A n \in Messages : c.span # Sending(n)
      /\ c.span \in Own => state[c.span] # "none"
      /\ a \in Handlers /\ c.span # NoSpan =>
           \E n \in handling[a] : state[Receiving(n)] = "open"
  <2>1. CASE a \in Handlers
    <3>1. PICK n \in handling[a] : TRUE
      BY <2>1
    <3>2. ctx[a] \in Contexts /\ c \in {ctx[a], OptOut(ctx[a])}
      BY <1>1, <2>1 DEF ContextsOf, MsgTypeOK
    <3>4. c.span = ctx[a].span /\ c \in Contexts
      BY <3>2, ContextsAre
    <3>3. n \in Messages
      BY <2>1, <3>1 DEF MsgTypeOK
    <3>5. \/ ctx[a].span = NoSpan
          \/ ctx[a].span = Receiving(n) /\ state[Receiving(n)] = "open"
      BY <2>1, <3>1 DEF HandlingInv
    <3> QED BY <2>1, <3>1, <3>3, <3>4, <3>5, SpansAre
  <2>2. CASE a \notin Handlers
    <3> DEFINE k == [Background EXCEPT !.span = Request(m)]
    <3>1. k \in Contexts /\ k.span = Request(m) /\ Background.span = NoSpan
      BY <1>3, SpansAre DEF Background, Contexts
    <3>2. c \in {k, OptOut(k)} \union {Background}
      BY <1>1, <2>2 DEF ContextsOf
    <3> HIDE DEF k
    <3>3. c.span \in {Request(m), NoSpan} /\ c \in Contexts
      BY <3>1, <3>2, ContextsAre
    <3> QED BY <1>3, <2>2, <3>3, SpansAre
  <2> QED BY <2>1, <2>2
<1>5. \/ /\ HasTrace(c) /\ c.span # NoSpan
         /\ next'[a] # given'[a] /\ next'[a].span = Sending(m)
         /\ state' = [state EXCEPT ![Sending(m)] = "open"]
         /\ parent' = [parent EXCEPT ![Sending(m)] = c.span]
      \/ /\ next'[a] = given'[a] /\ UNCHANGED <<state, parent>>
  <2>1. CASE HasTrace(c)
    <3>1. StartSpan(c, Sending(m)) = [c EXCEPT !.span = Sending(m)]
      BY <2>1 DEF StartSpan
    <3>2. [c EXCEPT !.span = Sending(m)].span = Sending(m)
      BY <1>4 DEF Contexts
    <3>3. next'[a] = [c EXCEPT !.span = Sending(m)] /\ given'[a] = c
      BY <1>1, <3>1 DEF MsgTypeOK
    <3>4. next'[a].span = Sending(m) /\ next'[a] # given'[a]
      BY <1>3, <1>4, <3>2, <3>3
    <3> QED BY <1>1, <2>1, <3>4 DEF Started, HasTrace
  <2>2. CASE ~HasTrace(c)
    BY <1>1, <2>2 DEF Started, StartSpan, MsgTypeOK
  <2> QED BY <2>1, <2>2
<1>6. MsgTypeOK'
  <2>1. given' \in [Actors -> Contexts] /\ next' \in [Actors -> Contexts]
    BY <1>1, <1>3, <1>4, SpansAre, ContextsAre DEF MsgTypeOK
  <2>2. /\ state' \in [Own -> {"none", "open", "ended", "failed", "twice"}]
        /\ parent' \in [Own -> Spans]
    <3>1. c.span \in Spans /\ Sending(m) \in Own
      BY <1>3, <1>4, SpansAre, ContextsAre
    <3> QED BY <1>5, <3>1 DEF MsgTypeOK
  <2>3. message' \in [Actors -> SUBSET Messages] /\ used' \subseteq Messages
    BY <1>1, <1>3 DEF MsgTypeOK
  <2> QED BY <1>2, <2>1, <2>2, <2>3 DEF MsgTypeOK
<1>7. /\ \A n \in Messages : state'[Receiving(n)] = state[Receiving(n)]
      /\ \A n \in Messages : n # m => state'[Sending(n)] = state[Sending(n)]
      /\ \A s \in Own : state[s] # "none" => state'[s] # "none"
      /\ \A n \in Messages : parent'[Receiving(n)] = parent[Receiving(n)]
      /\ \A n \in Messages : parent'[Sending(n)] =
           IF n = m /\ next'[a] # given'[a] THEN c.span ELSE parent[Sending(n)]
  BY <1>3, <1>5, SpansAre DEF MsgTypeOK
<1>8. UsedInv'
  BY <1>1, <1>2, <1>3, <1>7 DEF UsedInv
<1>9. SendInv'
  <2> SUFFICES ASSUME NEW b \in Actors, NEW n \in message'[b]
               PROVE  /\ \A e \in Actors : n \in message'[e] => e = b
                      /\ \A k \in message'[b] : k = n
                      /\ n \in used' /\ outcome'[n] = "none" /\ state'[Receiving(n)] = "none"
                      /\ next'[b] = given'[b] => state'[Sending(n)] = "none"
                      /\ next'[b] # given'[b] =>
                           next'[b].span = Sending(n) /\ state'[Sending(n)] = "open"
    BY DEF SendInv
  <2>1. CASE b = a
    <3>1. n = m /\ message'[a] = {m} /\ \A e \in Actors : e # a => message'[e] = message[e]
      BY <1>1, <2>1 DEF MsgTypeOK
    <3>2. /\ n \in used' /\ outcome'[n] = "none" /\ state'[Receiving(n)] = "none"
          /\ \A e \in Actors : n \in message'[e] => e = b
      BY <1>1, <1>2, <1>3, <1>7, <2>1, <3>1
    <3>3. next'[a] # given'[a] => state'[Sending(m)] = "open"
      BY <1>3, <1>5, SpansAre DEF MsgTypeOK
    <3>4. next'[a] = given'[a] => state'[Sending(m)] = "none"
      BY <1>3, <1>5
    <3> QED BY <1>5, <2>1, <3>1, <3>2, <3>3, <3>4
  <2>2. CASE b # a
    <3>1. /\ message'[b] = message[b] /\ next'[b] = next[b] /\ given'[b] = given[b]
          /\ \A e \in Actors : message'[e] = IF e = a THEN {m} ELSE message[e]
      BY <1>1, <2>2 DEF MsgTypeOK
    <3>2. n \in message[b] /\ n # m /\ n \in Messages
      BY <1>3, <3>1 DEF MsgTypeOK
    <3>3. state'[Sending(n)] = state[Sending(n)] /\ state'[Receiving(n)] = state[Receiving(n)]
      BY <1>7, <3>2
    <3> QED BY <1>1, <1>2, <2>2, <3>1, <3>2, <3>3 DEF SendInv
  <2> QED BY <2>1, <2>2
<1>10. InboxInv'
  <2>1. \A d \in inbox : d.msg \in Messages /\ d.msg # m
    BY <1>3 DEF MsgTypeOK
  <2> QED BY <1>2, <1>7, <2>1 DEF InboxInv
<1>11. HandlingInv'
  <2>1. \A h \in Handlers : \A n \in handling[h] : n \in Messages /\ n # m
    BY <1>3 DEF MsgTypeOK
  <2> QED BY <1>2, <1>7, <2>1 DEF HandlingInv
<1>12. TracesJoin'
  <2>1. ASSUME NEW n \in Messages
        PROVE  /\ state'[Receiving(n)] # "none" => parent'[Receiving(n)] = Sending(n)
               /\ Seen(n)' => (state'[Receiving(n)] = "open" <=> state'[Sending(n)] # "none")
               /\ ~Seen(n)' => state'[Receiving(n)] \in {"none", "ended"}
               /\ outcome'[n] # "none" => state'[Sending(n)] \in
                    IF outcome'[n] = "ok" THEN {"none", "ended"} ELSE {"none", "failed"}
    <3>1. parent'[Receiving(n)] = parent[Receiving(n)] /\ (Seen(n)' <=> Seen(n))
      BY <1>2, <1>7 DEF Seen
    <3>2. CASE n = m
      BY <1>2, <1>3, <1>7, <3>1, <3>2 DEF TracesJoin, Seen
    <3>3. CASE n # m
      BY <1>2, <1>7, <3>1, <3>3 DEF TracesJoin
    <3> QED BY <3>2, <3>3
  <2>2. ASSUME NEW n \in Messages, parent'[Sending(n)] \in Own
        PROVE  state'[parent'[Sending(n)]] # "none"
    <3>1. CASE n = m /\ next'[a] # given'[a]
      BY <1>4, <1>7, <2>2, <3>1
    <3>2. CASE ~(n = m /\ next'[a] # given'[a])
      BY <1>7, <2>2, <3>2 DEF TracesJoin
    <3> QED BY <3>1, <3>2
  <2>3. ASSUME NEW h \in Handlers,
               \/ opPc'[h] # "idle" /\ span'[h] = "open"
               \/ pubPc'[h] = "send" /\ next'[h] # given'[h]
        PROVE  \E n \in handling'[h] : state'[Receiving(n)] = "open"
    <3>1. \E n \in handling[h] : state[Receiving(n)] = "open"
      <4>1. CASE h = a /\ next'[h] # given'[h]
        BY <1>4, <1>5, <4>1
      <4>2. CASE h # a /\ pubPc'[h] = "send" /\ next'[h] # given'[h]
        BY <1>1, <1>2, <4>2 DEF TracesJoin, Actors, MsgTypeOK
      <4>3. CASE opPc'[h] # "idle" /\ span'[h] = "open"
        BY <4>3 DEF TracesJoin, vars, opVars
      <4> QED BY <2>3, <4>1, <4>2, <4>3
    <3>2. \A n \in handling[h] : n \in Messages
      BY DEF MsgTypeOK
    <3> QED BY <1>2, <1>7, <3>1, <3>2
  <2> QED BY <2>1, <2>2, <2>3 DEF TracesJoin
<1> QED BY <1>6, <1>8, <1>9, <1>10, <1>11, <1>12

(* A Publish returns, and its span, if it started one, has ended.          *)
LEMMA SentStep ==
  ASSUME WInv, NEW a \in Actors, PublishMsg(a), UNCHANGED vars
  PROVE  WInv'
<1> USE DEF WInv, handlerVars, spanVars
<1>0. PICK ok \in BOOLEAN : \E m \in message[a] :
        LET header == IF Plain(a) THEN NoSpan ELSE Inject(next[a]) IN
        /\ inbox' = IF ok THEN inbox \union {[msg |-> m, header |-> header]} ELSE inbox
        /\ outcome' = [outcome EXCEPT ![m] = IF ok THEN "ok" ELSE "error"]
        /\ IF Plain(a) THEN UNCHANGED spanVars ELSE End(next[a], ~ok)
  BY DEF PublishMsg
<1> DEFINE header == IF next[a] = given[a] THEN NoSpan ELSE next[a].span
<1>1. PICK m \in message[a] :
        /\ inbox' = IF ok THEN inbox \union {[msg |-> m, header |-> header]} ELSE inbox
        /\ outcome' = [outcome EXCEPT ![m] = IF ok THEN "ok" ELSE "error"]
        /\ IF next[a] = given[a] THEN UNCHANGED <<state, parent>> ELSE End(next[a], ~ok)
  BY <1>0 DEF Plain, Inject
<1>2. /\ pubPc' = [pubPc EXCEPT ![a] = "idle"]
      /\ given' = [given EXCEPT ![a] = Background]
      /\ next' = [next EXCEPT ![a] = Background]
      /\ message' = [message EXCEPT ![a] = {}]
      /\ UNCHANGED <<connected, used, handling, ctx>>
  BY DEF PublishMsg
<1>3. /\ m \in Messages /\ m \in used /\ outcome[m] = "none" /\ state[Receiving(m)] = "none"
      /\ next[a] = given[a] => state[Sending(m)] = "none"
      /\ next[a] # given[a] => next[a].span = Sending(m) /\ state[Sending(m)] = "open"
      /\ \A b \in Actors : m \in message[b] => b = a
      /\ \A n \in message[a] : n = m
  BY <1>1 DEF MsgTypeOK, SendInv
<1>4. /\ \A d \in inbox : d.msg # m
      /\ \A h \in Handlers : m \notin handling[h]
  BY <1>3 DEF InboxInv, HandlingInv
<1>5. /\ parent' = parent
      /\ state' = IF next[a] = given[a] THEN state
                  ELSE [state EXCEPT ![Sending(m)] = IF ok THEN "ended" ELSE "failed"]
  <2>1. Sending(m) \in Own
    BY <1>3, SpansAre
  <2>2. CASE next[a] # given[a]
    BY <1>1, <1>3, <2>1, <2>2 DEF End
  <2> QED BY <1>1, <2>2
<1>6. /\ \A n \in Messages : state'[Receiving(n)] = state[Receiving(n)]
      /\ \A n \in Messages : n # m => state'[Sending(n)] = state[Sending(n)]
      /\ next[a] # given[a] => state'[Sending(m)] = IF ok THEN "ended" ELSE "failed"
      /\ next[a] = given[a] => state'[Sending(m)] = "none"
      /\ \A s \in Own : state[s] # "none" => state'[s] # "none"
  BY <1>3, <1>5, SpansAre DEF MsgTypeOK
<1>7. /\ header = IF state'[Sending(m)] = "none" THEN NoSpan ELSE Sending(m)
      /\ header \in Spans
  BY <1>3, <1>6, SpansAre
<1> HIDE DEF header
<1>8. MsgTypeOK'
  <2>1. given' \in [Actors -> Contexts] /\ next' \in [Actors -> Contexts]
    BY <1>2, ContextsAre DEF MsgTypeOK
  <2>2. /\ state' \in [Own -> {"none", "open", "ended", "failed", "twice"}]
        /\ parent' \in [Own -> Spans] /\ outcome' \in [Messages -> {"none", "ok", "error"}]
    BY <1>1, <1>5 DEF MsgTypeOK
  <2>3. inbox' \subseteq [msg : Messages, header : Spans]
    BY <1>1, <1>3, <1>7 DEF MsgTypeOK
  <2>4. message' \in [Actors -> SUBSET Messages] /\ pubPc' \in [Actors -> {"idle", "send"}]
    BY <1>2 DEF MsgTypeOK
  <2> QED BY <1>2, <2>1, <2>2, <2>3, <2>4 DEF MsgTypeOK
<1>9. \A n \in Messages : outcome'[n] = IF n = m THEN IF ok THEN "ok" ELSE "error" ELSE outcome[n]
  BY <1>1 DEF MsgTypeOK
<1>10. UsedInv'
  BY <1>2, <1>3, <1>6, <1>9 DEF UsedInv
<1>11. SendInv'
  <2> SUFFICES ASSUME NEW b \in Actors, NEW n \in message'[b]
               PROVE  /\ \A e \in Actors : n \in message'[e] => e = b
                      /\ \A k \in message'[b] : k = n
                      /\ n \in used' /\ outcome'[n] = "none" /\ state'[Receiving(n)] = "none"
                      /\ next'[b] = given'[b] => state'[Sending(n)] = "none"
                      /\ next'[b] # given'[b] =>
                           next'[b].span = Sending(n) /\ state'[Sending(n)] = "open"
    BY DEF SendInv
  <2>1. b # a /\ n \in message[b]
    BY <1>2 DEF MsgTypeOK
  <2>2. /\ message'[b] = message[b] /\ next'[b] = next[b] /\ given'[b] = given[b]
        /\ \A e \in Actors : message'[e] = IF e = a THEN {} ELSE message[e]
    BY <1>2, <2>1 DEF MsgTypeOK
  <2>3. n \in Messages /\ n # m
    BY <1>3, <2>1 DEF MsgTypeOK
  <2>4. state'[Sending(n)] = state[Sending(n)] /\ state'[Receiving(n)] = state[Receiving(n)]
    BY <1>6, <2>3
  <2> QED BY <1>2, <1>9, <2>1, <2>2, <2>3, <2>4 DEF SendInv
<1>12. InboxInv'
  <2>1. \A d \in inbox : d.msg \in Messages /\ d.msg # m
    BY <1>4 DEF MsgTypeOK
  <2>2. CASE ok
    <3> DEFINE new == [msg |-> m, header |-> header]
    <3>1. new.msg = m /\ new.header = header
      OBVIOUS
    <3> HIDE DEF new
    <3>2. inbox' = inbox \union {new}
      BY <1>1, <2>2 DEF new
    <3>3. ASSUME NEW d \in inbox
          PROVE  /\ \A e \in inbox' : e.msg = d.msg => e = d
                 /\ outcome'[d.msg] = "ok" /\ state'[Receiving(d.msg)] = "none"
                 /\ \A h \in Handlers : d.msg \notin handling'[h]
                 /\ d.header = IF state'[Sending(d.msg)] = "none" THEN NoSpan ELSE Sending(d.msg)
      BY <1>2, <1>6, <1>9, <2>1, <3>1, <3>2 DEF InboxInv
    <3>4. /\ \A e \in inbox' : e.msg = new.msg => e = new
          /\ outcome'[new.msg] = "ok" /\ state'[Receiving(new.msg)] = "none"
          /\ \A h \in Handlers : new.msg \notin handling'[h]
          /\ new.header = IF state'[Sending(new.msg)] = "none" THEN NoSpan ELSE Sending(new.msg)
      BY <1>2, <1>3, <1>4, <1>6, <1>7, <1>9, <2>1, <2>2, <3>1, <3>2
    <3> QED BY <3>2, <3>3, <3>4 DEF InboxInv
  <2>3. CASE ~ok
    <3>1. inbox' = inbox
      BY <1>1, <2>3
    <3> QED BY <1>2, <1>6, <1>9, <2>1, <3>1 DEF InboxInv
  <2> QED BY <2>2, <2>3
<1>13. HandlingInv'
  <2>1. \A h \in Handlers : \A n \in handling[h] : n \in Messages /\ n # m
    BY <1>4 DEF MsgTypeOK
  <2> QED BY <1>2, <1>6, <1>9, <2>1 DEF HandlingInv
<1>14. TracesJoin'
  <2>1. ASSUME NEW n \in Messages
        PROVE  /\ state'[Receiving(n)] # "none" => parent'[Receiving(n)] = Sending(n)
               /\ Seen(n)' => (state'[Receiving(n)] = "open" <=> state'[Sending(n)] # "none")
               /\ ~Seen(n)' => state'[Receiving(n)] \in {"none", "ended"}
               /\ outcome'[n] # "none" => state'[Sending(n)] \in
                    IF outcome'[n] = "ok" THEN {"none", "ended"} ELSE {"none", "failed"}
               /\ parent'[Sending(n)] \in Own => state'[parent'[Sending(n)]] # "none"
    <3>1. Seen(n)' <=> Seen(n)
      BY <1>2 DEF Seen
    <3>2. parent'[Sending(n)] \in Own => state'[parent'[Sending(n)]] # "none"
      BY <1>5, <1>6 DEF TracesJoin
    <3>3. CASE n = m
      BY <1>3, <1>4, <1>5, <1>6, <1>9, <3>1, <3>2, <3>3 DEF TracesJoin, Seen
    <3>4. CASE n # m
      BY <1>5, <1>6, <1>9, <3>1, <3>2, <3>4 DEF TracesJoin
    <3> QED BY <3>3, <3>4
  <2>2. ASSUME NEW h \in Handlers,
               \/ opPc'[h] # "idle" /\ span'[h] = "open"
               \/ pubPc'[h] = "send" /\ next'[h] # given'[h]
        PROVE  \E n \in handling'[h] : state'[Receiving(n)] = "open"
    <3>1. \/ opPc[h] # "idle" /\ span[h] = "open"
          \/ pubPc[h] = "send" /\ next[h] # given[h]
      BY <1>2, <2>2 DEF vars, opVars, MsgTypeOK, Actors
    <3>2. \A n \in handling[h] : n \in Messages
      BY DEF MsgTypeOK
    <3> QED BY <1>2, <1>6, <3>1, <3>2 DEF TracesJoin
  <2> QED BY <2>1, <2>2 DEF TracesJoin
<1> QED BY <1>8, <1>10, <1>11, <1>12, <1>13, <1>14

(* A handler is called back, with the span of the callback in its context  *)
(* if the message carries one.                                             *)
LEMMA CallbackStep ==
  ASSUME WInv, NEW h \in Handlers, Callback(h), UNCHANGED vars
  PROVE  WInv'
<1> USE DEF WInv, pubVars, spanVars
<1>1. PICK d \in inbox :
        /\ inbox' = inbox \ {d}
        /\ handling' = [handling EXCEPT ![h] = {d.msg}]
        /\ ctx' = [ctx EXCEPT ![h] = StartSpan(Extract(d.header), Receiving(d.msg))]
        /\ Started(Extract(d.header), Receiving(d.msg))
  BY DEF Callback
<1> DEFINE m == d.msg
<1>2. /\ handling[h] = {}
      /\ UNCHANGED <<connected, used, outcome, pubPc, given, next, message>>
  BY DEF Callback
<1>3. /\ m \in Messages /\ outcome[m] = "ok" /\ state[Receiving(m)] = "none" /\ m \in used
      /\ \A g \in Handlers : m \notin handling[g]
      /\ \A e \in inbox : e.msg = m => e = d
      /\ d.header = IF state[Sending(m)] = "none" THEN NoSpan ELSE Sending(m)
      /\ \A a \in Actors : m \notin message[a]
  BY DEF MsgTypeOK, InboxInv, UsedInv, SendInv
<1> HIDE DEF m
<1>4. Sending(m) \in Own /\ Receiving(m) \in Own /\ d.header \in Spans
  BY <1>3, SpansAre
<1>5. \/ /\ state[Sending(m)] = "none" /\ UNCHANGED <<state, parent>>
         /\ ctx' = [ctx EXCEPT ![h] = Extract(d.header)] /\ d.header = NoSpan
      \/ /\ state[Sending(m)] # "none"
         /\ state' = [state EXCEPT ![Receiving(m)] = "open"]
         /\ parent' = [parent EXCEPT ![Receiving(m)] = Sending(m)]
         /\ ctx' = [ctx EXCEPT ![h] = [Extract(d.header) EXCEPT !.span = Receiving(m)]]
  <2>1. CASE state[Sending(m)] = "none"
    <3>1. d.header = NoSpan /\ ~HasTrace(Extract(d.header))
      BY <1>3, <1>4, <2>1, ContextsAre
    <3> QED BY <1>1, <2>1, <3>1 DEF Started, StartSpan, m
  <2>2. CASE state[Sending(m)] # "none"
    <3>1. HasTrace(Extract(d.header)) /\ Extract(d.header).span = Sending(m)
      BY <1>3, <1>4, <2>2, ContextsAre, SpansAre
    <3> QED BY <1>1, <2>2, <3>1 DEF Started, StartSpan, m
  <2> QED BY <2>1, <2>2
<1>6. /\ ctx' \in [Handlers -> Contexts]
      /\ \A g \in Handlers : g # h => ctx'[g] = ctx[g]
      /\ ctx'[h].span = IF state[Sending(m)] = "none" THEN NoSpan ELSE Receiving(m)
  <2>1. Extract(d.header) \in Contexts /\ Extract(d.header).span = d.header
    BY <1>4, ContextsAre
  <2>2. Receiving(m) \in Spans
    BY <1>4, SpansAre
  <2>3. /\ [Extract(d.header) EXCEPT !.span = Receiving(m)] \in Contexts
        /\ [Extract(d.header) EXCEPT !.span = Receiving(m)].span = Receiving(m)
    BY <2>1, <2>2 DEF Contexts
  <2> HIDE DEF Extract
  <2> QED BY <1>5, <2>1, <2>3 DEF MsgTypeOK
<1>7. /\ \A n \in Messages : n # m => state'[Receiving(n)] = state[Receiving(n)]
      /\ \A n \in Messages : n # m => parent'[Receiving(n)] = parent[Receiving(n)]
      /\ \A n \in Messages : state'[Sending(n)] = state[Sending(n)]
      /\ \A n \in Messages : parent'[Sending(n)] = parent[Sending(n)]
      /\ state'[Receiving(m)] = IF state[Sending(m)] = "none" THEN "none" ELSE "open"
      /\ state[Sending(m)] # "none" => parent'[Receiving(m)] = Sending(m)
      /\ \A s \in Own : state[s] # "none" => state'[s] # "none"
  BY <1>3, <1>4, <1>5, SpansAre DEF MsgTypeOK
<1>8. /\ handling'[h] = {m}
      /\ \A g \in Handlers : g # h => handling'[g] = handling[g]
      /\ handling' \in [Handlers -> SUBSET Messages]
  BY <1>1, <1>3 DEF MsgTypeOK, m
<1>9. MsgTypeOK'
  <2>1. state' \in [Own -> {"none", "open", "ended", "failed", "twice"}]
    BY <1>5 DEF MsgTypeOK
  <2>2. parent' \in [Own -> Spans]
    BY <1>4, <1>5, SpansAre DEF MsgTypeOK
  <2> QED BY <1>1, <1>2, <1>6, <1>8, <2>1, <2>2 DEF MsgTypeOK
<1>10. UsedInv'
  BY <1>2, <1>3, <1>7 DEF UsedInv
<1>11. SendInv'
  <2>1. \A a \in Actors : \A n \in message[a] : n \in Messages /\ n # m
    BY <1>3 DEF MsgTypeOK
  <2> QED BY <1>2, <1>7, <2>1 DEF SendInv
<1>12. InboxInv'
  <2>1. \A e \in inbox' : e \in inbox /\ e.msg \in Messages /\ e.msg # m
    BY <1>1, <1>3 DEF MsgTypeOK
  <2>2. \A e \in inbox' : \A g \in Handlers : e.msg \notin handling'[g]
    BY <1>8, <2>1 DEF InboxInv
  <2> QED BY <1>2, <1>7, <2>1, <2>2 DEF InboxInv
<1>13. HandlingInv'
  <2> SUFFICES ASSUME NEW g \in Handlers, NEW n \in handling'[g]
               PROVE  /\ \A k \in Handlers : n \in handling'[k] => k = g
                      /\ \A k \in handling'[g] : k = n
                      /\ outcome'[n] = "ok"
                      /\ \/ /\ ctx'[g].span = NoSpan /\ state'[Receiving(n)] = "none"
                            /\ state'[Sending(n)] = "none"
                         \/ /\ ctx'[g].span = Receiving(n) /\ state'[Receiving(n)] = "open"
                            /\ state'[Sending(n)] # "none"
    BY DEF HandlingInv
  <2>1. CASE g = h
    BY <1>2, <1>3, <1>6, <1>7, <1>8, <2>1
  <2>2. CASE g # h
    <3>1. n \in handling[g] /\ n \in Messages /\ n # m
      BY <1>3, <1>8, <2>2 DEF MsgTypeOK
    <3> QED BY <1>2, <1>6, <1>7, <1>8, <2>2, <3>1 DEF HandlingInv
  <2> QED BY <2>1, <2>2
<1>14. TracesJoin'
  <2>1. ASSUME NEW n \in Messages
        PROVE  /\ state'[Receiving(n)] # "none" => parent'[Receiving(n)] = Sending(n)
               /\ Seen(n)' => (state'[Receiving(n)] = "open" <=> state'[Sending(n)] # "none")
               /\ ~Seen(n)' => state'[Receiving(n)] \in {"none", "ended"}
               /\ outcome'[n] # "none" => state'[Sending(n)] \in
                    IF outcome'[n] = "ok" THEN {"none", "ended"} ELSE {"none", "failed"}
               /\ parent'[Sending(n)] \in Own => state'[parent'[Sending(n)]] # "none"
    <3>1. parent'[Sending(n)] \in Own => state'[parent'[Sending(n)]] # "none"
      BY <1>7 DEF TracesJoin
    <3>2. CASE n = m
      <4>1. Seen(n)'
        BY <1>8, <3>2 DEF Seen
      <4> QED BY <1>2, <1>7, <3>1, <3>2, <4>1 DEF TracesJoin
    <3>3. CASE n # m
      <4>1. Seen(n)' <=> Seen(n)
        BY <1>2, <1>8, <3>3 DEF Seen
      <4> QED BY <1>2, <1>7, <3>1, <3>3, <4>1 DEF TracesJoin
    <3> QED BY <3>2, <3>3
  <2>2. ASSUME NEW g \in Handlers,
               \/ opPc'[g] # "idle" /\ span'[g] = "open"
               \/ pubPc'[g] = "send" /\ next'[g] # given'[g]
        PROVE  \E n \in handling'[g] : state'[Receiving(n)] = "open"
    <3>1. \E n \in handling[g] : state[Receiving(n)] = "open"
      BY <1>2, <2>2 DEF TracesJoin, vars, opVars
    <3>2. g # h /\ \A n \in handling[g] : n \in Messages /\ n # m
      BY <1>2, <1>3, <3>1 DEF MsgTypeOK
    <3> QED BY <1>7, <1>8, <3>1, <3>2
  <2> QED BY <2>1, <2>2 DEF TracesJoin
<1> QED BY <1>9, <1>10, <1>11, <1>12, <1>13, <1>14

(* A handler returns, when nothing it called is under way, and the span of *)
(* its callback ends.                                                      *)
LEMMA ReturnStep ==
  ASSUME WInv, NEW h \in Handlers, Free(h), HandlerReturns(h), UNCHANGED vars
  PROVE  WInv'
<1> USE DEF WInv, pubVars
<1>1. /\ handling' = [handling EXCEPT ![h] = {}]
      /\ ctx' = [ctx EXCEPT ![h] = Background]
      /\ UNCHANGED <<connected, used, outcome, pubPc, given, next, message, inbox>>
      /\ opPc[h] = "idle" /\ pubPc[h] = "idle"
  BY DEF HandlerReturns, Free
<1>2. PICK m \in handling[h] : TRUE
  BY DEF HandlerReturns
<1>3. /\ m \in Messages /\ Receiving(m) \in Own
      /\ handling[h] = {m} /\ \A g \in Handlers : m \in handling[g] => g = h
      /\ outcome[m] = "ok"
      /\ \/ ctx[h].span = NoSpan /\ state[Receiving(m)] = "none" /\ state[Sending(m)] = "none"
         \/ ctx[h].span = Receiving(m) /\ state[Receiving(m)] = "open" /\ state[Sending(m)] # "none"
  BY <1>2, SpansAre DEF MsgTypeOK, HandlingInv
<1>4. /\ parent' = parent
      /\ state' = IF ctx[h].span = NoSpan THEN state ELSE [state EXCEPT ![Receiving(m)] = "ended"]
  BY <1>3, SpansAre DEF HandlerReturns, End
<1>5. /\ \A n \in Messages : n # m => state'[Receiving(n)] = state[Receiving(n)]
      /\ \A n \in Messages : state'[Sending(n)] = state[Sending(n)]
      /\ state'[Receiving(m)] \in {"none", "ended"}
      /\ state'[Receiving(m)] = "none" <=> state[Receiving(m)] = "none"
      /\ \A s \in Own : state[s] # "none" => state'[s] # "none"
  BY <1>3, <1>4, SpansAre DEF MsgTypeOK
<1>6. \A g \in Handlers : /\ handling'[g] = IF g = h THEN {} ELSE handling[g]
                          /\ g # h => ctx'[g] = ctx[g]
  BY <1>1 DEF MsgTypeOK
<1>7. MsgTypeOK'
  <2>1. handling' \in [Handlers -> SUBSET Messages] /\ ctx' \in [Handlers -> Contexts]
    BY <1>1, ContextsAre DEF MsgTypeOK
  <2>2. state' \in [Own -> {"none", "open", "ended", "failed", "twice"}]
    BY <1>4 DEF MsgTypeOK
  <2> QED BY <1>1, <1>4, <2>1, <2>2 DEF MsgTypeOK
<1>8. UsedInv'
  BY <1>1, <1>3, <1>5 DEF UsedInv
<1>9. SendInv'
  <2>1. \A a \in Actors : \A n \in message[a] : n \in Messages /\ n # m
    BY <1>3 DEF MsgTypeOK, SendInv
  <2> QED BY <1>1, <1>5, <2>1 DEF SendInv
<1>10. InboxInv'
  <2>1. \A d \in inbox : d.msg \in Messages /\ d.msg # m
    BY <1>2 DEF MsgTypeOK, InboxInv
  <2> QED BY <1>1, <1>5, <1>6, <2>1 DEF InboxInv
<1>11. HandlingInv'
  <2>1. \A g \in Handlers : \A n \in handling'[g] :
          g # h /\ n \in handling[g] /\ n \in Messages /\ n # m
    BY <1>3, <1>6 DEF MsgTypeOK
  <2> QED BY <1>1, <1>5, <1>6, <2>1 DEF HandlingInv
<1>12. TracesJoin'
  <2>1. ASSUME NEW n \in Messages
        PROVE  /\ state'[Receiving(n)] # "none" => parent'[Receiving(n)] = Sending(n)
               /\ Seen(n)' => (state'[Receiving(n)] = "open" <=> state'[Sending(n)] # "none")
               /\ ~Seen(n)' => state'[Receiving(n)] \in {"none", "ended"}
               /\ outcome'[n] # "none" => state'[Sending(n)] \in
                    IF outcome'[n] = "ok" THEN {"none", "ended"} ELSE {"none", "failed"}
               /\ parent'[Sending(n)] \in Own => state'[parent'[Sending(n)]] # "none"
    <3>1. parent'[Sending(n)] \in Own => state'[parent'[Sending(n)]] # "none"
      BY <1>4, <1>5 DEF TracesJoin
    <3>2. CASE n = m
      <4>1. ~Seen(n)'
        BY <1>3, <1>6, <3>2 DEF Seen
      <4> QED BY <1>1, <1>3, <1>4, <1>5, <3>1, <3>2, <4>1 DEF TracesJoin
    <3>3. CASE n # m
      <4>1. Seen(n)' <=> Seen(n)
        BY <1>3, <1>6, <3>3 DEF Seen
      <4> QED BY <1>1, <1>4, <1>5, <3>1, <3>3, <4>1 DEF TracesJoin
    <3> QED BY <3>2, <3>3
  <2>2. ASSUME NEW g \in Handlers,
               \/ opPc'[g] # "idle" /\ span'[g] = "open"
               \/ pubPc'[g] = "send" /\ next'[g] # given'[g]
        PROVE  \E n \in handling'[g] : state'[Receiving(n)] = "open"
    <3>1. g # h /\ \E n \in handling[g] : state[Receiving(n)] = "open"
      BY <1>1, <2>2 DEF TracesJoin, vars, opVars
    <3>2. \A n \in handling[g] : n \in Messages /\ n # m
      BY <1>3, <3>1 DEF MsgTypeOK
    <3> QED BY <1>5, <1>6, <3>1, <3>2
  <2> QED BY <2>1, <2>2 DEF TracesJoin
<1> QED BY <1>7, <1>8, <1>9, <1>10, <1>11, <1>12

----------------------------------------------------------------------------
(* A step of the cache client changes no message and no span; an operation *)
(* that opens a span belongs to a handler whose own span is open.          *)
LEMMA CacheStep ==
  ASSUME WInv, IInv, UNCHANGED msgVars,
         \/ UNCHANGED opVars
         \/ \E h \in Handlers : Cached(h) \/ UseCache(h)
  PROVE  WInv'
<1> USE DEF WInv, msgVars, pubVars, handlerVars, spanVars
<1>1. MsgTypeOK' /\ UsedInv' /\ SendInv' /\ InboxInv' /\ HandlingInv'
  BY DEF MsgTypeOK, UsedInv, SendInv, InboxInv, HandlingInv
<1>2. ASSUME NEW g \in Handlers, opPc'[g] # "idle", span'[g] = "open"
      PROVE  \E n \in handling[g] : state[Receiving(n)] = "open"
  <2>1. CASE UNCHANGED opVars
    BY <1>2, <2>1 DEF TracesJoin, opVars
  <2>2. ASSUME NEW h \in Handlers, Cached(h)
        PROVE  opPc[g] # "idle" /\ span[g] = "open"
    <3>1. g \in Users /\ h \in Users /\ opPc \in [Users -> {"idle", "rlock", "read"}]
          /\ span \in [Users -> {"none", "open", "ended", "failed", "twice"}]
      BY <1>2, <2>2, WorkerAssumption DEF IInv, TypeOK
    <3>2. CASE GetClient(h)
      BY <1>2, <3>1, <3>2 DEF GetClient, OpGoto
    <3>3. CASE Disconnected(h) \/ Get(h) \/ Set(h) \/ Delete(h)
      <4>1. g # h /\ \E result : SpanEnd(h, result)
        BY <1>2, <3>1, <3>3 DEF Disconnected, Get, Set, Delete, Served, OpGoto
      <4>2. opPc' = [opPc EXCEPT ![h] = "idle"]
        BY <3>3 DEF Disconnected, Get, Set, Delete, Served, OpGoto
      <4> QED BY <1>2, <3>1, <4>1, <4>2 DEF SpanEnd
    <3> QED BY <2>2, <3>2, <3>3 DEF Cached, OpStep
  <2>3. ASSUME NEW h \in Handlers, UseCache(h)
        PROVE  \E n \in handling[g] : state[Receiving(n)] = "open"
    <3>1. g \in Users /\ h \in Users /\ opPc \in [Users -> {"idle", "rlock", "read"}]
          /\ span \in [Users -> {"none", "open", "ended", "failed", "twice"}]
      BY <1>2, <2>3, WorkerAssumption DEF IInv, TypeOK
    <3>2. CASE g = h
      <4>1. PICK c \in {ctx[h], OptOut(ctx[h])} : span'[h] = "open" <=> HasTrace(c)
        BY <2>3 DEF UseCache
      <4>2. PICK n \in handling[h] : n \in Messages
        BY <2>3 DEF UseCache, MsgTypeOK
      <4>3. ctx[h] \in Contexts
        BY DEF MsgTypeOK
      <4>4. ctx[h].span # NoSpan
        BY <1>2, <3>2, <4>1, <4>3, ContextsAre DEF HasTrace
      <4> QED BY <3>2, <4>2, <4>4 DEF HandlingInv
    <3>3. CASE g # h
      <4>1. opPc'[g] = opPc[g] /\ span'[g] = span[g]
        BY <2>3, <3>1, <3>3 DEF UseCache, OpCall, OpGoto, SpanStart
      <4> QED BY <1>2, <4>1 DEF TracesJoin
    <3> QED BY <3>2, <3>3
  <2> QED BY <1>2, <2>1, <2>2, <2>3 DEF TracesJoin
<1>3. TracesJoin'
  BY <1>2 DEF TracesJoin, Seen
<1> QED BY <1>1, <1>3

(* Every step of a worker is a step of its cache client, or leaves that as *)
(* it is.                                                                  *)
LEMMA WorkerStepIsCacheStep == [WorkerNext]_workerVars => [Next]_vars
<1> SUFFICES ASSUME [WorkerNext]_workerVars PROVE [Next]_vars
  OBVIOUS
<1>1. CASE Manage
  BY <1>1 DEF Manage, Next
<1>2. CASE Messaging
  BY <1>2 DEF Messaging
<1>3. ASSUME NEW h \in Handlers, UseCache(h) \/ Cached(h) \/ HandlerPublishes(h)
      PROVE  [Next]_vars
  BY <1>3, WorkerAssumption DEF UseCache, Cached, HandlerPublishes, Next
<1>4. CASE UNCHANGED workerVars
  BY <1>4 DEF workerVars
<1> QED BY <1>1, <1>2, <1>3, <1>4 DEF WorkerNext

(* WInv is inductive, together with the invariant of the cache client.     *)
LEMMA WInvStep == IInv /\ WInv /\ [WorkerNext]_workerVars => WInv'
<1> SUFFICES ASSUME IInv, WInv, [WorkerNext]_workerVars PROVE WInv'
  OBVIOUS
<1>1. CASE Manage
  <2>1. UNCHANGED msgVars /\ UNCHANGED opVars
    BY <1>1 DEF Manage, StartCall, StopCall, CallStep, ProbeOk, ProbeFails, Retry, SetLock,
                SetClient
  <2> QED BY <2>1, CacheStep
<1>2. CASE Messaging
  <2>1. CASE Connection
    <3>1. connected' \in BOOLEAN /\ UNCHANGED <<pubVars, inbox, handlerVars, spanVars, vars>>
      BY <1>2, <2>1 DEF Connection, Messaging
    <3> QED BY <3>1 DEF pubVars, handlerVars, spanVars, vars, opVars, WInv, MsgTypeOK, UsedInv,
                         SendInv, InboxInv, HandlingInv, TracesJoin, Seen
  <2>2. ASSUME NEW p \in Publishers, Publish(p) PROVE WInv'
    <3>1. p \in Actors /\ p \notin Handlers /\ UNCHANGED vars
      BY <1>2, MessagesAssumption DEF Actors, Messaging
    <3> QED BY <2>2, <3>1, RefusedStep, StartStep, SentStep DEF Publish
  <2>3. ASSUME NEW h \in Handlers, Callback(h) \/ (Free(h) /\ HandlerReturns(h)) PROVE WInv'
    BY <1>2, <2>3, CallbackStep, ReturnStep DEF Messaging
  <2>4. \/ Connection
        \/ \E p \in Publishers : Publish(p)
        \/ \E h \in Handlers : Callback(h) \/ (Free(h) /\ HandlerReturns(h))
    BY <1>2 DEF Messaging
  <2> QED BY <2>1, <2>2, <2>3, <2>4
<1>3. ASSUME NEW h \in Handlers, UseCache(h) \/ Cached(h) PROVE WInv'
  BY <1>3, CacheStep DEF UseCache, Cached
<1>4. ASSUME NEW h \in Handlers, HandlerPublishes(h) PROVE WInv'
  <2>1. h \in Actors /\ handling[h] # {} /\ UNCHANGED vars /\ Publish(h)
    BY <1>4 DEF Actors, HandlerPublishes
  <2> QED BY <2>1, RefusedStep, StartStep, SentStep DEF Publish
<1>5. CASE UNCHANGED workerVars
  BY <1>5, CacheStep DEF workerVars, vars
<1> QED BY <1>1, <1>2, <1>3, <1>4, <1>5 DEF WorkerNext

----------------------------------------------------------------------------
(* A worker's steps are the cache client's own, or leave it alone: this    *)
(* carries the invariant of CacheProofs over.                              *)
LEMMA WorkerUsesCache == WorkerSpec => Spec
<1>1. WorkerInit => Init
  BY DEF WorkerInit
<1> QED BY <1>1, WorkerStepIsCacheStep, PTL DEF WorkerSpec, Spec

(* IInv and WInv hold of every state a worker can reach.                   *)
THEOREM WorkerInvariance == WorkerSpec => [](IInv /\ WInv)
<1>1. WorkerInit => WInv
  BY InitWInv DEF WorkerInit
<1>2. WorkerSpec => []IInv
  BY WorkerUsesCache, Invariance, PTL
<1> QED BY <1>1, <1>2, WInvStep, PTL DEF WorkerSpec

(* Every variable of the two clients keeps its type in a worker.           *)
THEOREM WorkerTypeCorrect == WorkerSpec => []WorkerTypeOK
<1>1. IInv /\ WInv => WorkerTypeOK
  BY DEF IInv, WInv, WorkerTypeOK
<1> QED BY <1>1, WorkerInvariance, PTL

(* The trace of every request is whole: publish, callback and what the     *)
(* handler does with its context hang together and end in order, whatever  *)
(* is lost or refused, and however many handlers and publishers there are. *)
THEOREM TracesAreWhole == WorkerSpec => []TracesJoin
<1>1. WInv => TracesJoin
  BY DEF WInv
<1> QED BY <1>1, WorkerInvariance, PTL

(* In a worker, too, every cache operation ends its span, once, and with   *)
(* the outcome its handler saw.                                            *)
THEOREM WorkerEndsSpans == WorkerSpec => []SpansEnd
<1>1. IInv => SpansEnd
  BY DEF IInv
<1> QED BY <1>1, WorkerInvariance, PTL
==============================================================================

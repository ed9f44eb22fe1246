------------------------------- MODULE FanOut -------------------------------
(***************************************************************************)
(* What an event bus topic promises each of its subscribers: while it is a *)
(* member it accepts values; a value it accepted leaves its inbox, in      *)
(* order, only to be handled; once it leaves it accepts nothing more; and  *)
(* once it is gone nothing is left in its inbox and no handler runs.       *)
(***************************************************************************)
EXTENDS Sequences

CONSTANTS Subs, Value

VARIABLES phase,        \* "absent", "member", "leaving" or "gone"
          inbox,        \* values accepted and not yet handed to the handler
          running       \* values the handler is busy with

vars == <<phase, inbox, running>>

Init ==
  /\ phase = [s \in Subs |-> "absent"]
  /\ inbox = [s \in Subs |-> <<>>]
  /\ running = [s \in Subs |-> {}]

Join(s) ==
  /\ phase[s] = "absent"
  /\ phase' = [phase EXCEPT ![s] = "member"]
  /\ UNCHANGED <<inbox, running>>

Accept(s, v) ==
  /\ phase[s] = "member"
  /\ inbox' = [inbox EXCEPT ![s] = Append(@, v)]
  /\ UNCHANGED <<phase, running>>

Handle(s) ==
  /\ inbox[s] # <<>>
  /\ inbox' = [inbox EXCEPT ![s] = Tail(@)]
  /\ running' = [running EXCEPT ![s] = @ \union {Head(inbox[s])}]
  /\ UNCHANGED phase

Handled(s, v) ==
  /\ v \in running[s]
  /\ running' = [running EXCEPT ![s] = @ \ {v}]
  /\ UNCHANGED <<phase, inbox>>

Leave(s) ==
  /\ phase[s] = "member"
  /\ phase' = [phase EXCEPT ![s] = "leaving"]
  /\ UNCHANGED <<inbox, running>>

Depart(s) ==
  /\ phase[s] = "leaving" /\ inbox[s] = <<>> /\ running[s] = {}
  /\ phase' = [phase EXCEPT ![s] = "gone"]
  /\ UNCHANGED <<inbox, running>>

Next ==
  \E s \in Subs :
    \/ Join(s) \/ Handle(s) \/ Leave(s) \/ Depart(s)
    \/ \E v \in Value : Accept(s, v) \/ Handled(s, v)

Spec == Init /\ [][Next]_vars
=============================================================================

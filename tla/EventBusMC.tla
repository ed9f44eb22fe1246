----------------------------- MODULE EventBusMC -----------------------------
(***************************************************************************)
(* Instances of EventBus for TLC.                                          *)
(***************************************************************************)
EXTENDS EventBus, TLC

CONSTANTS s1, w1, p1

(* Subscriptions, workers and publishers are interchangeable.              *)
Symmetry == Permutations(Subs) \union Permutations(Workers) \union Permutations(Publishers)

(* One publisher outside, and a handler that publishes to its own topic.   *)
ReentrantPublishers == {p1, <<s1, w1>>}
=============================================================================

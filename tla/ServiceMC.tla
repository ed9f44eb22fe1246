----------------------------- MODULE ServiceMC ------------------------------
(* Service with the order of layers the comments of the metrics            *)
(* middlewares ask for.                                                    *)
EXTENDS Service, TLC

CONSTANTS r1, r2

Symmetry == Permutations({r1, r2})

Root == NewRouter(<<"recovery", "logger", "metrics">>)
Api == Child(Child(Root, <<"recovery">>), <<"error">>)

AllChains ==
  [http |-> RouteLayers(Api),
   unary |-> <<"recovery", "logger", "metrics", "recovery", "error">>,
   stream |-> <<"metrics">>]

Arrival(t, path, reduced, matched) ==
  [transport |-> t, path |-> path, reduced |-> reduced, matched |-> matched]

AllArrivals ==
  {Arrival("http", "api", FALSE, TRUE), Arrival("http", "api", FALSE, FALSE),
   Arrival("http", "api", TRUE, TRUE), Arrival("http", "health", TRUE, TRUE),
   Arrival("unary", "api", FALSE, TRUE), Arrival("stream", "api", FALSE, TRUE)}
=============================================================================

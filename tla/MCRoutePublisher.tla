-------------------------- MODULE MCRoutePublisher --------------------------
(* Instances of RoutePublisher for TLC. *)
EXTENDS RoutePublisher, TLC

CONSTANTS a, b, m1, m2

\* a and b publish the same model.
SameModel == (a :> m1) @@ (b :> m1)
=============================================================================

----------------------------- MODULE MCScaling -----------------------------
(* Instances of Scaling for TLC. *)
EXTENDS Scaling

AllDisturbances == {"edit", "apiError", "load", "metrics", "drift"}
SomeAutoscaling == {[min |-> 1, max |-> 2]}
SomeAvailability == {[shape |-> "min", n |-> 2], [shape |-> "max", n |-> 0]}
=============================================================================

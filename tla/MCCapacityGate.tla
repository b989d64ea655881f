---------------------------- MODULE MCCapacityGate ----------------------------
(* A small instance of CapacityGate for TLC: two calls of each of two   *)
(* groups and one of a third.                                              *)
EXTENDS CapacityGate
Groups == [a1 |-> "a", a2 |-> "a", b1 |-> "b", b2 |-> "b", c1 |-> "c"]
=============================================================================
